------------------------------ MODULE Inventory ------------------------------
(***************************************************************************)
(* The asset inventory: reports of discovery sources, their reconciliation *)
(* and the lifecycle of an asset (inventory/engine.py, inventory/memory.py *)
(* and inventory/postgres.py).  AssetStore.put replaces the whole record   *)
(* whatever it was, and appends the new one to the history of the asset.   *)
(***************************************************************************)
EXTENDS Naturals, Sequences, FiniteSets

CONSTANTS
  Asset,        \* asset ids, naturals: query pages run in their order, 0 is no cursor
  Source,       \* discovery sources
  Rate,         \* reliability of each source
  Reports,      \* [asset, source, at, fields, state] a source may deliver
  Classes,      \* verdicts of the classifier
  Nothing,      \* an optional field that is not set
  Clerk,        \* callers of the engine
  PageSize, PageBudget, \* a page of query, and the rows a sweep may read
  MaxTasks      \* bound: calls started

Field == {"asset_type", "classification", "owner"}

ASSUME InventoryAssumption ==
  /\ Asset \subseteq Nat \ {0} /\ Rate \in [Source -> Nat]
  /\ \A rep \in Reports : /\ rep.asset \in Asset /\ rep.source \in Source /\ rep.at \in Nat
                          /\ DOMAIN rep.fields = Field /\ rep.fields.asset_type # Nothing
  /\ PageSize \in Nat \ {0} /\ PageBudget \in Nat \ {0} /\ MaxTasks \in Nat

VARIABLES
  assets,       \* the asset store
  history,      \* snapshots of each asset, oldest first
  task,         \* the call each clerk is in
  tasks,        \* counter of the bound
  said,         \* history: the fields each source reported last of each asset
  edited,       \* history: assets whose fields somebody but a source has written
  retired       \* history: assets somebody has said are decommissioned

inventoryVars == <<assets, history, task, tasks, said, edited, retired>>

Blank   == [f \in Field |-> Nothing]
Unknown == [stored |-> FALSE, source |-> Nothing, fields |-> Blank, state |-> "active",
            first |-> 0, last |-> 0, conflicts |-> {}]

\* rows: what the call has read; left: rows it has still to write; cursor: the last id
\* it has read; owed: assets stored when it began; alone: no other call overlapped it.
NoTask == [pc |-> "idle", op |-> "none", rows |-> [a \in {} |-> Unknown], left |-> {}, cursor |-> 0,
           owed |-> {}, input |-> Nothing, snapshots |-> <<>>, alone |-> FALSE]

InventoryInit ==
  /\ assets = [a \in Asset |-> Unknown]
  /\ history = [a \in Asset |-> <<>>]
  /\ task = [c \in Clerk |-> NoTask]
  /\ tasks = 0
  /\ said = [a \in Asset |-> [s \in Source |-> Blank]]
  /\ edited = {} /\ retired = {}

KnownAssets == {a \in Asset : assets[a].stored}
Doing(c, op, pc) == task[c].op = op /\ task[c].pc = pc

Begins(c, new) ==
  /\ task[c].pc = "idle" /\ tasks < MaxTasks
  /\ tasks' = tasks + 1
  /\ task' = [other \in Clerk |->
       IF other = c THEN [new EXCEPT !.alone = \A d \in Clerk : task[d].pc = "idle"]
       ELSE [task[other] EXCEPT !.alone = FALSE]]

\* The read that ingest, mark_unreported, decommission and classify begin with;
\* get of an asset that is not there raises, but for ingest.
Gets(c, op, a, input, pc) ==
  /\ a \in KnownAssets \/ op = "ingest"
  /\ Begins(c, [NoTask EXCEPT !.pc = pc, !.op = op, !.rows = [b \in {a} |-> assets[a]],
                              !.left = {a}, !.input = input])
  /\ UNCHANGED <<assets, history, said, edited, retired>>

-----------------------------------------------------------------------------
(* reconcile: the latest snapshot of each source, field by field           *)
\* Mutant of LatestBySource: the first snapshot of a source stands for it.
LatestBySource_First(h) ==
  {h[i] : i \in {k \in DOMAIN h : \A j \in DOMAIN h : j < k => h[j].source # h[k].source}}

LatestBySource(h) ==
  {h[i] : i \in {k \in DOMAIN h : \A j \in DOMAIN h : j > k => h[j].source # h[k].source}}

\* A report without an owner says nothing of the owner; any other field counts.
Candidates(h, f) ==
  {row \in LatestBySource(h) : f = "owner" => row.fields[f] # Nothing}

ValuesOf(rows, f) == {row.fields[f] : row \in rows}
Leaders(rows)     == {row \in rows : \A other \in rows : Rate[other.source] <= Rate[row.source]}
Tied(h, f)        == Cardinality(ValuesOf(Leaders(Candidates(h, f)), f)) > 1

Conflicts(h) ==
  {[field |-> f, unresolved |-> Tied(h, f)] :
     f \in {g \in Field : Cardinality(ValuesOf(Candidates(h, g), g)) > 1}}

\* A tie leaves the type as it is and unsets the other two.
Resolved(row, h) ==
  [f \in Field |->
     IF Tied(h, f) THEN IF f = "asset_type" THEN row.fields[f] ELSE Nothing
     ELSE IF Candidates(h, f) = {} THEN Nothing
     ELSE CHOOSE v \in ValuesOf(Leaders(Candidates(h, f)), f) : TRUE]

ReconcileReadsHistory(c, a) ==
  /\ Doing(c, "reconcile", "read") /\ a \in task[c].left
  /\ task' = [task EXCEPT ![c].pc = "write", ![c].snapshots = history[a]]
  /\ UNCHANGED <<assets, history, tasks, said, edited, retired>>

-----------------------------------------------------------------------------
(* sweep_unreported(source): reads all pages, within the budget            *)
SweepBegins(c, s, at) ==
  /\ Begins(c, [NoTask EXCEPT !.pc = "read", !.op = "sweep", !.owed = KnownAssets,
                              !.input = [source |-> s, at |-> at]])
  /\ UNCHANGED <<assets, history, said, edited, retired>>

After(n)  == {a \in KnownAssets : a > n}
Page(c)   ==
  LET room == PageBudget - Cardinality(DOMAIN task[c].rows)
      size == IF PageSize < room THEN PageSize ELSE room
  IN  {a \in After(task[c].cursor) :
         Cardinality({b \in After(task[c].cursor) : b < a}) < size}

Silent(row, sweep) ==
  /\ row.source = sweep.source /\ row.last < sweep.at
  /\ row.state \notin {"decommissioned", "archived", "unreported"}

SweepDecides(c, rows) ==
  LET found == {a \in DOMAIN rows : Silent(rows[a], task[c].input)}
  IN  IF found = {} THEN NoTask
      ELSE [task[c] EXCEPT !.pc = "write", !.rows = rows, !.left = found]

\* The budget is used up and there is more: InventoryUnavailable.
SweepReadsPage(c) ==
  /\ Doing(c, "sweep", "read")
  /\ LET page == Page(c)
         rows == [a \in DOMAIN task[c].rows \cup page |->
                    IF a \in page THEN assets[a] ELSE task[c].rows[a]]
         more == After(task[c].cursor) \ page # {}
     IN  task' = [task EXCEPT ![c] =
           IF more /\ Cardinality(DOMAIN rows) = PageBudget THEN NoTask
           ELSE IF more
           THEN [@ EXCEPT !.rows = rows, !.cursor = CHOOSE a \in page : \A b \in page : b <= a]
           ELSE SweepDecides(c, rows)]
  /\ UNCHANGED <<assets, history, tasks, said, edited, retired>>

-----------------------------------------------------------------------------
\* A report replaces everything but the moment the asset was first seen.
Delivered(row, rep) ==
  [Unknown EXCEPT !.stored = TRUE, !.source = rep.source, !.fields = rep.fields,
                  !.state = rep.state, !.last = rep.at,
                  !.first = IF row.stored THEN row.first ELSE rep.at]

\* Mutant of Changed: what a sweep does not find is gone for good.
Changed_Gone(c, row) ==
  CASE task[c].op = "ingest"       -> Delivered(row, task[c].input)
    [] task[c].op = "reconcile"    -> [row EXCEPT !.fields = Resolved(row, task[c].snapshots),
                                                  !.conflicts = Conflicts(task[c].snapshots)]
    [] task[c].op = "classify"     -> [row EXCEPT !.fields.classification = task[c].input]
    [] task[c].op = "mark"         -> [row EXCEPT !.state = "unreported"]
    [] task[c].op \in {"sweep", "decommission"} -> [row EXCEPT !.state = "decommissioned"]

Changed(c, row) ==
  CASE task[c].op = "ingest"       -> Delivered(row, task[c].input)
    [] task[c].op = "reconcile"    -> [row EXCEPT !.fields = Resolved(row, task[c].snapshots),
                                                  !.conflicts = Conflicts(task[c].snapshots)]
    [] task[c].op = "classify"     -> [row EXCEPT !.fields.classification = task[c].input]
    [] task[c].op \in {"mark", "sweep"} -> [row EXCEPT !.state = "unreported"]
    [] task[c].op = "decommission" -> [row EXCEPT !.state = "decommissioned"]

\* put of the next row that was read, as the call has changed it
Puts(c, a) ==
  /\ task[c].pc = "write" /\ a \in task[c].left
  /\ \A b \in task[c].left : a <= b
  /\ LET row == Changed(c, task[c].rows[a]) IN
       /\ assets' = [assets EXCEPT ![a] = row]
       /\ history' = [history EXCEPT ![a] = Append(@, row)]
  /\ task' = [task EXCEPT ![c] = IF task[c].left = {a} THEN NoTask
                                  ELSE [task[c] EXCEPT !.left = @ \ {a}]]
  /\ said' = IF task[c].op = "ingest"
             THEN [said EXCEPT ![a][task[c].input.source] = task[c].input.fields] ELSE said
  /\ edited' = IF task[c].op \in {"reconcile", "classify"} \/ ~ task[c].alone
               THEN edited \cup {a} ELSE edited
  /\ retired' = IF \/ task[c].op = "decommission"
                   \/ task[c].op = "ingest" /\ task[c].input.state = "decommissioned"
                THEN retired \cup {a} ELSE retired
  /\ UNCHANGED tasks

\* A provider or the store raises, or the process ends: what is written stays.
InventoryInterrupt(c) ==
  /\ task[c].pc # "idle"
  /\ task' = [task EXCEPT ![c] = NoTask]
  /\ UNCHANGED <<assets, history, tasks, said, edited, retired>>

\* decommission without evidence and without a decision raises before it reads.
InventoryNext ==
  \E c \in Clerk :
    \/ \E rep \in Reports : Gets(c, "ingest", rep.asset, rep, "write")
    \/ \E a \in Asset :
         \/ Gets(c, "reconcile", a, Nothing, "read")
         \/ Gets(c, "mark", a, Nothing, "write")
         \/ Gets(c, "decommission", a, Nothing, "write")
         \/ \E v \in Classes : Gets(c, "classify", a, v, "write")
         \/ ReconcileReadsHistory(c, a)
         \/ Puts(c, a)
    \/ \E rep \in Reports : SweepBegins(c, rep.source, rep.at)
    \/ SweepReadsPage(c)
    \/ InventoryInterrupt(c)

InventorySpec == InventoryInit /\ [][InventoryNext]_inventoryVars

-----------------------------------------------------------------------------
(* Absence is not retirement (FR-4, FR-6): an asset is decommissioned only *)
(* when a decommission call or a report of a source has said so, whatever  *)
(* stale rows sweeps and other calls write back.                           *)
RetirementIsDecided ==
  \A a \in KnownAssets : assets[a].state = "decommissioned" => a \in retired

(* A sweep marks nothing unless it has read every asset that was stored    *)
(* when it began, over however many pages (ECR-0061), so that its answer   *)
(* is about the whole tenant; assets delivered meanwhile may be missed.    *)
SweepIsWhole ==
  \A c \in Clerk : Doing(c, "sweep", "write") => task[c].owed \subseteq DOMAIN task[c].rows

(* What nobody reported is neither retired for it nor judged by halves.    *)
AbsenceIsNotRetirement == RetirementIsDecided /\ SweepIsWhole

\* The reports a reconciliation is about, straight from what was said.
Speakers(a, f) ==
  {s \in Source : /\ said[a][s].asset_type # Nothing
                  /\ f = "owner" => said[a][s][f] # Nothing}
Loudest(a, f)  == {s \in Speakers(a, f) : \A t \in Speakers(a, f) : Rate[t] <= Rate[s]}
Disputed(a, f) == \E s, t \in Speakers(a, f) : said[a][s][f] # said[a][t][f]

ReconcileWrites(c, a) ==
  task[c].op = "reconcile" /\ task[c].pc = "write" /\ a \in task[c].left /\ assets'[a] # assets[a]

(* The first reconciliation of an asset depends on what each source said   *)
(* last and on nothing else, above all not on the order of the reports     *)
(* (FR-2, FR-3): a field has the value its most reliable sources agree on, *)
(* is left open when they do not, and every dispute is recorded.           *)
ReconcileIgnoresOrder ==
  [][\A c \in Clerk, a \in KnownAssets :
       (ReconcileWrites(c, a) /\ a \notin edited /\ task[c].alone) =>
         \A f \in Field :
           /\ \A s \in Loudest(a, f) :
                IF \E t \in Loudest(a, f) : said[a][t][f] # said[a][s][f]
                THEN f # "asset_type" => assets'[a].fields[f] = Nothing
                ELSE assets'[a].fields[f] = said[a][s][f]
           /\ Disputed(a, f) <=> \E e \in assets'[a].conflicts : e.field = f]_inventoryVars

(* docs/architecture/modules/EA-0025-cyber-asset-discovery-inventory-     *)
(* intelligence.spec.md NFR-2:                                             *)
(* "every reconciliation conflict is on the record; ties surfaced".  After *)
(* each reconciliation the record lists the fields the last reports of the *)
(* sources differ in.                                                      *)
EveryConflictIsOnRecord ==
  [][\A c \in Clerk, a \in KnownAssets :
       (ReconcileWrites(c, a) /\ task[c].alone) =>
         \A f \in Field :
           Disputed(a, f) => \E e \in assets'[a].conflicts : e.field = f]_inventoryVars
=============================================================================
