# BhoomiMitra land acquisition backend: TLA+ models, checks and proofs

The program is a FastAPI backend for land acquisition under the RFCTLARR Act: requiring
bodies propose acquisitions, offices sanction them, each sanction opens a case, and a case
goes through nine statutory stages while surveys, objections, documents, awards and notices
are recorded against it. It keeps everything in PostgreSQL; there is one background loop,
the rule sweep. Paths below are those of the repository (`app/...`).

What makes it hard is not any one handler but that **nothing serialises them**. Synchronous
handlers run in a thread pool, each in a session of its own (`autoflush=False`) at READ
COMMITTED. No statement takes a row lock, no table has a version column, and `IntegrityError`
is caught in one place only. A handler loads rows, decides on what it loaded, and commits an
UPDATE of the columns *it changed*. Module `UnitOfWork` is that rule, and every other module
is written against it.

Contents: 1 inventory, 2 modules, 3 plan and what became of it, 4 runs and bounds, 5 fairness, 6 proofs,
7 disagreements found, 8 what is not modelled.

## 1. Inventory

| component | state it keeps | operations that change it | what is hard | what makes it correct |
|---|---|---|---|---|
| Case workflow: `services/workflow.py`, `routers/cases.py`, `services/sla.py` | `cases` (stage, status, stage_changed_on, stage_due_on), `case_stage_history` | open, advance (forward, send back), hold, resume, record the fund deposit | gates are counted before the commit; status and deadline are written only when they differ from the loaded ones | the timeline is a path of legal moves that ends at the stage; a hold holds; the deadline is the stage's; a gated stage is entered with nothing open |
| Field surveys: `routers/survey.py`, `routers/discrepancies.py` | `survey_tasks`, `survey_photos`, `survey_discrepancies`, a parcel's `boundary`, `field_survey_boundary`, `has_boundary_discrepancy` | create, start, save, add and remove a photo, submit, approve, return; file and answer a discrepancy | approval writes a parcel another approval or answer has loaded; uploads are awaited after the status check | the boundary of record is one approved walk written once; what was submitted stays; a flag has an open mismatch behind it |
| Proposals: `routers/proposals.py`, `services/proposals.py` | `proposals`, `proposal_reviews` | create, edit, transition; sanctioning opens a case | sanction overlapping withdrawal, return or edit; several inserts that must fail together | approved exactly when one case is open; every hand-off by the office that may; nothing edited under scrutiny |
| Numbering: `services/numbering.py` | none: the numbers on the rows | next case, proposal and grievance number | minted from a query, inserted later; compared as strings | a number is free when minted; no gaps |
| Rule sweep and inbox: `services/scheduler.py`, `services/alerts.py`, `services/notify.py`, `routers/notifications.py` | `alerts`, `notifications` | sweep (load, delete, insert, fan out, commit), mark read | sweeps of the loop, a cron job and `run-rules` overlap; a sweep fails; per-run limit | each finding once; alerts become what stands; a standing finding is delivered |
| Objections: `routers/objections.py`, `services/notify.py`, `services/landowner_notify.py` | `objections`, the filer's inbox and telephone | file, respond | answered any number of times; the SMS leaves before the commit that stores the answer and the inbox item | the filer hears the decision that stands; an open objection gates the declaration |
| Documents: `routers/documents.py`, `services/uploads.py` | `documents`, the files | upload a version, verify, download (heals placeholders) | upload awaited before superseding; the disk is emptied by restarts | one current version, numbers in order, each superseding the one before; the digest is that of the file |
| Compensation: `routers/persons.py`, `services/compensation.py` | `compensation` | declare an award, revise, pay | payment and revision each checked on the loaded row; money rounded | paid never exceeds awarded; "paid" means nothing is outstanding |
| Affected persons and R&R: `routers/persons.py` | `affected_persons`, `rnr_records`, `rnr_benefits` | add and change a household, its consent, its resettlement, its benefits | the note a delivery state requires is judged on the loaded row | the readers' view of outstanding resettlement |
| Grievances: `routers/grievances.py`, `services/grievances.py` | `grievances`, their status history | file, respond | closed states checked on the loaded row | closed stays closed; status ends the history |
| Notices and landowners: `routers/notices.py`, `services/landowner_notify.py`, `services/credentials.py` | `statutory_notices`, subscriptions, `notification_log`, accounts | issue, subscribe, provision | check-then-insert; message sent after the commit | one instrument of a kind per case; one account per owner; whoever subscribed is told |
| Invitations: `services/invites.py`, `routers/auth.py`, `routers/admin.py` | `invite_codes`, `users` | issue, revoke, register, list (wipes secrets) | use count read, raised and written | an invitation admits at most `max_uses` accounts |
| Sign-in: `routers/auth.py`, `mfa.py`, `biometrics.py`, `services/ratelimit.py` | `_failures` in memory, `users`' two secrets, `biometric_credentials` | sign in, set up, confirm and drop an authenticator, enrol a face | the counter is asked before and raised after a slow check, by several threads; a secret is confirmed while another is being set up | a refusal names a time that is kept; what guards an account was shown to work |
| Parcels, land records, mutation: `routers/parcels.py`, `services/landrecords.py`, `integrations/*` | `parcels`, `mutation_requests` | create, change, reconcile, push a change of ownership | the push is outside the transaction; units are converted and rounded | what is on record was sent; a report names what differs |
| Rules, KPIs, predictions: `ai_layer/*` | none | pure functions of a case and a day | boundaries of days; several readers work out one figure | readers agree; a case nobody touches never looks better |
| Dashboards, exports, case report, public records | none | none | each asks the tables itself | the same figure is the same on every screen |
| Audit, accounts, projects, reference data, schema, start-up | audit rows, configuration | append, create | | an audit row commits with its change |

How they interact: a sanction (Proposals) opens a case (Case workflow) under a minted number
(Numbering). Objections and survey tasks gate a case's moves. Survey approval and parcel
screens share the parcel row. The sweep reads cases, objections, documents, awards and
deposits and writes alerts; alerts become inbox items. Notices are issued from a case's stage
and go to a parcel's subscribers. There are no callbacks and no queues: components meet in
the database.

`PROJECT.json` lists every component with its status, and the hazards at their lines with the
properties that cover them; a hazard without one says why none covers it.

## 2. Modules

**`UnitOfWork`**: what a commit leaves in a row: the assigned value in every column the
request changed *relative to what it loaded*, the stored value in every other. Used by all
modules below; it is what makes lost updates and mixed rows come out as they do in PostgreSQL.

**`Stages`**: the nine stages, case statuses, roles and the tables of `workflow.py`
(`AllowedTransitions`, `CanAdvance`).

**`CaseWorkflow`** (MC: `MCCaseWorkflow`, proofs: `CaseWorkflowProofs`). One case; cases share
no row. `case` is its row, `history` its timeline, `objections` and `surveys` the statuses the
gates count, `request[w]` what the thread `w` has loaded. `advance_stage` is three steps, at
the points where another transaction can commit in between: `BeginAdvance` (load, checks on
the loaded row), `PassGates` or `RefusedAtGates` (the two counts, then the assignments in the
session), `CommitAdvance` (UPDATE and timeline row together). `hold` and `resume` are a load
and a commit. Objection and survey handlers write one row nobody else's decision here depends
on between its load and its commit, and are one step each; that an approved survey can be
reopened by a return that was under way is the one effect of their overlap the gate sees, and
is an action of its own.

**`CaseLifecycle`**: the abstract specification: a case moves one stage at a time, not while
on hold, closes exactly at the last stage, and enters the gated stages with nothing open.
`CaseWorkflow` with one worker implements it (`ImplementsLifecycle`: `stage <- case.stage`,
`objectionOpen <- ObjectionOpen` and so on); with two it does not, and the violation runs say
in which ways.

**`Survey`** (MC: `MCSurvey`, proofs: `SurveyProofs`). Survey tasks of one parcel with their photos, the parcel's
three columns and its AREA_MISMATCH rows. A boundary is a model value and an area is "near" or
"far" from the area of record, which is all that `approve_survey_task` asks. Approval loads the
task, then the parcel (`WeighSurvey`), then commits both with the mismatch it may open.

**`NumberSequence`**. Numbers as the code compares them: as strings of zero-padded digits, so
the order (`SortsBefore`) is by leading digits and then by length.

**`Proposals`** (MC: `MCProposals`, proofs: `ProposalsProofs`). Proposals with their file history and the cases their
sanction opens. `MayMove` is the table `TRANSITIONS`. A transition is a load and a commit; a
sanction has a step in between that mints the case number; a new proposal is minted in one step
and inserted in another. `NumberTaken` is the unique constraint refusing the whole transaction.
`EarlierCases` are the numbers of the last cases opened in the district before.

**`AlertSweep`** (proofs: `AlertSweepProofs`). Sweepers that load cases and run the rules, delete the
alerts, insert, fan out and commit. The DELETE is modelled as PostgreSQL runs it: on the rows
committed when the statement began, waiting for a transaction that is deleting one of them
and skipping what that one removed, blind to what it inserted. A finding is a rule firing on a
case; which findings stand changes freely (`Change`). Whether sweeps overlap in a behaviour is
chosen when it begins (`overlapping`).

**`CaseDesks`** (MC: `MCCaseDesks`, proofs: `CaseDesksProofs`) puts eleven small modules behind
one instance, each with INSTANCE. Their handlers share threads and no rows, so a behaviour is
explored one desk at a time: `desk`, and whether its requests come one by one and never fail
(`orderly`) or overlap and may fail, are chosen in `Init`. `Requests` holds what they have in
common: a thread is idle, or holds the rows its request loaded until it commits or ends early.

- **`Documents`** (proofs: `DocumentsProofs`): the versions of one type of document, the files, and restarts that empty the
  disk. An upload runs in the event loop of the single server process (`DEPLOYMENT.md`): after
  its awaited file nothing of another upload comes in between, so superseding and inserting are
  one step (`FileDocument`). Verifications and downloads are threads. Files are numbered by the
  order they are written in; a digest is the number of the file it was taken of.
- **`Compensation`**: the award of one household: `compute_award` with Python's rounding
  (module `Rounding`: halves to the even number), an update that names some of the fields, the
  status it derives.
- **`Households`**: households, consent, the resettlement each is owed and its benefits, with the
  notes that delivery states require.
- **`Parcels`** over **`LandRecords`**: parcels with their survey numbers and ULPINs; the change of
  ownership, which is sent first and recorded second (`pushes` is what the state's system got,
  `mutations` what the database knows of it); the portals' record of a parcel, through hectares,
  square metres and thousandths of an acre and back, and `Reports`, which compares it with the
  file.
- **`Objections`**: filing and answering; `texted` and `inbox` are what the filer was told.
- **`Grievances`**: rows and timelines; filing with an attachment mints the number, awaits, and
  inserts, where the unique constraint may refuse it; an answer writes status and timeline row.
- **`Notices`** (proofs: `NoticesProofs`): the register of one case, the subscriptions to its parcel, the owner's account.
  Issuing and subscribing commit their row, look up the subscribers, send, and commit the log.
  `cut` keeps what a request that ended between its commits was to tell.
- **`Invitations`**: one invitation: the use count that registrations read, raise and write,
  withdrawal, expiry, and the wiping of the readable copy.
- **`SignIns`**: the limiter that three routes share: ask, spend time on the check, record or
  forget. `promised` is when the last refusal said to try again; time is
  counted in ticks, several to a second, because the answer is rounded to whole seconds.
- **`Authenticators`**: the two TOTP columns of an account, with the secrets somebody has shown a
  code of, and its face credentials under the partial unique index.
- **`CaseFiles`** over **`Rules`**, **`Forecast`** and **`Figures`** (proofs: `CaseFilesProofs`): the file of one case while
  officers work on it and days pass, and what its readers make of it. `Rules` are the eight alert
  rules, `Forecast` the stage model, the risk score and the dates of `predict.py`, `Figures` what
  the dashboard, the KPIs, the list and the case page say. Every figure is an operator of the
  file and the day; a figure of many cases is a sum of what is here. Operations on the file are
  what the other modules make of it once they have committed.

Constants are the sets (workers, tasks, ...) and the bounds; every bound is named
(`MaxMoves`, `MaxDay`, `MaxReviews`, `MaxContent`, `MaxChanges`, `MaxFailures`,
`Mismatches`, `MaxVersions`, `MaxContents`, `MaxHouseholds`, `MaxBenefits`, `MaxParcels`,
`MaxPushes`, `MaxObjections`, `LastDay`, `MaxGrievances`, `MaxSubscriptions`, `LastTick`,
`MaxFaces`, `MaxActs`). Operators named "Mutant of ..." are the ways the definition above or below
them could plausibly be wrong; each property has one that breaks it.

## 3. Plan and what became of it

The order of work was: the stage machine, which everything else hangs on; the survey and the
sanction, the two handlers that write several tables at once; the sweep, the only long-running
process; the desks around a case, one small module each; the readers (rules, forecast, figures),
with their agreement as the property; and then the proofs, one module beside each module proved
about, with `CaseDesksProofs` lifting those of single desks to the composition. The proofs then
went on to the serial properties, to money, invitations, messages, land records and the limiter,
to the readers, and last to the types of all eleven desks.

Proving changed the model where it was wrong or could not be reasoned about. A sanction that has
minted its case number is an operation of its own in `Proposals` (`open`): a proposal has as
many cases as its history has sanctions only because such a request can no longer become a plain
move. `HoldLostOnlyAtTheEnd` now says what the proof for any number of threads showed to be true:
a hold is overwritten by a move that closes the case *or loaded it closed*; two threads from the
start stages of the run show only the first. `ReconcileTellsTheDifference` first
held only of plots large enough for the adapters' rounding not to matter; it now says of a plot of
any size how far the rounding may mislead, and that is what the proof is about.
`Forecast` states the durations of a stage as a function over the rows of the timeline, with the
code's guard against negative ones, where it filtered a sequence before: what the prover knows of
a filtered sequence is too little to say which value the median is.

What would come next: one behaviour from proposal to closed case (`Proposals` composed with
`CaseWorkflow`, which today meet in the case a sanction opens); the recipients of notifications.

## 4. Runs and bounds

One worker means requests one after the other, two mean they overlap. Two are enough for every
race named here: each is a load of one request before the commit of another. Threads,
objections, tasks and walks are interchangeable, so the runs of safety properties use
symmetry; the runs with liveness properties do not.

| run | instance | shows |
|---|---|---|
| `case_serial` | 1 worker, 2 objections, 1 survey, from stages 1, 3, 4, 7, 9, 4 moves, 2 days | the handlers implement `CaseLifecycle`; `HistoryIsAPath`; `DueDateDescribesStage` |
| `case_races` | 2 workers, from stages 3 and 8 (into both gates' stage and the last one), 3 moves | `TypeOK`, `HistoryEndsAtStage`, `HistoryRowsLegal`; a hold is only ever overwritten by a move that closes the case or loaded it closed (`HoldLostOnlyAtTheEnd`) |
| `survey_serial` | 1 worker, 2 tasks, 2 walks, 1 photo, 2 mismatches | what is submitted has evidence, which stays (`SubmittedEvidenceStays`); the record is one approved walk, written once (`RecordIsAnApprovedWalk`, `RecordWrittenOnce`); the flag is explained (`FlagIsExplained`) and only the last answer clears it (`AnswerClearsOnlyTheLast`) |
| `survey_races` | 2 workers, 2 tasks, 1 walk, 1 mismatch | a parcel is flagged only by an approval that files the mismatch behind the flag (`FlagRaisedWithItsMismatch`); `RecordIsNeverErased` |
| `proposals_serial` | 1 worker, 2 proposals, one state, 5 rows of history (create, submit, scrutinise, return or decide), case numbers from 98 | `ApprovedIsSanctioned`, `FileHistoryIsAPath`, `NextCaseNumberIsFree`, `FileUnchangedUnderScrutiny` |
| `proposals_races` | 2 workers, 1 proposal, 9 rows (two whole rounds, so that a second sanction is reached) | `StatusEndsFileHistory` (with every row a hand-off its actor's office may make), `OneCasePerSanction` |
| `sweep` | 2 sweepers taking turns or overlapping, 2 findings, limit 1 per run (so it is reached), 2 changes, 1 failure | `AlertsConverge`, `FindingsDelivered`; without overlap `NoDuplicateAlerts`; `SweepOnlyAddsFindings` |
| `desks` | 2 workers, eleven desks, see below | fifteen properties, see below |

The instances of `desks`, and what holds there; "overlapping" means that requests overlap and
fail as well as coming one by one:

| desk | instance | shows |
|---|---|---|
| documents, overlapping | 2 versions, 3 files | `VersionsFormAChain`; one by one `DigestDescribesFile` |
| compensation | market values, rates, interests and totals paid such that some awards round up and some down | `PaidWithinAward`, with "paid" meaning nothing outstanding unless officers set it by hand |
| households | 1 household, 1 benefit | rows stay well formed (`TypeOK`) |
| parcels, overlapping | 2 cases, 1 survey number, 1 ULPIN, 2 parcels, 2 pushes; a report looked at for areas on file of 1, 10, 20, 60, 196, 197, 200, 201, 305, 306, 474 and 4000 m2, on either side of the last ones the rounding misleads, and portals off by every 2 to 9 percent either way or not at all | `MutationsWereSent`; `ReconcileTellsTheDifference` |
| objections, overlapping | 1 objection, 2 days, one text | `DecisionsAreTold` |
| grievances | 2 grievances, 4 timeline rows | `GrievanceHistoryIsAPath` |
| notices, overlapping | 2 instruments, 2 recipients, 2 subscriptions, stages 4 and 5 (one instrument not yet allowed) | `SubscribersAreTold`; one by one `RegisteredOnce` |
| invitations, overlapping | 3 usernames for 2 uses | `AccountsMatchUses` |
| sign-in, overlapping | 2 attempts in a window of 5 ticks, 2 ticks to the second, 8 ticks: failures enter and leave the window between whole seconds | `RefusalsArePromises` |
| authenticators, overlapping | 2 secrets, 2 faces | `FactorsAreProven` |
| files | stages 4, 6 and 8 (documents, awards, possession), days 1, 2, 11, 22, 32 and 1827, on either side of the rules' thresholds (10, 20, 21, 30 days, five years); 2 acts of officers; no or 12 observed durations of a stage, on either side of `MIN_OBSERVATIONS` | `ReadersAgree`, `WaitingNeverHelps` |

In `MCCaseDesks` every stage is allowed 20 days and warns in the last 10; the program's own
warning windows come out of floating point as 5, 27, 11, 15, 17, 35, 35, 17 and 36 whole days
for its nine stages, which changes none of the comparisons.

`CHECK_DEADLOCK FALSE` is given where the system really comes to rest: decided or withdrawn
proposals, approved surveys with answered mismatches, closed grievances, a used invitation, the last day
or tick looked at, or a bound on rows. Case workflow and sweep never stop.

Violation runs have the smallest instance in which the disagreement appears (section 7).

## 5. Fairness

Only the sweep has liveness properties. `FairSpec` is `WF_vars(SweepStep(s))` for each
sweeper: the loop of `scheduler.py` sleeps and sweeps for ever and catches every exception, and
a thread that began a sweep gets processor time. Nothing else is fair: officers need never
read, conditions need never change, failures need never happen. A DELETE that waits for another
transaction continues because that transaction is itself a sweep that goes on.

## 6. Proofs

`CaseWorkflowProofs`, for any finite or infinite sets of workers, objections and surveys, any
stage allowances, any start stages and bounds (assumptions `StandardDaysAssumption`,
`StartStagesAssumption`, `BoundsAssumption`, all as weak as their types):

- `TypeCorrect`: `Spec => []TypeOK`.
- `TimelineEndsAtStage`, `TimelineRowsLegal`: however requests overlap, the stored stage is the
  one the last timeline row names, and every row is a legal move by somebody who could make it.
  Neither is inductive: a commit writes what was decided on a row loaded earlier. The
  strengthening is `RequestsSettled`: what a request decided *about its loaded row* stays true
  of that row until it commits, whatever happens to the stored one; and since a move is never to
  the stage it leaves (`MoveChangesStage`), its UPDATE always contains the stage, so stored
  stage and new timeline row agree even when the stored stage has changed since.
- `SerialImplementsLifecycle`: with a single worker, `Spec => Lifecycle!Spec`. The invariant is
  `RequestsCurrent`: the loaded row *is* the stored one and the gates passed are still open.
  Each commit then is a `Move`, `Hold` or `Resume` of `CaseLifecycle`, objection and survey
  steps are `RecordChanges`, everything else stutters.
- `SerialTimeline`, `SerialDeadline`: with a single worker, the timeline is a path and the
  deadline is the stage's.
- `HoldsStay`: however requests overlap, a hold is lifted by a resume or overwritten by a move
  that closes the case or loaded it closed. The strengthening, `HoldInv`: no advance was begun on
  a row it found on hold, so its UPDATE writes a status only where it closes or reopens.

`SurveyProofs`, for any sets of workers, tasks, walks, photos and mismatches (assumption
`NoWalkAssumption`: no walk is the absence of one):

- `TypeCorrect`: `Spec => []TypeOK`. `WrittenParcel` and `WrittenTask` say what an UPDATE leaves
  of a row, column by column.
- `RecordKept`, `FlagsAreExplainedWhenRaised`: however requests overlap, a boundary of record is
  never erased, a walk is kept beside it, and no step flags a parcel but an approval that files
  the mismatch behind the flag (`FlagStep`: an answer only ever takes the flag down). The
  strengthening is `RecordInv`: the record and the walk beside it are there together (`Paired`),
  and what an approval or an answer made of the parcel *it loaded* is known until it commits
  (`Stands`), whatever the stored parcel is by then: an approval of a first boundary writes
  both columns because both were empty when it loaded them, a later one writes the walk and
  leaves the record, and the only approval that raises the flag opens a mismatch in the same
  commit (`CommittedParcel`).
- With a single worker, `SerialRecord`, `SerialFlag`, `SerialEvidence`, `SerialRecordOnce` and
  `SerialAnswer`: the five properties of `survey_serial`. One invariant carries them all
  (`SerialInv`): the request under way knows the task, the parcel and the photos as they are
  (`Current`), so that its UPDATE leaves what it assigned (`WrittenAsAssigned`), and a task that
  is submitted or approved has its walk and its photos (`SubmittedHasEvidence`). The flag is
  explained because an answer drops it only when no mismatch but its own is open.

`ProposalsProofs`, for any sets of workers, proposals, states and offices and any bounds
(assumption `RolesAssumption`: the offices of a run are among the program's roles):

- `FileHistoryTellsStatus`: however requests overlap, a proposal is where the last row of its file
  history took it, and every row is a move its actor's office may make. The strengthening
  (`HistoryInv`) says what requests under way have in hand: a draft that is being inserted is
  not there and nobody else inserts it, an edit leaves the status as it loaded it, a move was
  legal for the row it loaded (`MoveOK`). A move never ends where it began
  (`MovesChangeStatus`), so its UPDATE always writes the status its row of the history names.
- `CaseForEverySanction`: however requests overlap and numbers collide, a proposal has as many
  cases as its history has sanctions. `CaseInv` adds to `HistoryInv` that a request about to open
  a case is one that sanctions and a plain move is not; a commit then adds one to both counts
  (`SanctionsGrow`, `CasesGrow`) or to neither, and the unique constraint refuses both.
- With a single worker, `SerialSanction`, `SerialFileHistory`, `SerialScrutiny`: an approved
  proposal names its one case, the history is a path, nobody edits what an office has.
  `SerialInv`: the request's loaded row is the stored one, a move assigns no content, and the
  numbers of a proposal's cases are exactly the one it names while it is approved (`Told`).
- `NumbersAreFree`: however requests overlap and collide, `NextCaseNumberIsFree` holds as long as
  the cases of the district and those before them are fewer than a thousand. `NumbersInv`: the
  numbers taken are the lowest ones (`MintedUpTo`), and a request about to open a case holds at
  most the one after them (`Reached`); numbers that fit their width sort like numbers
  (`OrderOfNumbers`), so the row the code reads as the last one is (`GreatestBelow`, `NextIsFree`).
  At a thousand the premise ends and the statement is false: that is the finding of
  `proposals_overflow`. The other proofs ask of numbers only that one already taken is refused.

`AlertSweepProofs`, for any sets of sweepers and officers, any finite set of findings, any limit:

- `TypeCorrect`: `Spec => []TypeOK`.
- `OneAlertPerFinding`: sweepers that take turns store no finding twice. `InTurns`: only one sweep
  is under way, and the rows its DELETE took are all the rows there are (`TakesAll`), so what its
  commit leaves is what it inserted.
- `InboxesOnlyGrow`: no commit of a sweep takes a message out of an inbox, and in turns what it
  adds is among the alerts it leaves.

`DocumentsProofs` and `NoticesProofs` prove four properties of two desks each by itself, for any
sets and bounds and without assumptions; `CaseDesksProofs` proves them of the desk among the
others, which is what the run `desks` checks: the definitions of the desk are those the proofs are
about (`SameDocuments`, `SameNotices`), a step is one of the desk that is looked at
(`StepsOfADesk`), and a desk that is not looked at has no rows.

- `HistoryStaysComplete` (`VersionsFormAChain`): an upload supersedes and inserts in one step; all
  else that commits to a version has left number, predecessor and currency as it loaded them
  (`LeavesChain`), so they are not in its UPDATE. From the chain follows that the version an
  upload finds is the last one (`RowsOfChain`).
- `DigestsFollowFiles` (`DigestDescribesFile`), one by one: the row in a request's hands is the
  stored one, what a download that wrote a file is to commit is that file's digest (`Current`),
  and every file nobody is serving is described by its row (`DigestInv`).
- `NobodyIsForgotten` (`SubscribersAreTold`): whom a message is for is among those it will be sent
  to (`DueIsServed`), and what was told or is being told stays so whoever steps (`ToldStays`).
- `RegistersOnce` (`RegisteredOnce`), one by one: what a request found absent is absent until it
  commits (`Checked`).

Seven more desks are proved in `CaseDesksProofs` itself, from what `CaseDesks` assumes of its
constants: amounts, rates and totals are natural numbers, as the schemas ask
(`AmountsAssumption`); an invitation admits at least one (`MaxUsesAssumption`); the limiter has
whole ticks and a positive limit (`LimiterAssumption`), the thread pool is finite
(`WorkersAssumption`), areas are positive and portals off by at most nine percent
(`LandAssumption`), and the bounds are numbers (`BoundsAssumption`). `Threads` is what all of them
share: when requests come one by one, at most one thread is not idle.

- `ProvenFactors` (`FactorsAreProven`), `FactorInv`: a request to confirm holds a secret that was
  shown (`ShownFirst`), a setup leaves the active secret out of its UPDATE, and the face
  credentials end in the only active one.
- `UsesMatch` (`AccountsMatchUses`), `UsesInv`: a registration under way loaded a count no higher
  than the accounts there are and writes one more, and adds an account nobody had; the other
  commits leave the count out of their UPDATE. One by one, count and accounts are equal.
- `AwardsAreSound` (`PaidWithinAward`), `AwardInv`: the row and what a request makes of it are
  `Sound`, for every amount, rate and total. Only that rounding gives a natural number is needed
  of it (`AwardIsNat`): the award is compared as rounded.
- `FilersAreTold` (`DecisionsAreTold`), `FilersInv`: an answer that texted the filer did so before
  it commits (`AnswerOK`), so whatever the inbox shows was texted, also when the request ends in
  between; one by one, the row says decided exactly when it has a date of answer, and the inbox
  shows the decision of the row (`FilerTold`).
- `GrievancesKeepTheirPath` (`GrievanceHistoryIsAPath`), `HistoriesInv`, one by one: the history
  is a path that ends at the status and has left no final one (`HistoryTold`, `HistoryGrows`).
- `RecordedMutationsWereSent` (`MutationsWereSent`), `SentInv`: for every change, the times it is
  recorded and the requests about to record it together are at most the times it was sent. One
  by one, records and sent changes are the same sequence but for the one in hand.
- `PortalDifferencesAreTold` (`ReconcileTellsTheDifference`): the area goes to the portal's unit
  and back by rounded divisions, each of which moves it by at most half a unit. `UpstreamIsNear`
  adds them up for a plot of any size: 0.5 m2 for the mock portal, 2.53 m2 for Dharani, 4.73 m2
  where Dharani's figure is also off (`Coarseness`). `DriftIsSeen` draws from it what the comparison
  with one percent can say. The only assumption is `LandAssumption`: areas are above zero, as
  `schemas/geo.py:150,187` ask (in whole square metres, `LandRecords`), and portals are off by at
  most nine percent, as the adapters make them. Nothing is asked of the state: the theorem
  holds of whatever parcels are on file.
- `RefusalsKeepTheirWord` (`RefusalsArePromises`), `LimiterInv`: failures are in order of time, so
  those in the window are a suffix (`RecentIsSuffix`, by the least index that is in it); the
  failures in the window exceed the limit at most by the attempts under way; one by one, the
  last refusal named a time by which the oldest of the failures has left the window (`Promised`),
  because the wait is rounded up to more than what is left (`FullSeconds`).

- `TypeCorrect` (`TypeOK`): the rows of all eleven desks and the requests under way, for any threads
  and bounds, from the lists the schemas know (`ListsAssumption`: a status, a delivery or a notice
  type an officer may name is one of the program's) and from `DesksAssumption` (the desk is one of
  the eleven). Most types are inductive as they stand
  once an UPDATE is known to leave a row of the same columns (`WrittenAward`, `WrittenParcel`,
  `WrittenGrievance`, ...). The others need more (`TypesInv`): a new version names the one before,
  which is a row only because versions form a chain (`ChainInv`, `TypesInductive` of
  `DocumentsProofs`); a grievance's number is at most one above how many there are
  (`GrievanceTypes`), because the number read as the last is one that was issued (`MintedAfter`),
  as long as a year's numbers fit five digits (`GrievanceBoundsAssumption`); an answer under way
  has a text (`ObjectionTypes`); what is pending or shown was handed out (`FactorTypes`); times
  of failures are in order and no later than now (`DoorTypes`, on `LimiterInv`); the timeline
  of a file (`FilesInv`).

`CaseFilesProofs` proves what the readers of one file make of it, for every file, day and set of
observed durations, from `ReadersAssumption`: allowances and durations are positive numbers of
days (the rows of `stage_sla` are 30 to 365 and no route writes one), warning windows are whole
numbers, and what the other cases contributed are sequences of days. The invariant `FilesInv`
says of the file that its timeline is in the order of its days, ends at the case's stage on the
day the stage began, and that nothing on file is later than today.

- `ScreensAgree` (`ReadersAgree`): the same breach, the same days left, the same open work and the
  same alert level on every screen (`DeadlinesAreAgreed`, `AlertsAreAgreed`, `WorkIsAgreed`),
  and an expected date that is not after the pessimistic one (`OutlookIsOrdered`). That rests on
  `StageModelIsSound`: the values at the middle and at the third quarter of a stage's durations
  are there and are numbers (`NthIsThere`: the least value that enough of them do not exceed); and
  on `DaysFromGrow` for the sum over the stages ahead, whose recursive function is shown to be
  the one function that adds up (`DaysFromAre`).
- `DelayIsNeverRewarded` (`WaitingNeverHelps`): a day in which nobody acts lowers no risk score,
  drops no alert that acting has not answered, and brings the forecast at most one day nearer,
  which is what rounding to half a day and to whole days costs (`RoundingGrows`, `TenthsRound`,
  `RiskGrows`, `AlertsStay`, `ForecastsRecede`).

Only model-checked: `AlertsConverge` and `FindingsDelivered`, which rest on fairness, and liveness is
beyond this prover; that the violation runs find what they find.

## 7. Disagreements between the code and what it says

Each run below must find its property violated; the quotes are in `PROJECT.json`.

| run | what happens |
|---|---|
| `case_skips` | two moves of one case decide on one loaded stage; the stored stage moves by two |
| `case_owner_blind` | a field officer may advance a case at possession and cannot see it |
| `proposals_moved` | an edit that moves the highest-numbered proposal to another state makes its number be minted again, for ever |
| `proposals_overflow` | past 999, string order makes case number 1000 be minted for ever |

`case_skips` stands for a family. Every property of a run with one worker that is not also in
the run with two is broken there by some pair of overlapping requests, because nothing locks or
versions a row; to see how, move the property into the cfg with two workers:

- `ImplementsLifecycle`, `DueDateDescribesStage`: a hold or an objection that commits between a
  move's checks and its commit; two moves on one day between stages of equal allowance, where
  the deadline is not rewritten because it equals the loaded one.
- `RecordIsAnApprovedWalk`, `RecordWrittenOnce`, `SubmittedEvidenceStays`: an approval beside a
  return, two first approvals, a photo removed beside a submission.
- `FlagIsExplained`, `AnswerClearsOnlyTheLast`: two answers that each see the other mismatch
  open; an answer beside an approval that opens one.
- `ApprovedIsSanctioned`, `FileUnchangedUnderScrutiny`: a withdrawal or a return over a
  sanction; an edit that lands after the submission.
- `NoDuplicateAlerts`: drop `~overlapping`; the DELETE of one sweep does not see what the other
  inserts.
- `PaidWithinAward`: put "compensation" into `OverlappingDesks` and drop `orderly`; a payment and a
  revision of the award are each checked on the row they loaded, and together leave more paid
  than awarded, which `schemas/person.py:122` calls "not a state the Act allows".
- `GrievanceHistoryIsAPath`, `RegisteredOnce`, `DigestDescribesFile` and the second part of
  `AccountsMatchUses`: drop `orderly` (grievances: put the desk into `OverlappingDesks`); an answer reopens a grievance closed meanwhile, two requests insert what both found
  absent, two registrations count one use, two downloads write one placeholder.

The properties of the runs with two workers are what survives all of this.

Three more disagreements with a document have no run of their own:

- **Small plots.** `landrecords.py:27-32` calls the tolerance of one percent "tight enough to catch
  a real transcription error and loose enough to stay quiet about measurement noise". On small
  plots it is neither, because an adapter's rounding is coarser than one percent of the plot
  (`schemas/geo.py:150,187` accept any area above zero). A thousandth of an acre, Dharani's unit, is
  4.05 m2: a record that agrees is reported as a difference in area on some plots up to 196 m2, one
  off by 3 percent is passed over on some up to 200 m2, one off by 2 percent on some up to 305 m2;
  the mock portal passes over 2 percent up to 24 m2. `ReconcileTellsTheDifference` therefore does
  not claim what the comment promises: it says of a plot of any size that the report errs by no more
  than the roundings add up to (`Coarseness`), and the run has plots on either side of these sizes.
  The promise itself is the same property with `Coarseness` zero; TLC then finds it violated, at
  60 m2 for instance.
- **The limit of the fan-out.** `fan_out` takes the first `limit_per_run` alerts before it drops
  those already delivered (`notify.py:134`): findings behind that many standing ones wait for ever,
  where `notify.py:117` says "every unresolved alert". `FindingsDelivered` says what is delivered,
  and the run reaches the limit.
- **PATCH of a case.** The docstring at `cases.py:542` says that it edits "title or status";
  `CaseUpdate` (`schemas/case.py:130-131`) takes no status, and explains why. The models follow the
  schema: no PATCH moves a case.

Met while modelling, and contradicting no document of the repository:

- A PATCH may give a parcel a survey number another parcel of the case has, which creating it
  would refuse (`parcels.py:487`); the portal's record is then fetched for both.
- A benefit that two requests change may be left FAILED without the note each of them would have
  been asked for (`persons.py:461`).
- Closed cases past their deadline count as breached on the timeline KPI and in `cases_by_stage`;
  the alert rule leaves them out, and says so (`rules/timeline_breach.py`). `ReadersAgree` states
  the rule with that exception.
- `update_affected_person` answers without `consent_given`, which the response model then fills
  with its default; the stored row is right.
- A stage a case went through twice gives the forecast two durations, each shorter than the time
  the case spent there (`predict.py`).

## 8. What is not modelled

- Passwords, tokens, one-time codes, encryption, face matching, file type detection: cryptography
  and numeric code with no state to explore. That a code or a face matches is a free choice.
- The layout of exports, reports and map layers (JSON, CSV, PDF, GeoJSON), wording and formatting,
  and figures that only one screen shows or that average money or consent over many cases.
- The audit trail: one row added in the transaction of the change it describes and never touched
  again; that it commits with the change is the transaction every model already has.
- Who receives a notification (`recipients_for`), the notifications of workflow events and their
  SMS, the messaging clients: an officer or a subscription stands for a recipient, a message that
  a provider refuses is logged like one it takes.
- The content the sandbox adapters invent for land records (names, encumbrances, pending
  mutations) beyond area and owner; only whether and how they differ from the file is kept.
- PATCH of a case's title and the ledger of fund deposits; projects; reference data; discrepancies
  other than AREA_MISMATCH: each writes its own row and decides nothing elsewhere.
- Migrations, seeds and generators, which run once and alone; start-up and configuration.
- The answer of a state's portal to a push, which is stored and read by nobody that decides on it;
  the areas of parcel rows, on which only the report of a comparison depends: it is looked at for
  any areas on file, in whole square metres (the column is a float and may hold fractions of one;
  each rounding moves those by no more than half a unit either).
- What threads may do between two statements of the limiter: `retry_after_seconds` reads the list
  of failures and writes it back pruned (`ratelimit.py:74-75`), in one step of the model. A failure
  recorded in between is lost, and failures that a success cleared in between are put back;
  `RefusalsArePromises` says nothing of that, and with three threads or more its bound on overlapping
  failures rests on it not happening.
- How a filer of an objection can be reached is fixed when the objection is filed; changing one's
  phone number afterwards is not modelled.
- Crashes of a handler: an uncommitted transaction leaves nothing, which is the same as the
  request not being made; at the desks, where a request commits twice or leaves a file or a
  message behind, it is `FailRequest`, and for the sweep `Fail`. Files of survey photos are outside
  the transaction and not modelled (hazard at `survey.py:473`), nor are files of uploads that
  were never committed.
- Overlapping uploads of one document in *two* server processes, as for the moments of a deploy.
- Amounts past the width of the database's integers: the database refuses the row.

Within the tables, what nothing decides on (names, contact data, shares, coordinates) is left
out of the rows.
