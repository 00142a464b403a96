------------------------------ MODULE Autopick ------------------------------
(***************************************************************************)
(* How a news item becomes a question: autopick.py drafts questions and    *)
(* files them in data/autopick (a JSON file per question, then a line of   *)
(* registry.jsonl), and autopick_ingest.py adds the files of the day to    *)
(* foresight.db.                                                           *)
(*                                                                         *)
(* No lock protects data/autopick: any number of runs of autopick.py may   *)
(* be active beside the ingestion. Only one process at a time has the      *)
(* database open, so one ingestion is enough. News, scores and drafts come *)
(* from outside (RSS feeds, an LLM): any choice is possible.               *)
(***************************************************************************)
EXTENDS Integers, Sequences, FiniteSets, SequencesExt

CONSTANTS
  Runs,       \* the runs of autopick.py that can be active at the same time
  News,       \* news items
  Headline,   \* the normalised title of each news item
  Url,        \* its link, which several items may have
  Drafts,     \* what the LLM may write: records [news, key, title]
  NoKey,      \* the empty event_key
  Slug,       \* slugify of each event_key, NoKey included
  Matches,    \* for each slug s, the slugs of the files that *-s.json matches
  Near,       \* pairs {t, u} of titles with a similarity above 0.7
  Alike,      \* pairs {t, u} of titles with a similarity above 0.55
  MaxPicks,   \* questions per day (4)
  Absent, Torn, \* a file that is not there, one that is not JSON
  LastDay     \* bound: the calendar ends here

Days == 0..LastDay
Keys == {d.key : d \in Drafts} \cup {NoKey}
Slugs == {Slug[k] : k \in Keys}
Files == Days \X Slugs

ASSUME DraftsAssumption ==
  /\ \A d \in Drafts : d = [news |-> d.news, key |-> d.key, title |-> d.title]
  /\ \A d \in Drafts : d.news \in News
  /\ Absent \notin Drafts /\ Torn \notin Drafts /\ Absent # Torn
ASSUME SlugAssumption == \A s \in Slugs : s \in Matches[s]
ASSUME SimilarityAssumption == Near \subseteq Alike
ASSUME BoundsAssumption == MaxPicks \in Nat /\ LastDay \in Nat

VARIABLES
  today,      \* the UTC date
  files,      \* data/autopick/<day>-<slug>.json
  registry,   \* registry.jsonl: [date, draft]
  brief,      \* the questions in daily-brief.md, Absent if there is no file
  questions,  \* the rows that ingestion has added to the questions table
  pc,         \* where each run of autopick.py is
  now,        \* the date on which each run started
  reg,        \* the registry as each run loaded it
  fresh,      \* the candidates that each run has still to draft
  picks,      \* the drafts that each run has accepted and not yet saved
  created,    \* the drafts that each run has filed and registered
  ingest      \* the ingestion: [at, qfiles]

data == <<files, registry, brief, questions>>
local == <<pc, now, reg, fresh, picks, created>>
vars == <<today, data, local, ingest>>

Labels == {"idle", "fetch", "draft", "save", "open", "fill", "register"}
Rows == [date : Days, draft : Drafts]

TypeOK ==
  /\ today \in Days
  /\ files \in [Files -> Drafts \cup {Absent, Torn}]
  /\ registry \in Seq(Rows)
  /\ brief = Absent \/ brief \subseteq Drafts
  /\ questions \in Seq(Drafts)
  /\ pc \in [Runs -> Labels] /\ now \in [Runs -> Days]
  /\ reg \in [Runs -> Seq(Rows)]
  /\ fresh \in [Runs -> SUBSET News]
  /\ picks \in [Runs -> Seq(Drafts)]
  /\ \A r \in Runs : pc[r] \in {"open", "fill", "register"} => picks[r] # <<>>
  /\ created \in [Runs -> SUBSET Drafts]
  /\ ingest \in [at : {"idle", "wait", "add"}, qfiles : SUBSET Files]

Init ==
  /\ today = 0
  /\ files = [f \in Files |-> Absent]
  /\ registry = <<>> /\ brief = Absent /\ questions = <<>>
  /\ pc = [r \in Runs |-> "idle"] /\ now = [r \in Runs |-> 0]
  /\ reg = [r \in Runs |-> <<>>] /\ fresh = [r \in Runs |-> {}]
  /\ picks = [r \in Runs |-> <<>>] /\ created = [r \in Runs |-> {}]
  /\ ingest = [at |-> "idle", qfiles |-> {}]

Tick ==
  /\ today < LastDay
  /\ today' = today + 1
  /\ UNCHANGED <<data, local, ingest>>

-----------------------------------------------------------------------------
(* autopick.py: which candidates are duplicates *)

\* load_registry keeps the last row of each event_key ...
LastOfKey(rows) ==
  {i \in DOMAIN rows :
     \A j \in DOMAIN rows : rows[j].draft.key = rows[i].draft.key => j <= i}
\* ... so that the questions of a day are counted by event_key.
DoneOn(rows, day) == Cardinality({i \in LastOfKey(rows) : rows[i].date = day})

Registered(rows) == {rows[i].draft : i \in DOMAIN rows}

KnownFile(key) == \E f \in Files : files[f] # Absent /\ f[2] \in Matches[Slug[key]]

\* One of the rows is about the same question, event or link.
InRegistry(rows, title, key, item) ==
  \E d \in Registered(rows) :
    \/ key # NoKey /\ d.key = key
    \/ d.title = title \/ {d.title, title} \in Near
    \/ Url[d.news] = Url[item]

Variant_is_duplicate_noUrl(rows, title, key, item) ==
  \/ \E d \in Registered(rows) :
       \/ key # NoKey /\ d.key = key
       \/ d.title = title \/ {d.title, title} \in Near
  \/ KnownFile(key)

Variant_is_duplicate_noFiles(rows, title, key, item) ==
  InRegistry(rows, title, key, item)

is_duplicate(rows, title, key, item) ==
  InRegistry(rows, title, key, item) \/ KnownFile(key)

\* The checks of a draft against the picks of its own run, which do not look
\* at the links.
Repeats(d, picked) ==
  \E e \in Range(picked) :
    d.key = e.key \/ d.title = e.title \/ {d.title, e.title} \in Alike

-----------------------------------------------------------------------------
(* autopick.py: a run *)

Goto(r, label) == pc' = [pc EXCEPT ![r] = label]

Launch(r) ==
  /\ pc[r] = "idle"
  /\ now' = [now EXCEPT ![r] = today]
  /\ Goto(r, "fetch")
  /\ UNCHANGED <<today, data, reg, fresh, picks, created, ingest>>

\* The news are fetched, one item per headline, and scored; the registry is
\* loaded after the scores. A headline has no event_key yet.
Load(r) ==
  /\ pc[r] = "fetch"
  /\ reg' = [reg EXCEPT ![r] = registry]
  /\ \E passes \in SUBSET News :
       /\ IsInjective(Restrict(Headline, passes))
       /\ fresh' = [fresh EXCEPT ![r] =
            {n \in passes : ~is_duplicate(registry, Headline[n], NoKey, n)}]
  /\ Goto(r, "draft")
  /\ UNCHANGED <<today, data, now, picks, created, ingest>>

Variant_Quota_whole(r) == MaxPicks

Quota(r) == MaxPicks - DoneOn(reg[r], now[r])
MayDraft(r) == pc[r] = "draft" /\ Len(picks[r]) < Quota(r)

\* The next candidate in the order of the scores, so any of them.
Draft(r) ==
  /\ MayDraft(r)
  /\ \E d \in Drafts :
       /\ d.news \in fresh[r]
       /\ ~is_duplicate(reg[r], d.title, d.key, d.news)
       /\ ~Repeats(d, picks[r])
       /\ fresh' = [fresh EXCEPT ![r] = @ \ {d.news}]
       /\ picks' = [picks EXCEPT ![r] = Append(@, d)]
  /\ UNCHANGED <<today, data, pc, now, reg, created, ingest>>

\* The draft is a duplicate or invalid, or the LLM fails.
Reject(r) ==
  /\ MayDraft(r)
  /\ \E n \in fresh[r] : fresh' = [fresh EXCEPT ![r] = @ \ {n}]
  /\ UNCHANGED <<today, data, pc, now, reg, picks, created, ingest>>

EndDrafts(r) ==
  /\ pc[r] = "draft"
  /\ Len(picks[r]) >= Quota(r) \/ fresh[r] = {}
  /\ Goto(r, "save")
  /\ UNCHANGED <<today, data, now, reg, fresh, picks, created, ingest>>

FileOf(r) == <<now[r], Slug[Head(picks[r]).key]>>

\* Two picks of a run may have different keys and the same slug.
SkipFile(r) ==
  /\ pc[r] = "save" /\ picks[r] # <<>> /\ files[FileOf(r)] # Absent
  /\ picks' = [picks EXCEPT ![r] = Tail(@)]
  /\ UNCHANGED <<today, data, pc, now, reg, fresh, created, ingest>>

Variant_NewFile_over(r) ==
  /\ pc[r] = "save" /\ picks[r] # <<>>
  /\ Goto(r, "open")
  /\ UNCHANGED <<today, data, now, reg, fresh, picks, created, ingest>>

NewFile(r) ==
  /\ pc[r] = "save" /\ picks[r] # <<>> /\ files[FileOf(r)] = Absent
  /\ Goto(r, "open")
  /\ UNCHANGED <<today, data, now, reg, fresh, picks, created, ingest>>

Variant_OpenFile_registered(r) ==
  /\ pc[r] = "open"
  /\ files' = [files EXCEPT ![FileOf(r)] = Torn]
  /\ registry' = Append(registry, [date |-> now[r], draft |-> Head(picks[r])])
  /\ Goto(r, "fill")
  /\ UNCHANGED <<today, brief, questions, now, reg, fresh, picks, created, ingest>>

\* write_text truncates the file, which another run may have created by now ...
OpenFile(r) ==
  /\ pc[r] = "open"
  /\ files' = [files EXCEPT ![FileOf(r)] = Torn]
  /\ Goto(r, "fill")
  /\ UNCHANGED <<today, registry, brief, questions,
                 now, reg, fresh, picks, created, ingest>>

\* ... and then fills it.
FillFile(r) ==
  /\ pc[r] = "fill"
  /\ files' = [files EXCEPT ![FileOf(r)] = Head(picks[r])]
  /\ Goto(r, "register")
  /\ UNCHANGED <<today, registry, brief, questions,
                 now, reg, fresh, picks, created, ingest>>

Register(r) ==
  /\ pc[r] = "register"
  /\ registry' = Append(registry, [date |-> now[r], draft |-> Head(picks[r])])
  /\ created' = [created EXCEPT ![r] = @ \cup {Head(picks[r])}]
  /\ picks' = [picks EXCEPT ![r] = Tail(@)]
  /\ Goto(r, "save")
  /\ UNCHANGED <<today, files, brief, questions, now, reg, fresh, ingest>>

Reset(r) ==
  /\ Goto(r, "idle")
  /\ now' = [now EXCEPT ![r] = 0]
  /\ reg' = [reg EXCEPT ![r] = <<>>] /\ fresh' = [fresh EXCEPT ![r] = {}]
  /\ picks' = [picks EXCEPT ![r] = <<>>] /\ created' = [created EXCEPT ![r] = {}]

\* The candidates file, which nothing reads, and the brief. A run that has
\* filed nothing leaves the brief alone.
Finish(r) ==
  /\ pc[r] = "save" /\ picks[r] = <<>>
  /\ brief' = IF created[r] = {} /\ brief # Absent THEN brief ELSE created[r]
  /\ Reset(r)
  /\ UNCHANGED <<today, files, registry, questions, ingest>>

\* The run is killed, raises (no LLM, too little news), or is a --dry-run.
Die(r) ==
  /\ pc[r] # "idle"
  /\ Reset(r)
  /\ UNCHANGED <<today, data, ingest>>

-----------------------------------------------------------------------------
(* autopick_ingest.py *)

\* The glob <today>-*.json is evaluated before the lock is waited for.
ListFiles ==
  /\ ingest.at = "idle"
  /\ LET found == {f \in Files : f[1] = today /\ files[f] # Absent} IN
       /\ found # {}
       /\ ingest' = [at |-> "wait", qfiles |-> found]
  /\ UNCHANGED <<today, data, local>>

TakeLock ==
  /\ ingest.at = "wait"
  /\ ingest' = [ingest EXCEPT !.at = "add"]
  /\ UNCHANGED <<today, data, local>>

InQuestions(d) ==
  \E i \in DOMAIN questions :
    \/ questions[i].title = d.title
    \/ d.key # NoKey /\ questions[i].key = d.key

Handled(f) == ingest' = [ingest EXCEPT !.qfiles = @ \ {f}]

\* The file is read now; the dates of a question play no part here.
AddQuestion ==
  /\ ingest.at = "add"
  /\ \E f \in ingest.qfiles :
       /\ files[f] \in Drafts /\ ~InQuestions(files[f])
       /\ questions' = Append(questions, files[f])
       /\ Handled(f)
  /\ UNCHANGED <<today, files, registry, brief, local>>

\* A duplicate, or a file that does not parse.
SkipQuestion ==
  /\ ingest.at = "add"
  /\ \E f \in ingest.qfiles :
       /\ files[f] \in Drafts => InQuestions(files[f])
       /\ Handled(f)
  /\ UNCHANGED <<today, data, local>>

\* All files are handled; or LockWaitTimeout, SystemExit, a failed read back
\* or a kill ends the ingestion early.
EndIngest ==
  /\ ingest.at # "idle"
  /\ ingest' = [at |-> "idle", qfiles |-> {}]
  /\ UNCHANGED <<today, data, local>>

-----------------------------------------------------------------------------
Run(r) ==
  \/ Launch(r) \/ Load(r) \/ Draft(r) \/ Reject(r) \/ EndDrafts(r)
  \/ SkipFile(r) \/ NewFile(r) \/ OpenFile(r) \/ FillFile(r) \/ Register(r)
  \/ Finish(r) \/ Die(r)

Ingest == ListFiles \/ TakeLock \/ AddQuestion \/ SkipQuestion \/ EndIngest

Next == Tick \/ Ingest \/ \E r \in Runs : Run(r)

Spec == Init /\ [][Next]_vars

=============================================================================
