---------------------------- MODULE JsonlStorage ----------------------------
(***************************************************************************)
(* The JSONL storage of a Session (storage/jsonl/storage.ts). A commit     *)
(* appends records to the sidecar files of the documents and live tasks    *)
(* that it writes, and then one marker to main.jsonl that lists them; the  *)
(* marker publishes it. A committed base or retirement of a document and   *)
(* the end of a task make records superfluous, and these are reclaimed. A  *)
(* new process reads the files and replays the markers.                    *)
(*                                                                         *)
(* A write stands for its value: it carries the number of the commit that  *)
(* wrote it, so that records of two commits that were given one sequence   *)
(* number can be told apart. Conversations, entries and submissions are    *)
(* stored as the end of a task is, in the marker alone, and are left out.  *)
(***************************************************************************)
EXTENDS Integers, Sequences, FiniteSets, SequencesExt

CONSTANTS
  Docs,         \* documents; each has a sidecar file of its name
  Tasks,        \* tasks, likewise
  Modes,        \* the values of the option fsync
  MaxWrites,    \* bound: writes of a commit
  MaxCommits,   \* bound: commits tried
  MaxFaults     \* bound: failed file operations, crashes and power losses

Files == Docs \cup Tasks
Main == "main"   \* main.jsonl
Temp == "temp"   \* the .reclaim file that is being written

ASSUME FilesAssumption ==
  Docs \cap Tasks = {} /\ {Main, Temp} \cap Files = {}
ASSUME BoundsAssumption ==
  Modes \subseteq BOOLEAN /\ MaxWrites \in Nat /\ MaxCommits \in Nat /\ MaxFaults \in Nat

VARIABLES
  fsync,   \* the option of that name
  disk,    \* what a read of main.jsonl or of a sidecar returns
  past,    \* with fsync: what a power loss may leave of each file
  temps,   \* the sidecars that have a .reclaim file
  pc,      \* the next step of the process; "closed" when there is none
  batch,   \* the marker of the commit in progress
  rest,    \* the sidecars that it still has to append to or to flush
  plan,    \* the sidecars still to be replaced, and what they are to hold
  target,  \* the sidecar whose replacement is written
  mem,     \* MemoryStorage: what reads return
  tried,   \* commits tried so far
  acked,   \* the commits that have returned
  tidy,    \* history: since it was opened, no replacement has failed
  faults

files == <<disk, past, temps>>
vars == <<fsync, files, pc, batch, rest, plan, target, mem, tried, acked, tidy, faults>>

-----------------------------------------------------------------------------
(* Sequences, by recursive functions that the proofs can reason about *)

\* The elements of s that are in the set, in their order.
Only(s, set) ==
  LET only[n \in 0..Len(s)] ==
        IF n = 0 THEN <<>>
        ELSE IF s[n] \in set THEN Append(only[n - 1], s[n]) ELSE only[n - 1]
  IN  only[Len(s)]

\* All writes of all markers, in order.
WritesOf(log) ==
  LET all[n \in 0..Len(log)] == IF n = 0 THEN <<>> ELSE all[n - 1] \o log[n].writes
  IN  all[Len(log)]

-----------------------------------------------------------------------------
(* Writes, markers and what memory makes of them *)

\* The writes with a record in the sidecar.
Creates == {"create", "createLatest"}
Stored == Creates \cup {"live", "base", "delta"}

\* What the Session may write to one document or task in one commit: a
\* document is created, changed and retired once, a task ends once.
Legal(f) ==
  IF f \in Tasks
  THEN IF mem[f].st = "end" THEN {<<>>}
       ELSE {<<>>, <<"live">>, <<"live", "live">>, <<"end">>, <<"live", "end">>}
  ELSE CASE mem[f].st = "none" ->
              {<<>>} \cup {<<c>> : c \in Creates} \cup {<<c, "retire">> : c \in Creates}
         [] mem[f].st \in Creates -> {<<>>, <<"base">>, <<"delta">>, <<"retire">>,
                                    <<"base", "retire">>, <<"delta", "retire">>}
         [] mem[f].st = "retired" -> {<<>>}

Ops == Stored \cup {"end", "retire"}

OpsOn(f, b) ==
  LET own == Only(b, {f} \X Ops) IN [k \in DOMAIN own |-> own[k][2]]

Batches ==
  {b \in UNION {[1..n -> Files \X Ops] : n \in 1..MaxWrites} :
     \A f \in Files : OpsOn(f, b) \in Legal(f)}

\* The ordinals of a commit count its records, over all its sidecars.
Marker(seq, by, b) ==
  [seq |-> seq, by |-> by, writes |->
    [k \in DOMAIN b |->
      [file |-> b[k][1], op |-> b[k][2], seq |-> seq, by |-> by,
       ord |-> Cardinality({j \in 1..k - 1 : b[j][2] \in Stored})]]]

NoMarker == [seq |-> 0, by |-> 0, writes |-> <<>>]

Records(marker, f) ==
  Only(marker.writes, {w \in ToSet(marker.writes) : w.file = f /\ w.op \in Stored})

Sidecars(marker) == {f \in Files : Records(marker, f) # <<>>}

\* The sidecars of a commit are taken in the order of their first records.
First(f, set) ==
  /\ f \in set
  /\ \A g \in set \ {f} : Head(Records(batch, f)).ord < Head(Records(batch, g)).ord

NextSeq == IF disk[Main].lines = <<>> THEN 1 ELSE Last(disk[Main].lines).seq + 1

Nothing == [f \in Files |-> [st |-> "none", revs |-> <<>>]]

Became(old, w) ==
  LET kept == IF old.st = "createLatest" THEN <<>> ELSE old.revs
  IN  CASE w.op \in {"live", "end"} \cup Creates -> [st |-> w.op, revs |-> <<w>>]
        [] w.op = "base" -> [st |-> old.st, revs |-> Append(kept, w)]
        [] w.op = "delta" -> [st |-> old.st, revs |-> Append(old.revs, w)]
        [] w.op = "retire" -> [st |-> "retired", revs |-> kept]

Applied(store, w) == [store EXCEPT ![w.file] = Became(@, w)]

Replay(store, writes) ==
  LET after[n \in 0..Len(writes)] ==
        IF n = 0 THEN store ELSE Applied(after[n - 1], writes[n])
  IN  after[Len(writes)]

-----------------------------------------------------------------------------
(* Files: complete lines, and perhaps a part of a line at the end *)

Absent == [there |-> FALSE, lines |-> <<>>, torn |-> FALSE]
Holding(lines) == [there |-> TRUE, lines |-> lines, torn |-> FALSE]

\* What may be left of an append: nothing of it, all of it, or some of its
\* lines and perhaps a part of the next.
Appending(content, lines) ==
  {content}
  \cup {Holding(content.lines \o SubSeq(lines, 1, n)) : n \in 1..Len(lines)}
  \cup {[Holding(content.lines \o SubSeq(lines, 1, n)) EXCEPT !.torn = TRUE] :
          n \in 0..Len(lines) - 1}

Shorter(contents, content) == {c \in contents : Len(c.lines) < Len(content.lines)}

\* Until it is flushed, a power loss may bring back what a file was before.
Put(file, content, between) ==
  /\ disk' = [disk EXCEPT ![file] = content]
  /\ past' = IF fsync THEN [past EXCEPT ![file] = @ \cup between \cup {content}] ELSE past

Flush(file) == past' = [past EXCEPT ![file] = {disk[file]}]

\* The files that a power loss may leave in more than one state.
Undecided == {f \in Files \cup {Main} : past[f] # {disk[f]}}

Fault == faults < MaxFaults /\ faults' = faults + 1

-----------------------------------------------------------------------------
(* commit *)

\* planReclamations: the sidecars to be replaced once the marker is written.
Has(marker, f, op) ==
  \E k \in DOMAIN marker.writes : marker.writes[k].file = f /\ marker.writes[k].op = op

isCurrentOnlyDocument(d, marker) ==
  mem[d].st = "createLatest" \/ Has(marker, d, "createLatest")

Variant_Superseded_earlier(marker) ==
  {d \in Docs : mem[d].st = "createLatest" /\
                  (Has(marker, d, "retire") \/ Has(marker, d, "base"))}
  \cup {t \in Tasks : Has(marker, t, "end") /\ mem[t].st = "live"}

Superseded(marker) ==
  {d \in Docs : isCurrentOnlyDocument(d, marker) /\
                  (Has(marker, d, "retire") \/ Has(marker, d, "base"))}
  \cup {t \in Tasks : Has(marker, t, "end") /\
                        (mem[t].st = "live" \/ Records(marker, t) # <<>>)}

planReclamations(marker) ==
  [f \in Superseded(marker) |->
    IF f \in Docs /\ ~Has(marker, f, "retire") THEN Records(marker, f) ELSE <<>>]

NoPlan == [f \in {} |-> <<>>]

Begin ==
  /\ pc = "open" /\ tried < MaxCommits
  /\ \E b \in Batches : batch' = Marker(NextSeq, tried + 1, b)
  /\ tried' = tried + 1
  /\ rest' = Sidecars(batch')
  /\ pc' = IF rest' = {} THEN "publish" ELSE "append"
  /\ UNCHANGED <<fsync, files, plan, target, mem, acked, tidy, faults>>

Variant_Stops_planned ==
  /\ pc' = "closed" /\ batch' = NoMarker /\ rest' = {} /\ plan' = plan
  /\ target' = Main /\ mem' = Nothing
  /\ UNCHANGED <<fsync, tried, acked, tidy>>

\* The process is gone, or refuses all that follows (poison).
Stops ==
  /\ pc' = "closed" /\ batch' = NoMarker /\ rest' = {} /\ plan' = NoPlan
  /\ target' = Main /\ mem' = Nothing
  /\ UNCHANGED <<fsync, tried, acked, tidy>>

Variant_AfterAppend_unflushed == "publish"

AfterAppend == IF fsync THEN "flush" ELSE "publish"

AppendSidecar(f) ==
  /\ pc = "append" /\ First(f, rest)
  /\ LET lines == Records(batch, f)
     IN  Put(f, Holding(disk[f].lines \o lines), Appending(disk[f], lines))
  /\ pc' = IF rest = {f} THEN AfterAppend ELSE "append"
  /\ rest' = IF pc' = "flush" THEN Sidecars(batch) ELSE rest \ {f}
  /\ UNCHANGED <<fsync, temps, batch, plan, target, mem, tried, acked, tidy, faults>>

AppendSidecarFails(f) ==
  /\ pc = "append" /\ First(f, rest) /\ Fault /\ Stops
  /\ LET left == Appending(disk[f], Records(batch, f))
     IN  \E content \in left : Put(f, content, Shorter(left, content))
  /\ UNCHANGED temps

FlushSidecar(f) ==
  /\ pc = "flush" /\ First(f, rest)
  /\ Flush(f)
  /\ rest' = rest \ {f}
  /\ pc' = IF rest' = {} THEN "publish" ELSE "flush"
  /\ UNCHANGED <<fsync, disk, temps, batch, plan, target, mem, tried, acked, tidy, faults>>

FlushSidecarFails ==
  pc = "flush" /\ Fault /\ Stops /\ UNCHANGED files

\* The commit returns, or the storage is open.
Done ==
  /\ pc' = "open" /\ batch' = NoMarker
  /\ acked' = IF batch = NoMarker THEN acked ELSE acked \cup {batch.by}

Reclaim(replacements) ==
  /\ plan' = replacements
  /\ IF DOMAIN replacements = {} THEN Done
     ELSE pc' = (IF fsync THEN "authorize" ELSE "replace") /\ UNCHANGED <<batch, acked>>

AppendMain ==
  /\ pc = "publish"
  /\ Put(Main, Holding(Append(disk[Main].lines, batch)), Appending(disk[Main], <<batch>>))
  /\ mem' = Replay(mem, batch.writes)
  /\ Reclaim(planReclamations(batch))
  /\ UNCHANGED <<fsync, temps, rest, target, tried, tidy, faults>>

AppendMainFails ==
  /\ pc = "publish" /\ Fault /\ Stops
  /\ LET left == Appending(disk[Main], <<batch>>)
     IN  \E content \in left : Put(Main, content, Shorter(left, content))
  /\ UNCHANGED temps

-----------------------------------------------------------------------------
(* reclaimSidecars, after a commit and at the end of recovery *)

FlushMain ==
  /\ pc = "authorize"
  /\ Flush(Main)
  /\ pc' = "replace"
  /\ UNCHANGED <<fsync, disk, temps, batch, rest, plan, target, mem, tried, acked, tidy, faults>>

FlushMainFails ==
  /\ pc = "authorize" /\ Fault
  /\ plan' = NoPlan /\ tidy' = FALSE
  /\ Done
  /\ UNCHANGED <<fsync, files, rest, target, mem, tried>>

Replaced(f) ==
  /\ plan' = [g \in DOMAIN plan \ {f} |-> plan[g]]
  /\ IF DOMAIN plan' = {} THEN Done ELSE pc' = "replace" /\ UNCHANGED <<batch, acked>>

RemoveSidecar(f) ==
  /\ pc = "replace" /\ plan[f] = <<>>
  /\ Put(f, Absent, {})
  /\ Replaced(f)
  /\ UNCHANGED <<fsync, temps, rest, target, mem, tried, tidy, faults>>

WriteTemp(f) ==
  /\ pc = "replace" /\ plan[f] # <<>>
  /\ temps' = temps \cup {f}
  /\ past' = IF fsync THEN [past EXCEPT ![Temp] = Appending(Holding(<<>>), plan[f])] ELSE past
  /\ target' = f
  /\ pc' = IF fsync THEN "flushTemp" ELSE "rename"
  /\ UNCHANGED <<fsync, disk, batch, rest, plan, mem, tried, acked, tidy, faults>>

FlushTemp ==
  /\ pc = "flushTemp"
  /\ past' = [past EXCEPT ![Temp] = {Holding(plan[target])}]
  /\ pc' = "rename"
  /\ UNCHANGED <<fsync, disk, temps, batch, rest, plan, target, mem, tried, acked, tidy, faults>>

RenameTemp ==
  /\ pc = "rename"
  /\ disk' = [disk EXCEPT ![target] = Holding(plan[target])]
  /\ past' = IF fsync
             THEN [past EXCEPT ![target] = @ \cup past[Temp], ![Temp] = {}] ELSE past
  /\ temps' = temps \ {target}
  /\ target' = Main
  /\ Replaced(target)
  /\ UNCHANGED <<fsync, rest, mem, tried, tidy, faults>>

\* A failed remove, write, flush or rename is not reported; the temporary file
\* may be left.
ReplaceFails(f) ==
  /\ pc \in {"replace", "flushTemp", "rename"} /\ Fault
  /\ pc # "replace" => f = target
  /\ \E left \in SUBSET {f} :
       /\ plan[f] = <<>> => left = {}
       /\ pc # "replace" => left = {f}
       /\ temps' = temps \cup left
  /\ tidy' = FALSE /\ target' = Main
  /\ Replaced(f)
  /\ past' = IF fsync THEN [past EXCEPT ![Temp] = {}] ELSE past
  /\ UNCHANGED <<fsync, disk, rest, mem, tried>>

-----------------------------------------------------------------------------
(* recover *)

Variant_Untorn_short(content) ==
  [content EXCEPT !.torn = FALSE, !.lines = SubSeq(@, 1, Len(@) - 1)]

Untorn(content) == [content EXCEPT !.torn = FALSE]

Open ==
  /\ pc = "closed" \/ (pc = "lost" /\ Undecided = {})
  /\ IF disk[Main].torn THEN Put(Main, Untorn(disk[Main]), {}) ELSE UNCHANGED <<disk, past>>
  /\ pc' = "list" /\ tidy' = TRUE
  /\ UNCHANGED <<fsync, temps, batch, rest, plan, target, mem, tried, acked, faults>>

\* Whether a removal succeeds is not looked at.
RemoveTemps ==
  /\ pc = "list"
  /\ \/ temps' = {} /\ UNCHANGED <<tidy, faults>>
     \/ temps # {} /\ Fault /\ tidy' = FALSE /\ temps' \in SUBSET temps \ {{}}
  /\ pc' = "read"
  /\ UNCHANGED <<fsync, disk, past, batch, rest, plan, target, mem, tried, acked>>

Torn == {f \in Files : disk[f].torn}

\* readLines of a sidecar; those that are not torn are only read.
ReadSidecar(f) ==
  /\ pc = "read" /\ f \in Torn
  /\ Put(f, Untorn(disk[f]), {})
  /\ UNCHANGED <<fsync, temps, pc, batch, rest, plan, target, mem, tried, acked, tidy, faults>>

Before(v, w) == v.seq < w.seq \/ (v.seq = w.seq /\ v.ord < w.ord)

Listed == WritesOf(disk[Main].lines)

ListedFor(f) == {w \in ToSet(Listed) : w.file = f}

\* recordByKey
RecordsOf(w) ==
  {r \in ToSet(disk[w.file].lines) : r.seq = w.seq /\ r.ord = w.ord}

\* The last write of the task is its end.
Ended(t) ==
  \E k \in DOMAIN Listed :
    /\ Listed[k].file = t /\ Listed[k].op = "end"
    /\ \A j \in DOMAIN Listed : j > k => Listed[j].file # t

CurrentOnly(d) == \E w \in ListedFor(d) : w.op = "createLatest"

Retired(d) == \E w \in ListedFor(d) : w.op = "retire"

HasBase == Creates \cup {"base"}

\* The writes of a document whose record is a base; latestBases has the last.
Bases(d) ==
  {w \in ListedFor(d) : w.op \in HasBase /\ \E r \in RecordsOf(w) : r.op \in HasBase}

Variant_isBeforeLatestBase_all(w) == \E b \in Bases(w.file) : Before(w, b)

isBeforeLatestBase(w) == CurrentOnly(w.file) /\ \E b \in Bases(w.file) : Before(w, b)

\* A record that may be missing, and whose value does not matter.
Superfluous(f) == (f \in Tasks /\ Ended(f)) \/ (CurrentOnly(f) /\ Retired(f))

Optional(w) == Superfluous(w.file) \/ isBeforeLatestBase(w)

Confirmed(f, r) ==
  \E w \in ListedFor(f) : w.op \in Stored /\ r.seq = w.seq /\ r.ord = w.ord

ConfirmedLines(f) == Only(disk[f].lines, {r \in ToSet(disk[f].lines) : Confirmed(f, r)})

\* JsonlCorruptionError
Corrupt ==
  \/ \E k \in DOMAIN disk[Main].lines :
       k > 1 /\ disk[Main].lines[k].seq <= disk[Main].lines[k - 1].seq
  \/ \E f \in Files : \E k \in DOMAIN disk[f].lines :
       k > 1 /\ ~Before(disk[f].lines[k - 1], disk[f].lines[k])
  \/ \E w \in ToSet(Listed) : w.op \in Stored /\ ~Optional(w) /\ RecordsOf(w) = {}
  \/ \E w \in ToSet(Listed) : w.op \in Creates /\ \E r \in RecordsOf(w) : r.op \notin HasBase
  \/ \E f \in Files : \E j, k \in DOMAIN disk[f].lines :
       j < k /\ ~Confirmed(f, disk[f].lines[j]) /\ Confirmed(f, disk[f].lines[k])

\* What is replayed: the records of the writes that have one and need it.
Replayed ==
  LET kept == Only(Listed, {w \in ToSet(Listed) : w.op \in {"live", "base", "delta"} => ~Optional(w)})
  IN  [k \in DOMAIN kept |->
        IF kept[k].op \in Stored /\ ~Optional(kept[k])
        THEN CHOOSE r \in RecordsOf(kept[k]) : TRUE
        ELSE kept[k]]

Retained(f) ==
  IF Superfluous(f) THEN <<>>
  ELSE Only(ConfirmedLines(f), {r \in ToSet(ConfirmedLines(f)) : ~isBeforeLatestBase(r)})

Reclaimable ==
  {f \in Files : disk[f].there /\
     (Superfluous(f) \/ Len(Retained(f)) < Len(ConfirmedLines(f)))}

Confirm ==
  /\ pc = "read" /\ Torn = {}
  /\ IF Corrupt THEN pc' = "corrupt" /\ UNCHANGED <<mem, plan>>
     ELSE /\ pc' = "tails"
          /\ mem' = Replay(Nothing, Replayed)
          /\ plan' = [f \in Reclaimable |-> Retained(f)]
  /\ UNCHANGED <<fsync, files, batch, rest, target, tried, acked, tidy, faults>>

WithTail == {f \in Files : ConfirmedLines(f) # disk[f].lines}

TruncateTail(f) ==
  /\ pc = "tails" /\ f \in WithTail
  /\ Put(f, Holding(ConfirmedLines(f)), {})
  /\ UNCHANGED <<fsync, temps, pc, batch, rest, plan, target, mem, tried, acked, tidy, faults>>

EndRecovery ==
  /\ pc = "tails" /\ WithTail = {}
  /\ Reclaim(plan)
  /\ UNCHANGED <<fsync, files, rest, target, mem, tried, tidy, faults>>

-----------------------------------------------------------------------------
(* The process and the host *)

Close == pc = "open" /\ Stops /\ UNCHANGED <<files, faults>>

\* The process dies, or a truncation of the recovery fails and open rejects.
Crash == pc \notin {"open", "closed", "lost", "corrupt"} /\ Fault /\ Stops /\ UNCHANGED files

\* With fsync only: each file is as it was when it was flushed or later. The
\* files are decided one after the other, before anything reads them.
PowerLoss ==
  /\ fsync /\ pc # "lost" /\ Fault
  /\ pc' = "lost" /\ batch' = NoMarker /\ rest' = {} /\ plan' = NoPlan
  /\ target' = Main /\ mem' = Nothing
  /\ past' = [past EXCEPT ![Temp] = {}]
  /\ UNCHANGED <<fsync, disk, temps, tried, acked, tidy>>

Survives(f, content) ==
  /\ pc = "lost" /\ f = (CHOOSE g \in Undecided : TRUE)
  /\ disk' = [disk EXCEPT ![f] = content] /\ past' = [past EXCEPT ![f] = {content}]
  /\ UNCHANGED <<fsync, temps, pc, batch, rest, plan, target, mem, tried, acked, tidy, faults>>

Init ==
  /\ fsync \in Modes
  /\ disk = [f \in Files \cup {Main} |-> Absent]
  /\ past = [f \in Files \cup {Main, Temp} |->
              IF fsync /\ f # Temp THEN {Absent} ELSE {}]
  /\ temps = {} /\ pc = "closed" /\ batch = NoMarker /\ rest = {} /\ plan = NoPlan
  /\ target = Main /\ mem = Nothing /\ tried = 0 /\ acked = {} /\ tidy = TRUE /\ faults = 0

Next ==
  \/ Begin \/ FlushSidecarFails
  \/ \E f \in rest : AppendSidecar(f) \/ AppendSidecarFails(f) \/ FlushSidecar(f)
  \/ AppendMain \/ AppendMainFails
  \/ FlushMain \/ FlushMainFails \/ FlushTemp \/ RenameTemp
  \/ \E f \in DOMAIN plan : RemoveSidecar(f) \/ WriteTemp(f) \/ ReplaceFails(f)
  \/ Open \/ RemoveTemps \/ Confirm \/ EndRecovery
  \/ \E f \in Files : ReadSidecar(f) \/ TruncateTail(f)
  \/ Close \/ Crash \/ PowerLoss
  \/ \E f \in Undecided : \E content \in past[f] : Survives(f, content)

Spec == Init /\ [][Next]_vars

=============================================================================
