--------------------------- MODULE AutopickProofs ---------------------------
(***************************************************************************)
(* Proofs about the question pipeline, for any number of runs, any news    *)
(* and drafts, and any calendar: the types and, when the runs of           *)
(* autopick.py do not overlap, that what the registry lists is filed and   *)
(* stays so, that an event is filed once, that a link is registered again  *)
(* by no later run, and that the quota of a day is kept.                   *)
(***************************************************************************)
EXTENDS AutopickProps, FiniteSetTheorems, TLAPS

\* Where a draft of day n is filed is a file.
LEMMA FileOfType ==
  ASSUME NEW n \in Days, NEW d \in Drafts
  PROVE  <<n, Slug[d.key]>> \in Files
BY DEF Files, Slugs, Keys

\* Type correctness: every variable keeps its type under every program.
THEOREM Typing == Spec => []TypeOK
<1>1. Init => TypeOK
  <2> SUFFICES ASSUME Init PROVE TypeOK
    OBVIOUS
  <2>1. 0 \in Days
    BY BoundsAssumption DEF Days
  <2> QED
    BY <2>1 DEF Init, TypeOK, Labels
<1>2. TypeOK /\ [Next]_vars => TypeOK'
  <2> SUFFICES ASSUME TypeOK, [Next]_vars PROVE TypeOK'
    OBVIOUS
  <2> USE DEF TypeOK
  <2>1. CASE Tick
    BY <2>1, BoundsAssumption DEF Tick, data, local, Days
  <2>2. CASE Ingest
    <3>1. CASE ListFiles
      BY <3>1 DEF ListFiles, data, local
    <3>2. CASE TakeLock
      BY <3>2 DEF TakeLock, data, local
    <3>3. CASE AddQuestion
      <4>1. PICK f \in ingest.qfiles :
              /\ files[f] \in Drafts
              /\ questions' = Append(questions, files[f]) /\ Handled(f)
        BY <3>3 DEF AddQuestion
      <4>2. questions' \in Seq(Drafts)
        BY <4>1
      <4>3. ingest' \in [at : {"idle", "wait", "add"}, qfiles : SUBSET Files]
        BY <4>1 DEF Handled
      <4> QED
        BY <3>3, <4>2, <4>3 DEF AddQuestion, local
    <3>4. CASE SkipQuestion
      BY <3>4 DEF SkipQuestion, Handled, data, local
    <3>5. CASE EndIngest
      BY <3>5 DEF EndIngest, data, local
    <3> QED
      BY <2>2, <3>1, <3>2, <3>3, <3>4, <3>5 DEF Ingest
  <2>3. ASSUME NEW r \in Runs, Run(r) PROVE TypeOK'
    <3> USE DEF Goto, data, local, Labels
    <3>1. CASE Launch(r)
      BY <3>1 DEF Launch
    <3>2. CASE Load(r)
      BY <3>2 DEF Load
    <3>3. CASE Draft(r)
      <4>1. PICK d \in Drafts :
              /\ fresh' = [fresh EXCEPT ![r] = @ \ {d.news}]
              /\ picks' = [picks EXCEPT ![r] = Append(@, d)]
        BY <3>3 DEF Draft
      <4>2. fresh' \in [Runs -> SUBSET News]
        BY <4>1
      <4>3. picks' \in [Runs -> Seq(Drafts)]
        BY <4>1
      <4> QED
        BY <3>3, <4>2, <4>3 DEF Draft, MayDraft
    <3>4. CASE Reject(r)
      BY <3>4 DEF Reject
    <3>5. CASE EndDrafts(r)
      BY <3>5 DEF EndDrafts
    <3>6. CASE SkipFile(r)
      BY <3>6 DEF SkipFile
    <3>7. CASE NewFile(r)
      BY <3>7 DEF NewFile
    <3>8. CASE OpenFile(r)
      <4>1. files' \in [Files -> Drafts \cup {Absent, Torn}]
        BY <3>8 DEF OpenFile
      <4> QED
        BY <3>8, <4>1 DEF OpenFile
    <3>9. CASE FillFile(r)
      <4>1. Head(picks[r]) \in Drafts
        BY <3>9 DEF FillFile
      <4>2. files' \in [Files -> Drafts \cup {Absent, Torn}]
        BY <3>9, <4>1 DEF FillFile
      <4> QED
        BY <3>9, <4>2 DEF FillFile
    <3>10. CASE Register(r)
      <4>1. Head(picks[r]) \in Drafts /\ Tail(picks[r]) \in Seq(Drafts)
        BY <3>10 DEF Register
      <4>2. registry' \in Seq(Rows)
        BY <3>10, <4>1 DEF Register, Rows
      <4>3. created' \in [Runs -> SUBSET Drafts] /\ picks' \in [Runs -> Seq(Drafts)]
        BY <3>10, <4>1 DEF Register
      <4> QED
        BY <3>10, <4>2, <4>3 DEF Register
    <3>11. CASE Finish(r)
      BY <3>11, BoundsAssumption DEF Finish, Reset, Days
    <3>12. CASE Die(r)
      BY <3>12, BoundsAssumption DEF Die, Reset, Days
    <3> QED
      BY <2>3, <3>1, <3>2, <3>3, <3>4, <3>5, <3>6, <3>7, <3>8, <3>9, <3>10, <3>11, <3>12
         DEF Run
  <2>4. CASE UNCHANGED vars
    BY <2>4 DEF vars, data, local
  <2> QED
    BY <2>1, <2>2, <2>3, <2>4 DEF Next
<1> QED
  BY <1>1, <1>2, PTL DEF Spec

-----------------------------------------------------------------------------
(***************************************************************************)
(* When no two runs of autopick.py overlap, the file that a run found      *)
(* missing is its own until it is registered, and the brief is made of     *)
(* what the run has registered.                                            *)
(***************************************************************************)
OneRun == \A r, s \in Runs : r = s

FilingInv ==
  /\ RegisteredIsFiled
  /\ \A r \in Runs :
       /\ pc[r] = "open" => files[FileOf(r)] = Absent
       /\ pc[r] = "fill" => files[FileOf(r)] = Torn
       /\ pc[r] = "register" => files[FileOf(r)] = Head(picks[r])
       /\ created[r] \subseteq Registered(registry)

\* The file that a run is about to write.
LEMMA FileOfRun ==
  ASSUME TypeOK, NEW r \in Runs, picks[r] # <<>>
  PROVE  FileOf(r) \in Files /\ Head(picks[r]) \in Drafts
BY FileOfType DEF TypeOK, FileOf

\* A row of the registry is in the file of its day and its event_key.
LEMMA RowType ==
  ASSUME TypeOK, NEW i \in DOMAIN registry
  PROVE  /\ registry[i] \in Rows
         /\ <<registry[i].date, Slug[registry[i].draft.key]>> \in Files
<1>1. registry[i] \in Rows
  BY DEF TypeOK
<1>2. registry[i].date \in Days /\ registry[i].draft \in Drafts
  BY <1>1 DEF Rows
<1> QED
  BY <1>1, <1>2, FileOfType

\* Steps that leave the files and the registry alone.
LEMMA QuietFiling ==
  ASSUME FilingInv, UNCHANGED <<files, registry>>,
         brief' = brief \/ \E r \in Runs : brief' = created[r],
         \A r \in Runs :
           /\ pc'[r] \in {"open", "fill", "register"} =>
                /\ now'[r] = now[r] /\ picks'[r] = picks[r]
                /\ \/ pc'[r] = pc[r]
                   \/ pc'[r] = "open" /\ files[FileOf(r)] = Absent
           /\ created'[r] \in {created[r], {}}
  PROVE  FilingInv'
<1>1. Registered(registry)' = Registered(registry)
  BY DEF Registered
<1>2. RegisteredIsFiled'
  BY <1>1 DEF FilingInv, RegisteredIsFiled
<1>3. ASSUME NEW r \in Runs
      PROVE  /\ pc'[r] = "open" => files'[FileOf(r)'] = Absent
             /\ pc'[r] = "fill" => files'[FileOf(r)'] = Torn
             /\ pc'[r] = "register" => files'[FileOf(r)'] = Head(picks'[r])
             /\ created'[r] \subseteq Registered(registry)'
  <2>1. pc'[r] \in {"open", "fill", "register"} => FileOf(r)' = FileOf(r)
    BY DEF FileOf
  <2> QED
    BY <1>1, <2>1 DEF FilingInv
<1> QED
  BY <1>2, <1>3 DEF FilingInv

\* A write by the only run puts nothing in the place of a question.
LEMMA WritesOwnFile ==
  ASSUME TypeOK, FilingInv, NEW r \in Runs, OpenFile(r) \/ FillFile(r)
  PROVE  /\ FileOf(r) \in Files /\ files[FileOf(r)] \notin Drafts
         /\ \A f \in Files : f # FileOf(r) => files'[f] = files[f]
<1>1. picks[r] # <<>>
  BY DEF TypeOK, OpenFile, FillFile
<1>2. FileOf(r) \in Files
  BY <1>1, FileOfRun
<1> QED
  BY <1>2, DraftsAssumption DEF FilingInv, OpenFile, FillFile, TypeOK

LEMMA FilingStep ==
  ASSUME OneRun, TypeOK, TypeOK', FilingInv, [Next]_vars
  PROVE  FilingInv'
<1> USE DEF data, local
<1>1. CASE Tick
  BY <1>1, QuietFiling DEF Tick
<1>2. CASE Ingest
  BY <1>2, QuietFiling
     DEF Ingest, ListFiles, TakeLock, AddQuestion, SkipQuestion, EndIngest
<1>3. CASE UNCHANGED vars
  BY <1>3, QuietFiling DEF vars
<1>4. ASSUME NEW r \in Runs, Run(r) PROVE FilingInv'
  <2>1. \A s \in Runs : s = r
    BY DEF OneRun
  <2>2. CASE Launch(r) \/ Load(r) \/ Draft(r) \/ Reject(r) \/ EndDrafts(r) \/ SkipFile(r)
    <3>1. pc'[r] \notin {"open", "fill", "register"}
      BY <2>2 DEF TypeOK, Launch, Load, Draft, MayDraft, Reject, EndDrafts, SkipFile, Goto
    <3>2. UNCHANGED <<files, registry, brief, created>>
      BY <2>2 DEF Launch, Load, Draft, Reject, EndDrafts, SkipFile
    <3> QED
      BY <2>1, <3>1, <3>2, QuietFiling
  <2>3. CASE NewFile(r)
    <3>1. pc'[r] = "open" /\ UNCHANGED <<files, registry, brief, created, now, picks>>
      BY <2>3 DEF TypeOK, NewFile, Goto
    <3>2. files[FileOf(r)] = Absent
      BY <2>3 DEF NewFile
    <3> QED
      BY <2>1, <3>1, <3>2, QuietFiling
  <2>4. CASE Finish(r) \/ Die(r)
    <3>1. pc'[r] = "idle" /\ created'[r] = {} /\ UNCHANGED <<files, registry>>
      BY <2>4 DEF TypeOK, Finish, Die, Reset, Goto
    <3>2. brief' = brief \/ brief' = created[r]
      BY <2>4 DEF Finish, Die
    <3> QED
      BY <2>1, <3>1, <3>2, QuietFiling
  <2>5. CASE OpenFile(r) \/ FillFile(r)
    <3>1. Registered(registry)' = Registered(registry)
      BY <2>5 DEF OpenFile, FillFile, Registered
    <3>2. RegisteredIsFiled'
      <4>1. \A i \in DOMAIN registry :
              LET f == <<registry[i].date, Slug[registry[i].draft.key]>>
              IN  files'[f] = registry[i].draft
        BY <2>5, RowType, WritesOwnFile DEF FilingInv, RegisteredIsFiled, Rows
      <4> QED
        BY <2>5, <3>1, <4>1 DEF OpenFile, FillFile, FilingInv, RegisteredIsFiled
    <3>3. FileOf(r)' = FileOf(r) /\ FileOf(r) \in Files
      BY <2>5, WritesOwnFile DEF OpenFile, FillFile, FileOf
    <3>4. \/ pc'[r] = "fill" /\ files'[FileOf(r)] = Torn
          \/ pc'[r] = "register" /\ files'[FileOf(r)] = Head(picks'[r])
      BY <2>5, <3>3 DEF OpenFile, FillFile, Goto, TypeOK
    <3>5. created'[r] \subseteq Registered(registry)'
      BY <2>5, <3>1 DEF OpenFile, FillFile, FilingInv
    <3> QED
      BY <2>1, <3>2, <3>3, <3>4, <3>5 DEF FilingInv
  <2>6. CASE Register(r)
    <3> DEFINE row == [date |-> now[r], draft |-> Head(picks[r])]
    <3>1. picks[r] # <<>> /\ Head(picks[r]) \in Drafts /\ row \in Rows
      BY <2>6, FileOfRun DEF Register, TypeOK, Rows
    <3>2. /\ DOMAIN registry = 1..Len(registry) /\ DOMAIN registry' = 1..Len(registry) + 1
          /\ registry'[Len(registry) + 1] = row
          /\ \A i \in 1..Len(registry) : registry'[i] = registry[i]
      BY <2>6, <3>1 DEF Register, TypeOK
    <3>3. Registered(registry)' = Registered(registry) \cup {Head(picks[r])}
      BY <3>2 DEF Registered
    <3>4. files[<<row.date, Slug[row.draft.key]>>] = row.draft
      BY <2>6 DEF Register, FilingInv, FileOf
    <3>5. \A i \in DOMAIN registry' :
            files'[<<registry'[i].date, Slug[registry'[i].draft.key]>>] = registry'[i].draft
      <4>1. files' = files
        BY <2>6 DEF Register
      <4>2. ASSUME NEW i \in 1..Len(registry)
            PROVE  files[<<registry'[i].date, Slug[registry'[i].draft.key]>>] = registry'[i].draft
        BY <3>2 DEF FilingInv, RegisteredIsFiled
      <4> HIDE DEF row
      <4> QED
        BY <3>2, <3>4, <4>1, <4>2
    <3>6. RegisteredIsFiled'
      BY <2>6, <3>3, <3>5 DEF Register, FilingInv, RegisteredIsFiled
    <3>7. pc'[r] = "save" /\ created'[r] \subseteq Registered(registry)'
      BY <2>6, <3>3 DEF Register, Goto, TypeOK, FilingInv
    <3> QED
      BY <2>1, <3>6, <3>7 DEF FilingInv
  <2> QED
    BY <1>4, <2>2, <2>3, <2>4, <2>5, <2>6 DEF Run
<1> QED
  BY <1>1, <1>2, <1>3, <1>4 DEF Next

LEMMA Filing == ASSUME OneRun PROVE Spec => []FilingInv
<1>1. Init => FilingInv
  BY DEF Init, FilingInv, RegisteredIsFiled, Registered
<1>2. TypeOK /\ TypeOK' /\ FilingInv /\ [Next]_vars => FilingInv'
  BY FilingStep
<1> QED
  BY <1>1, <1>2, Typing, PTL DEF Spec

\* When no two runs overlap, a question that the registry or the brief lists
\* is in a complete file of its own.
THEOREM ListedIsFiled == ASSUME OneRun PROVE Spec => []RegisteredIsFiled
<1>1. FilingInv => RegisteredIsFiled
  BY DEF FilingInv
<1> QED
  BY <1>1, Filing, PTL

\* When no two runs overlap, a filed question is never overwritten.
THEOREM FiledStands == ASSUME OneRun PROVE Spec => FiledQuestionStands
<1> DEFINE Stands == \A f \in Files : files[f] \in Drafts => files'[f] = files[f]
<1>1. TypeOK /\ FilingInv /\ [Next]_vars => [Stands]_vars
  <2> SUFFICES ASSUME TypeOK, FilingInv, Next PROVE Stands
    BY DEF vars
  <2>1. ASSUME NEW r \in Runs, OpenFile(r) \/ FillFile(r) PROVE Stands
    BY <2>1, WritesOwnFile
  <2>2. CASE UNCHANGED files
    BY <2>2
  <2> QED
    BY <2>1, <2>2
       DEF Next, data, Tick, Ingest, ListFiles, TakeLock, AddQuestion, SkipQuestion,
           EndIngest, Run, Launch, Load, Draft, Reject, EndDrafts, SkipFile,
           NewFile, Register, Finish, Die
<1> QED
  BY <1>1, Filing, Typing, PTL DEF Spec, FiledQuestionStands

-----------------------------------------------------------------------------
(***************************************************************************)
(* When no two runs overlap, the registry that a run loaded is the         *)
(* registry until its drafts are done, and what it has picked is nowhere   *)
(* else: not in the registry, not twice in its picks, not among the        *)
(* candidates left.                                                        *)
(***************************************************************************)
Distinct(d, e) == d.news # e.news /\ d.key # e.key

RegistryApart ==
  \A i, j \in DOMAIN registry : i # j => Distinct(registry[i].draft, registry[j].draft)

PicksApart(r) ==
  \A k \in DOMAIN picks[r] :
    /\ picks[r][k].news \notin fresh[r]
    /\ \A l \in DOMAIN picks[r] : l # k => Distinct(picks[r][k], picks[r][l])
    /\ \A i \in DOMAIN registry : Distinct(picks[r][k], registry[i].draft)

StoryInv ==
  /\ RegistryApart
  /\ \A r \in Runs :
       /\ pc[r] \in {"idle", "fetch"} => picks[r] = <<>>
       /\ pc[r] = "draft" => reg[r] = registry
       /\ \A i \in DOMAIN registry : registry[i].draft.news \notin fresh[r]
       /\ PicksApart(r)

\* What passes is_duplicate has neither the news item nor the event_key of a
\* registered question: for the empty key, the file of that question is there.
LEMMA PassesDuplicate ==
  ASSUME TypeOK, RegisteredIsFiled, NEW d \in Drafts,
         ~is_duplicate(registry, d.title, d.key, d.news)
  PROVE  \A i \in DOMAIN registry : Distinct(d, registry[i].draft)
<1> SUFFICES ASSUME NEW i \in DOMAIN registry PROVE Distinct(d, registry[i].draft)
  OBVIOUS
<1> DEFINE e == registry[i].draft
           f == <<registry[i].date, Slug[e.key]>>
<1>1. e \in Registered(registry) /\ e \in Drafts /\ f \in Files
  BY RowType DEF Registered, Rows
<1>2. files[f] # Absent
  BY <1>1, DraftsAssumption DEF RegisteredIsFiled
<1>3. Slug[e.key] \in Matches[Slug[e.key]]
  BY <1>1, SlugAssumption DEF Slugs, Keys
<1>4. d.key = e.key => KnownFile(d.key)
  BY <1>1, <1>2, <1>3 DEF KnownFile
<1> QED
  BY <1>1, <1>4 DEF is_duplicate, InRegistry, Distinct

\* Steps that leave the registry alone and add nothing to picks or candidates.
LEMMA QuietStory ==
  ASSUME StoryInv, UNCHANGED registry,
         \A r \in Runs :
           /\ pc'[r] \in {"idle", "fetch"} =>
                (pc[r] = pc'[r] /\ picks'[r] = picks[r]) \/ picks'[r] = <<>>
           /\ pc'[r] = "draft" => pc[r] = "draft" /\ reg'[r] = reg[r]
           /\ picks'[r] \in {picks[r], <<>>} /\ fresh'[r] \subseteq fresh[r]
  PROVE  StoryInv'
<1>1. RegistryApart'
  BY DEF StoryInv, RegistryApart
<1>2. ASSUME NEW r \in Runs PROVE PicksApart(r)'
  <2>1. CASE picks'[r] = <<>>
    BY <2>1 DEF PicksApart
  <2>2. CASE picks'[r] = picks[r]
    BY <2>2 DEF StoryInv, PicksApart
  <2> QED
    BY <2>1, <2>2
<1> QED
  BY <1>1, <1>2 DEF StoryInv

LEMMA StoryStep ==
  ASSUME OneRun, TypeOK, TypeOK', FilingInv, StoryInv, [Next]_vars
  PROVE  StoryInv'
<1> USE DEF data, local
<1>1. CASE Tick
  BY <1>1, QuietStory DEF Tick
<1>2. CASE Ingest
  BY <1>2, QuietStory
     DEF Ingest, ListFiles, TakeLock, AddQuestion, SkipQuestion, EndIngest
<1>3. CASE UNCHANGED vars
  BY <1>3, QuietStory DEF vars
<1>4. ASSUME NEW r \in Runs, Run(r) PROVE StoryInv'
  <2>1. \A s \in Runs : s = r
    BY DEF OneRun
  <2>2. CASE Launch(r)
    <3>1. pc[r] = "idle" /\ pc'[r] = "fetch" /\ UNCHANGED <<registry, reg, fresh, picks>>
      BY <2>2 DEF TypeOK, Launch, Goto
    <3>2. picks'[r] = <<>>
      BY <3>1 DEF StoryInv
    <3> QED
      BY <2>1, <3>1, <3>2, QuietStory
  <2>3. CASE Load(r)
    <3>1. pc'[r] = "draft" /\ reg'[r] = registry /\ UNCHANGED <<registry, picks>>
      BY <2>3 DEF TypeOK, Load, Goto
    <3>2. picks'[r] = <<>>
      BY <2>3, <3>1 DEF StoryInv, Load
    <3>3. \A n \in fresh'[r] : ~is_duplicate(registry, Headline[n], NoKey, n)
      BY <2>3 DEF TypeOK, Load
    <3>4. \A i \in DOMAIN registry : registry[i].draft.news \notin fresh'[r]
      BY <3>3 DEF is_duplicate, InRegistry, Registered
    <3> QED
      BY <2>1, <3>1, <3>2, <3>4 DEF StoryInv, RegistryApart, PicksApart
  <2>4. CASE Draft(r)
    <3>1. PICK d \in Drafts :
            /\ d.news \in fresh[r] /\ ~is_duplicate(reg[r], d.title, d.key, d.news)
            /\ ~Repeats(d, picks[r])
            /\ fresh' = [fresh EXCEPT ![r] = @ \ {d.news}]
            /\ picks' = [picks EXCEPT ![r] = Append(@, d)]
      BY <2>4 DEF Draft
    <3>2. pc[r] = "draft" /\ UNCHANGED <<registry, pc, reg>>
      BY <2>4 DEF Draft, MayDraft
    <3>3. \A i \in DOMAIN registry : Distinct(d, registry[i].draft)
      BY <3>1, <3>2, PassesDuplicate DEF FilingInv, StoryInv
    <3>4. fresh'[r] = fresh[r] \ {d.news}
      BY <3>1 DEF TypeOK
    <3>5. /\ DOMAIN picks[r] = 1..Len(picks[r]) /\ Len(picks[r]) \in Nat
          /\ DOMAIN picks'[r] = 1..Len(picks[r]) + 1
          /\ picks'[r][Len(picks[r]) + 1] = d
          /\ \A k \in 1..Len(picks[r]) : picks'[r][k] = picks[r][k]
      BY <3>1 DEF TypeOK
    <3>6. \A k \in DOMAIN picks[r] : Distinct(d, picks[r][k]) /\ Distinct(picks[r][k], d)
      <4>1. \A k \in DOMAIN picks[r] : d.key # picks[r][k].key
        BY <3>1 DEF Repeats, Range
      <4> QED
        BY <3>1, <4>1 DEF StoryInv, PicksApart, Distinct
    <3>7. PicksApart(r)'
      <4>1. ASSUME NEW k \in DOMAIN picks'[r]
            PROVE  /\ picks'[r][k].news \notin fresh'[r]
                   /\ \A i \in DOMAIN registry : Distinct(picks'[r][k], registry[i].draft)
        BY <3>3, <3>4, <3>5 DEF StoryInv, PicksApart
      <4>2. ASSUME NEW k \in DOMAIN picks'[r], NEW l \in DOMAIN picks'[r], l # k
            PROVE  Distinct(picks'[r][k], picks'[r][l])
        BY <3>5, <3>6, <4>2 DEF StoryInv, PicksApart
      <4> QED
        BY <3>2, <4>1, <4>2 DEF PicksApart
    <3> QED
      BY <2>1, <3>2, <3>4, <3>7 DEF StoryInv, RegistryApart
  <2>5. CASE Reject(r) \/ EndDrafts(r)
    <3>1. /\ pc'[r] \in {pc[r], "save"} /\ pc[r] = "draft" /\ fresh'[r] \subseteq fresh[r]
          /\ UNCHANGED <<registry, reg, picks>>
      BY <2>5 DEF TypeOK, Reject, EndDrafts, MayDraft, Goto
    <3> QED
      BY <2>1, <3>1, QuietStory
  <2>6. CASE NewFile(r) \/ OpenFile(r) \/ FillFile(r)
    <3>1. pc'[r] \in {"open", "fill", "register"} /\ UNCHANGED <<registry, fresh, picks>>
      BY <2>6 DEF TypeOK, NewFile, OpenFile, FillFile, Goto
    <3> QED
      BY <2>1, <3>1, QuietStory
  <2>7. CASE Finish(r) \/ Die(r)
    <3>1. picks'[r] = <<>> /\ fresh'[r] = {} /\ pc'[r] = "idle" /\ UNCHANGED registry
      BY <2>7 DEF TypeOK, Finish, Die, Reset, Goto
    <3> QED
      BY <2>1, <3>1, QuietStory
  <2>8. ASSUME picks[r] # <<>>, picks'[r] = Tail(picks[r])
        PROVE  /\ \A k \in DOMAIN picks'[r] :
                    k + 1 \in DOMAIN picks[r] /\ picks'[r][k] = picks[r][k + 1]
               /\ 1 \in DOMAIN picks[r] /\ Head(picks[r]) = picks[r][1]
               /\ \A k \in DOMAIN picks'[r] : k \in Nat /\ k + 1 # 1
    BY <2>8 DEF TypeOK
  <2>9. CASE SkipFile(r)
    <3>1. /\ picks[r] # <<>> /\ picks'[r] = Tail(picks[r]) /\ pc'[r] = "save"
          /\ UNCHANGED <<registry, fresh>>
      BY <2>9 DEF TypeOK, SkipFile
    <3>2. PicksApart(r)'
      BY <2>8, <3>1 DEF StoryInv, PicksApart
    <3> QED
      BY <2>1, <3>1, <3>2 DEF StoryInv, RegistryApart
  <2>10. CASE Register(r)
    <3> DEFINE d == Head(picks[r])
    <3>1. /\ picks[r] # <<>> /\ picks'[r] = Tail(picks[r]) /\ pc'[r] = "save"
          /\ registry' = Append(registry, [date |-> now[r], draft |-> d])
          /\ UNCHANGED fresh
      BY <2>10 DEF TypeOK, Register, Goto
    <3>2. /\ DOMAIN registry = 1..Len(registry) /\ Len(registry) \in Nat
          /\ DOMAIN registry' = 1..Len(registry) + 1
          /\ registry'[Len(registry) + 1].draft = d
          /\ \A i \in 1..Len(registry) : registry'[i] = registry[i]
      <4>1. [date |-> now[r], draft |-> d] \in Rows
        BY <3>1, FileOfRun DEF TypeOK, Rows
      <4> QED
        BY <3>1, <4>1 DEF TypeOK
    <3>3. /\ d.news \notin fresh[r]
          /\ \A i \in DOMAIN registry :
               Distinct(d, registry[i].draft) /\ Distinct(registry[i].draft, d)
          /\ \A k \in DOMAIN picks'[r] : Distinct(picks'[r][k], d)
      BY <2>8, <3>1 DEF StoryInv, PicksApart, Distinct
    <3> HIDE DEF d
    <3>4. RegistryApart'
      BY <3>2, <3>3 DEF StoryInv, RegistryApart
    <3>5. \A i \in DOMAIN registry' : registry'[i].draft.news \notin fresh'[r]
      BY <3>1, <3>2, <3>3 DEF StoryInv
    <3>6. PicksApart(r)'
      <4>1. ASSUME NEW k \in DOMAIN picks'[r], NEW i \in DOMAIN registry'
            PROVE  Distinct(picks'[r][k], registry'[i].draft)
        BY <2>8, <3>1, <3>2, <3>3 DEF StoryInv, PicksApart
      <4> QED
        BY <2>8, <3>1, <4>1 DEF StoryInv, PicksApart
    <3> QED
      BY <2>1, <3>1, <3>4, <3>5, <3>6 DEF StoryInv
  <2> QED
    BY <1>4, <2>2, <2>3, <2>4, <2>5, <2>6, <2>7, <2>9, <2>10 DEF Run
<1> QED
  BY <1>1, <1>2, <1>3, <1>4 DEF Next

LEMMA Stories == ASSUME OneRun PROVE Spec => []StoryInv
<1>1. Init => StoryInv
  BY DEF Init, StoryInv, RegistryApart, PicksApart
<1>2. TypeOK /\ TypeOK' /\ FilingInv /\ StoryInv /\ [Next]_vars => StoryInv'
  BY StoryStep
<1> QED
  BY <1>1, <1>2, Typing, Filing, PTL DEF Spec

(***************************************************************************)
(* A link that a pick shares with a row of the registry got there in the   *)
(* same run: the picks were made when no row had it.                       *)
(***************************************************************************)
LinksApart(r) ==
  \A k \in DOMAIN picks[r], i \in DOMAIN registry :
    Url[picks[r][k].news] = Url[registry[i].draft.news] =>
      registry[i].draft \in created[r]

LinkInv == \A r \in Runs : LinksApart(r)

\* Steps that leave the registry alone and add nothing to the picks of a run
\* nor, while it has some, take anything from what it has created.
LEMMA QuietLinks ==
  ASSUME LinkInv, UNCHANGED registry, NEW r \in Runs, OneRun,
         \/ picks'[r] = <<>>
         \/ UNCHANGED <<picks, created>>
  PROVE  LinkInv'
BY DEF LinkInv, LinksApart, OneRun

\* The picks of a run and the registry, one pick later.
LEMMA TailOfPicks ==
  ASSUME TypeOK, NEW r \in Runs, picks[r] # <<>>, picks'[r] = Tail(picks[r])
  PROVE  \A k \in DOMAIN picks'[r] :
           k + 1 \in DOMAIN picks[r] /\ picks'[r][k] = picks[r][k + 1]
BY DEF TypeOK

LEMMA RegisterAppends ==
  ASSUME TypeOK, NEW r \in Runs, Register(r)
  PROVE  /\ picks[r] # <<>> /\ 1 \in DOMAIN picks[r] /\ Head(picks[r]) = picks[r][1]
         /\ picks'[r] = Tail(picks[r]) /\ created'[r] = created[r] \cup {picks[r][1]}
         /\ DOMAIN registry = 1..Len(registry) /\ Len(registry) \in Nat
         /\ DOMAIN registry' = 1..Len(registry) + 1
         /\ registry'[Len(registry) + 1].draft = picks[r][1]
         /\ \A i \in 1..Len(registry) : registry'[i] = registry[i]
<1> DEFINE row == [date |-> now[r], draft |-> Head(picks[r])]
<1>1. picks[r] # <<>> /\ picks[r] \in Seq(Drafts) /\ registry \in Seq(Rows)
  BY DEF Register, TypeOK
<1>2. 1 \in DOMAIN picks[r] /\ Head(picks[r]) = picks[r][1]
  BY <1>1
<1>3. row \in Rows
  BY <1>1, FileOfRun DEF TypeOK, Rows
<1>4. picks'[r] = Tail(picks[r]) /\ created'[r] = created[r] \cup {picks[r][1]}
  BY <1>2 DEF Register, TypeOK
<1>5. registry' = Append(registry, row) /\ row.draft = picks[r][1]
  BY <1>2 DEF Register
<1> HIDE DEF row
<1> QED
  BY <1>1, <1>2, <1>3, <1>4, <1>5

LEMMA LinkStep ==
  ASSUME OneRun, TypeOK, StoryInv, LinkInv, [Next]_vars
  PROVE  LinkInv'
<1> USE DEF data, local
<1>1. CASE Tick \/ Ingest \/ UNCHANGED vars
  <2>1. UNCHANGED <<registry, picks, created>>
    BY <1>1 DEF Tick, Ingest, ListFiles, TakeLock, AddQuestion, SkipQuestion,
                EndIngest, vars
  <2> QED
    BY <2>1 DEF LinkInv, LinksApart
<1>2. ASSUME NEW r \in Runs, Run(r) PROVE LinkInv'
  <2>1. \A s \in Runs : s = r
    BY DEF OneRun
  <2>2. CASE \/ Launch(r) \/ Load(r) \/ Reject(r) \/ EndDrafts(r)
             \/ NewFile(r) \/ OpenFile(r) \/ FillFile(r)
    <3>1. UNCHANGED <<registry, picks, created>>
      BY <2>2 DEF Launch, Load, Reject, EndDrafts, NewFile, OpenFile, FillFile
    <3> QED
      BY <3>1, QuietLinks
  <2>3. CASE Finish(r) \/ Die(r)
    <3>1. picks'[r] = <<>> /\ UNCHANGED registry
      BY <2>3 DEF TypeOK, Finish, Die, Reset
    <3> QED
      BY <3>1, QuietLinks
  <2>4. CASE Draft(r)
    <3>1. PICK d \in Drafts :
            /\ ~is_duplicate(reg[r], d.title, d.key, d.news)
            /\ picks' = [picks EXCEPT ![r] = Append(@, d)]
      BY <2>4 DEF Draft
    <3>2. pc[r] = "draft" /\ UNCHANGED <<registry, created>>
      BY <2>4 DEF Draft, MayDraft
    <3>3. \A i \in DOMAIN registry : Url[registry[i].draft.news] # Url[d.news]
      <4>1. ~InRegistry(registry, d.title, d.key, d.news)
        BY <3>1, <3>2 DEF StoryInv, is_duplicate
      <4> QED
        BY <4>1 DEF InRegistry, Registered
    <3>4. /\ DOMAIN picks[r] = 1..Len(picks[r]) /\ Len(picks[r]) \in Nat
          /\ DOMAIN picks'[r] = 1..Len(picks[r]) + 1
          /\ picks'[r][Len(picks[r]) + 1] = d
          /\ \A k \in 1..Len(picks[r]) : picks'[r][k] = picks[r][k]
      BY <3>1 DEF TypeOK
    <3>5. LinksApart(r)'
      <4>1. ASSUME NEW k \in DOMAIN picks'[r], NEW i \in DOMAIN registry,
                   Url[picks'[r][k].news] = Url[registry[i].draft.news]
            PROVE  registry[i].draft \in created[r]
        <5>1. k \in DOMAIN picks[r] /\ picks'[r][k] = picks[r][k]
          BY <3>3, <3>4, <4>1
        <5>2. LinksApart(r)
          BY DEF LinkInv
        <5> QED
          BY <4>1, <5>1, <5>2 DEF LinksApart
      <4> QED
        BY <3>2, <4>1 DEF LinksApart
    <3> QED
      BY <2>1, <3>5 DEF LinkInv
  <2>5. CASE SkipFile(r)
    <3>1. /\ picks[r] # <<>> /\ picks'[r] = Tail(picks[r])
          /\ UNCHANGED <<registry, created>>
      BY <2>5 DEF TypeOK, SkipFile
    <3>2. LinksApart(r)'
      <4>1. ASSUME NEW k \in DOMAIN picks'[r], NEW i \in DOMAIN registry,
                   Url[picks'[r][k].news] = Url[registry[i].draft.news]
            PROVE  registry[i].draft \in created[r]
        <5>1. k + 1 \in DOMAIN picks[r] /\ picks'[r][k] = picks[r][k + 1]
          BY <3>1, TailOfPicks
        <5>2. LinksApart(r)
          BY DEF LinkInv
        <5> QED
          BY <4>1, <5>1, <5>2 DEF LinksApart
      <4> QED
        BY <3>1, <4>1 DEF LinksApart
    <3> QED
      BY <2>1, <3>2 DEF LinkInv
  <2>6. CASE Register(r)
    <3>1. LinksApart(r)'
      BY <2>6, RegisterAppends, TailOfPicks DEF LinkInv, LinksApart
    <3> QED
      BY <2>1, <3>1 DEF LinkInv
  <2> QED
    BY <1>2, <2>2, <2>3, <2>4, <2>5, <2>6 DEF Run
<1> QED
  BY <1>1, <1>2 DEF Next

LEMMA Links == ASSUME OneRun PROVE Spec => []LinkInv
<1>1. Init => LinkInv
  BY DEF Init, LinkInv, LinksApart
<1>2. TypeOK /\ StoryInv /\ LinkInv /\ [Next]_vars => LinkInv'
  BY LinkStep
<1> QED
  BY <1>1, <1>2, Typing, Stories, PTL DEF Spec

\* When no two runs overlap, no later run registers a link again, and the run
\* that registered it does so for another headline only.
THEOREM StoryOnce == ASSUME OneRun PROVE Spec => OneQuestionPerStory
<1> DEFINE Story ==
      \A i \in DOMAIN registry' \ DOMAIN registry, j \in DOMAIN registry :
        Url[registry'[i].draft.news] = Url[registry[j].draft.news] =>
          /\ registry'[i].draft.news # registry[j].draft.news
          /\ \E r \in Runs : pc[r] = "register" /\ registry[j].draft \in created[r]
<1>1. TypeOK /\ StoryInv /\ LinkInv /\ [Next]_vars => [Story]_vars
  <2> SUFFICES ASSUME TypeOK, StoryInv, LinkInv, Next PROVE Story
    BY DEF vars
  <2>1. ASSUME NEW r \in Runs, Register(r) PROVE Story
    <3>1. pc[r] = "register"
      BY <2>1 DEF Register
    <3>2. ASSUME NEW i \in DOMAIN registry' \ DOMAIN registry
          PROVE  registry'[i].draft = picks[r][1] /\ 1 \in DOMAIN picks[r]
      BY <2>1, RegisterAppends
    <3>3. ASSUME NEW j \in DOMAIN registry, 1 \in DOMAIN picks[r]
          PROVE  /\ picks[r][1].news # registry[j].draft.news
                 /\ Url[picks[r][1].news] = Url[registry[j].draft.news] =>
                      registry[j].draft \in created[r]
      BY <3>3 DEF StoryInv, PicksApart, Distinct, LinkInv, LinksApart
    <3> QED
      BY <3>1, <3>2, <3>3
  <2>2. CASE UNCHANGED registry
    BY <2>2
  <2> QED
    BY <2>1, <2>2
       DEF Next, data, Tick, Ingest, ListFiles, TakeLock, AddQuestion, SkipQuestion,
           EndIngest, Run, Launch, Load, Draft, Reject, EndDrafts, SkipFile,
           NewFile, OpenFile, FillFile, Finish, Die
<1> QED
  BY <1>1, Typing, Stories, Links, PTL DEF Spec, OneQuestionPerStory

-----------------------------------------------------------------------------
(***************************************************************************)
(* A file that has the slug of a pick was filed by the run of that pick:   *)
(* when the pick was made there was none, not even a torn one.             *)
(***************************************************************************)
EventInv ==
  /\ EventFiledOnce
  /\ \A r \in Runs : \A k \in DOMAIN picks[r] : \A f \in Files :
       files[f] # Absent /\ f[2] = Slug[picks[r][k].key] => f[1] = now[r]

LEMMA EventStep ==
  ASSUME OneRun, TypeOK, FilingInv, StoryInv, EventInv, [Next]_vars
  PROVE  EventInv'
<1> USE DEF data, local
<1>1. CASE Tick \/ Ingest \/ UNCHANGED vars
  <2>1. UNCHANGED <<files, picks, now>>
    BY <1>1 DEF Tick, Ingest, ListFiles, TakeLock, AddQuestion, SkipQuestion,
                EndIngest, vars
  <2> QED
    BY <2>1 DEF EventInv, EventFiledOnce
<1>2. ASSUME NEW r \in Runs, Run(r) PROVE EventInv'
  <2>1. \A s \in Runs : s = r
    BY DEF OneRun
  <2>2. CASE Launch(r) \/ Finish(r) \/ Die(r)
    <3>1. picks'[r] = <<>> /\ UNCHANGED files
      BY <2>2 DEF TypeOK, StoryInv, Launch, Finish, Die, Reset
    <3> QED
      BY <2>1, <3>1 DEF EventInv, EventFiledOnce
  <2>3. CASE Load(r) \/ Reject(r) \/ EndDrafts(r) \/ NewFile(r)
    <3>1. UNCHANGED <<files, picks, now>>
      BY <2>3 DEF Load, Reject, EndDrafts, NewFile
    <3> QED
      BY <3>1 DEF EventInv, EventFiledOnce
  <2>4. CASE Draft(r)
    <3>1. PICK d \in Drafts :
            /\ ~is_duplicate(reg[r], d.title, d.key, d.news)
            /\ picks' = [picks EXCEPT ![r] = Append(@, d)]
      BY <2>4 DEF Draft
    <3>2. UNCHANGED <<files, now>>
      BY <2>4 DEF Draft
    <3>3. \A f \in Files : files[f] # Absent => f[2] # Slug[d.key]
      <4>1. Slug[d.key] \in Matches[Slug[d.key]]
        BY SlugAssumption DEF Slugs, Keys
      <4> QED
        BY <3>1, <4>1 DEF is_duplicate, KnownFile
    <3>4. /\ DOMAIN picks[r] = 1..Len(picks[r]) /\ Len(picks[r]) \in Nat
          /\ DOMAIN picks'[r] = 1..Len(picks[r]) + 1
          /\ picks'[r][Len(picks[r]) + 1] = d
          /\ \A k \in 1..Len(picks[r]) : picks'[r][k] = picks[r][k]
      BY <3>1 DEF TypeOK
    <3>5. EventFiledOnce'
      BY <3>2 DEF EventInv, EventFiledOnce
    <3>6. ASSUME NEW k \in DOMAIN picks'[r], NEW f \in Files,
                 files[f] # Absent, f[2] = Slug[picks'[r][k].key]
          PROVE  f[1] = now[r]
      <4>1. k \in DOMAIN picks[r] /\ picks'[r][k] = picks[r][k]
        BY <3>3, <3>4, <3>6
      <4> QED
        BY <3>6, <4>1 DEF EventInv
    <3> QED
      BY <2>1, <3>2, <3>5, <3>6 DEF EventInv
  <2>5. CASE SkipFile(r)
    <3>1. /\ picks[r] # <<>> /\ picks'[r] = Tail(picks[r])
          /\ UNCHANGED <<files, now>>
      BY <2>5 DEF TypeOK, SkipFile
    <3> QED
      BY <2>1, <3>1, TailOfPicks DEF EventInv, EventFiledOnce
  <2>6. CASE Register(r)
    <3>1. UNCHANGED <<files, now>>
      BY <2>6 DEF Register
    <3> QED
      BY <2>1, <2>6, <3>1, RegisterAppends, TailOfPicks DEF EventInv, EventFiledOnce
  <2>7. CASE OpenFile(r) \/ FillFile(r)
    <3>1. UNCHANGED <<picks, now>>
      BY <2>7 DEF OpenFile, FillFile
    <3>2. /\ FileOf(r) = <<now[r], Slug[picks[r][1].key]>>
          /\ 1 \in DOMAIN picks[r]
      BY <2>7 DEF TypeOK, OpenFile, FillFile, FileOf
    <3>3. \A f \in Files : files'[f] # Absent => f = FileOf(r) \/ files[f] # Absent
      BY <2>7, WritesOwnFile
    <3>4. \A f \in Files : f = <<f[1], f[2]>>
      BY DEF Files
    <3>5. ASSUME NEW f \in Files, files'[f] # Absent, f[2] = Slug[picks[r][1].key]
          PROVE  f = FileOf(r)
      <4>1. f[1] = now[r]
        BY <3>2, <3>3, <3>5 DEF EventInv
      <4> QED
        BY <3>2, <3>4, <3>5, <4>1
    <3>6. EventFiledOnce'
      BY <3>2, <3>3, <3>5 DEF EventInv, EventFiledOnce
    <3>7. \A k \in DOMAIN picks[r] : \A f \in Files :
            files'[f] # Absent /\ f[2] = Slug[picks[r][k].key] => f[1] = now[r]
      BY <3>2, <3>3 DEF EventInv
    <3> QED
      BY <2>1, <3>1, <3>6, <3>7 DEF EventInv
  <2> QED
    BY <1>2, <2>2, <2>3, <2>4, <2>5, <2>6, <2>7 DEF Run
<1> QED
  BY <1>1, <1>2 DEF Next

\* When no two runs overlap, an event is filed once, on whatever day and
\* wherever the runs are killed.
THEOREM EventOnce == ASSUME OneRun PROVE Spec => []EventFiledOnce
<1>1. Init => EventInv
  BY DEF Init, EventInv, EventFiledOnce
<1>2. TypeOK /\ FilingInv /\ StoryInv /\ EventInv /\ [Next]_vars => EventInv'
  BY EventStep
<1>3. EventInv => EventFiledOnce
  BY DEF EventInv
<1> QED
  BY <1>1, <1>2, <1>3, Typing, Filing, Stories, PTL DEF Spec

-----------------------------------------------------------------------------
(***************************************************************************)
(* The quota counts event_keys. When no two runs overlap that is the       *)
(* number of rows, and what a run has picked fits in what is left of the   *)
(* day.                                                                    *)
(***************************************************************************)
OnDay(rows, day) == {i \in DOMAIN rows : rows[i].date = day}

QuotaInv ==
  /\ WithinQuota
  /\ \A r \in Runs : picks[r] # <<>> =>
       Len(picks[r]) + Cardinality(OnDay(registry, now[r])) <= MaxPicks

LEMMA OnDayFinite ==
  ASSUME NEW rows \in Seq(Rows), NEW day \in Days
  PROVE  IsFiniteSet(OnDay(rows, day)) /\ Cardinality(OnDay(rows, day)) \in Nat
<1>1. OnDay(rows, day) \subseteq 1..Len(rows) /\ IsFiniteSet(1..Len(rows))
  BY FS_Interval DEF OnDay
<1> QED
  BY <1>1, FS_Subset, FS_CardinalityType

\* A row appended counts for its own day only.
LEMMA OnDayAppend ==
  ASSUME NEW rows \in Seq(Rows), NEW row \in Rows, NEW day \in Days
  PROVE  Cardinality(OnDay(Append(rows, row), day))
           = Cardinality(OnDay(rows, day)) + IF row.date = day THEN 1 ELSE 0
<1> DEFINE n == Len(rows) + 1
<1>1. /\ DOMAIN rows = 1..Len(rows) /\ Len(rows) \in Nat
      /\ DOMAIN Append(rows, row) = 1..n /\ Append(rows, row)[n] = row
      /\ \A i \in 1..Len(rows) : Append(rows, row)[i] = rows[i]
  OBVIOUS
<1>2. n \notin OnDay(rows, day)
  BY <1>1 DEF OnDay
<1>3. CASE row.date = day
  <2>1. OnDay(Append(rows, row), day) = OnDay(rows, day) \cup {n}
    BY <1>1, <1>3 DEF OnDay
  <2> QED
    BY <1>2, <1>3, <2>1, OnDayFinite, FS_AddElement
<1>4. CASE row.date # day
  <2>1. OnDay(Append(rows, row), day) = OnDay(rows, day)
    BY <1>1, <1>4 DEF OnDay
  <2> QED
    BY <1>4, <2>1, OnDayFinite
<1> QED
  BY <1>3, <1>4

LEMMA DoneIsRows ==
  ASSUME TypeOK, RegistryApart, NEW day \in Days
  PROVE  DoneOn(registry, day) = Cardinality(OnDay(registry, day))
<1>1. DOMAIN registry \subseteq Int
  BY DEF TypeOK
<1>2. \A i, j \in DOMAIN registry : registry[j].draft.key = registry[i].draft.key => j <= i
  BY <1>1 DEF RegistryApart, Distinct
<1>3. LastOfKey(registry) = DOMAIN registry
  BY <1>2 DEF LastOfKey
<1> QED
  BY <1>3 DEF DoneOn, OnDay

\* Steps that leave the registry alone and at most drop picks.
LEMMA QuietQuota ==
  ASSUME TypeOK, TypeOK', QuotaInv, UNCHANGED registry,
         \A r \in Runs : picks'[r] # <<>> =>
           /\ picks[r] # <<>> /\ now'[r] = now[r]
           /\ Len(picks'[r]) <= Len(picks[r])
  PROVE  QuotaInv'
<1>1. WithinQuota'
  BY DEF QuotaInv, WithinQuota
<1>2. ASSUME NEW r \in Runs, picks'[r] # <<>>
      PROVE  Len(picks'[r]) + Cardinality(OnDay(registry, now[r])) <= MaxPicks
  <2>1. now[r] \in Days /\ registry \in Seq(Rows)
    BY DEF TypeOK
  <2>2. /\ Len(picks[r]) \in Nat /\ Len(picks'[r]) \in Nat
        /\ Cardinality(OnDay(registry, now[r])) \in Nat
    <3>1. picks[r] \in Seq(Drafts) /\ picks'[r] \in Seq(Drafts)
      BY DEF TypeOK
    <3> QED
      BY <2>1, <3>1, OnDayFinite
  <2>3. Len(picks[r]) + Cardinality(OnDay(registry, now[r])) <= MaxPicks
    BY <1>2 DEF QuotaInv
  <2> QED
    BY <1>2, <2>2, <2>3, BoundsAssumption
<1> QED
  BY <1>1, <1>2 DEF QuotaInv, OnDay

LEMMA QuotaStep ==
  ASSUME OneRun, TypeOK, TypeOK', StoryInv, QuotaInv, [Next]_vars
  PROVE  QuotaInv'
<1> USE DEF data, local
<1>1. CASE Tick
  BY <1>1, QuietQuota DEF Tick, TypeOK
<1>2. CASE Ingest
  BY <1>2, QuietQuota
     DEF Ingest, ListFiles, TakeLock, AddQuestion, SkipQuestion, EndIngest, TypeOK
<1>3. CASE UNCHANGED vars
  BY <1>3, QuietQuota DEF vars, TypeOK
<1>4. ASSUME NEW r \in Runs, Run(r) PROVE QuotaInv'
  <2>1. \A s \in Runs : s = r
    BY DEF OneRun
  <2> DEFINE n == Cardinality(OnDay(registry, now[r]))
  <2>2. now[r] \in Days /\ registry \in Seq(Rows) /\ n \in Nat /\ Len(picks[r]) \in Nat
    BY OnDayFinite DEF TypeOK
  <2>3. CASE Launch(r) \/ Load(r)
    <3>1. picks'[r] = <<>> /\ UNCHANGED registry
      BY <2>3 DEF StoryInv, Launch, Load
    <3> QED
      BY <2>1, <3>1, QuietQuota
  <2>4. CASE Draft(r)
    <3>1. /\ pc[r] = "draft" /\ Len(picks[r]) < MaxPicks - DoneOn(reg[r], now[r])
          /\ UNCHANGED <<registry, now>>
      BY <2>4 DEF Draft, MayDraft, Quota
    <3>2. Len(picks'[r]) = Len(picks[r]) + 1
      BY <2>4 DEF Draft, TypeOK
    <3>3. DoneOn(reg[r], now[r]) = n
      BY <2>2, <3>1, DoneIsRows DEF StoryInv
    <3>4. Len(picks'[r]) + n <= MaxPicks
      BY <2>2, <3>1, <3>2, <3>3, BoundsAssumption
    <3> QED
      BY <2>1, <3>1, <3>4 DEF QuotaInv, WithinQuota, OnDay
  <2>5. CASE Reject(r) \/ EndDrafts(r) \/ NewFile(r) \/ OpenFile(r) \/ FillFile(r)
    <3>1. UNCHANGED <<registry, now, picks>>
      BY <2>5 DEF Reject, EndDrafts, NewFile, OpenFile, FillFile
    <3> QED
      BY <2>1, <2>2, <3>1, QuietQuota
  <2>6. CASE Finish(r) \/ Die(r)
    <3>1. picks'[r] = <<>> /\ UNCHANGED registry
      BY <2>6 DEF TypeOK, Finish, Die, Reset
    <3> QED
      BY <2>1, <3>1, QuietQuota
  <2>7. ASSUME picks[r] # <<>>, picks'[r] = Tail(picks[r])
        PROVE  Len(picks'[r]) = Len(picks[r]) - 1
    BY <2>7 DEF TypeOK
  <2>8. CASE SkipFile(r)
    <3>1. /\ picks[r] # <<>> /\ picks'[r] = Tail(picks[r])
          /\ UNCHANGED <<registry, now>>
      BY <2>8 DEF TypeOK, SkipFile
    <3>2. Len(picks'[r]) <= Len(picks[r])
      BY <2>2, <2>7, <3>1
    <3> QED
      BY <2>1, <3>1, <3>2, QuietQuota
  <2>9. CASE Register(r)
    <3> DEFINE row == [date |-> now[r], draft |-> Head(picks[r])]
    <3>1. /\ picks[r] # <<>> /\ picks'[r] = Tail(picks[r])
          /\ registry' = Append(registry, row) /\ now' = now
      BY <2>9 DEF TypeOK, Register
    <3>2. row \in Rows
      BY <3>1, FileOfRun DEF TypeOK, Rows
    <3>3. \A day \in Days :
            Cardinality(OnDay(registry', day))
              = Cardinality(OnDay(registry, day)) + IF now[r] = day THEN 1 ELSE 0
      BY <2>2, <3>1, <3>2, OnDayAppend
    <3>4. Len(picks[r]) + n <= MaxPicks /\ Len(picks[r]) >= 1
      BY <2>2, <3>1 DEF QuotaInv, TypeOK
    <3>5. ASSUME NEW day \in Days PROVE Cardinality(OnDay(registry', day)) <= MaxPicks
      <4>1. CASE day = now[r]
        BY <2>2, <3>3, <3>4, <4>1, BoundsAssumption
      <4>2. CASE day # now[r]
        <5>1. Cardinality(OnDay(registry, day)) <= MaxPicks
          BY DEF QuotaInv, WithinQuota, OnDay
        <5> QED
          BY <2>2, <3>3, <4>2, <5>1, OnDayFinite
      <4> QED
        BY <4>1, <4>2
    <3>6. Len(picks'[r]) + Cardinality(OnDay(registry', now[r])) <= MaxPicks
      BY <2>2, <2>7, <3>1, <3>3, <3>4, BoundsAssumption
    <3>7. WithinQuota'
      BY <3>5 DEF WithinQuota, OnDay
    <3> QED
      BY <2>1, <3>1, <3>6, <3>7 DEF QuotaInv, OnDay
  <2> QED
    BY <1>4, <2>3, <2>4, <2>5, <2>6, <2>8, <2>9 DEF Run
<1> QED
  BY <1>1, <1>2, <1>3, <1>4 DEF Next

\* When no two runs overlap, the registry never has more than MaxPicks
\* questions of one day, however often a run is killed and started again.
THEOREM QuotaKept == ASSUME OneRun PROVE Spec => []WithinQuota
<1>1. Init => QuotaInv
  <2>1. ASSUME Init, NEW day \in Days PROVE OnDay(registry, day) = {}
    BY <2>1 DEF Init, OnDay
  <2> QED
    BY <2>1, FS_EmptySet, BoundsAssumption DEF Init, QuotaInv, WithinQuota, OnDay
<1>2. TypeOK /\ TypeOK' /\ StoryInv /\ QuotaInv /\ [Next]_vars => QuotaInv'
  BY QuotaStep
<1>3. QuotaInv => WithinQuota
  BY DEF QuotaInv
<1> QED
  BY <1>1, <1>2, <1>3, Typing, Stories, PTL DEF Spec

=============================================================================
