------------------------ MODULE JsonlStorageProofs ------------------------
(***************************************************************************)
(* Proofs about the JSONL storage, for any documents, tasks, bounds and    *)
(* faults.                                                                 *)
(*                                                                         *)
(* The log of the commits, main.jsonl: every step leaves it as it is,      *)
(* appends the marker of the commit in progress, or, when power was lost,  *)
(* takes one of the contents that the file had since it was flushed        *)
(* (MainStep). The theorems about it follow from that, since each of these *)
(* contents is a prefix of the log (PastInv).                              *)
(*                                                                         *)
(* Recovery: no open ever finds the files corrupt. The invariant is about  *)
(* all pairs of a content of main.jsonl and a content of a sidecar that a  *)
(* power loss may leave together (FilesInv): the sidecar has every record  *)
(* that the log needs, and what the log does not list is newer than all    *)
(* that it lists.                                                          *)
(*                                                                         *)
(* The operators of the model on sequences are recursive functions. What   *)
(* they compute is proved by induction on the length of the sequence, and  *)
(* induction follows from the well-foundedness of the natural numbers.     *)
(***************************************************************************)
EXTENDS
  JsonlStorageProps, SequenceTheorems, FiniteSetTheorems, WellFoundedInduction, TLAPS

Log == disk[Main].lines

(* Sequence numbers strictly increase (storage.ts:542-548).                *)
InOrder(lines) == \A i, j \in 1..Len(lines) : i < j => lines[i].seq < lines[j].seq

MarkersInOrder == InOrder(Log)

(* A step keeps the log, extends it by the marker of the commit underway,  *)
(* or, with fsync, drops markers at its end.                               *)
OnlyTheTailIsLost ==
  \/ Log' = Log
  \/ pc = "publish" /\ Log' = Append(Log, batch)
  \/ fsync /\ pc = "lost" /\ \E n \in 0..Len(Log) : Log' = SubSeq(Log, 1, n)

-----------------------------------------------------------------------------
(* The inductive invariant *)

Shape ==
  /\ disk = [f \in Files \cup {Main} |-> disk[f]]
  /\ past = [f \in Files \cup {Main, Temp} |-> past[f]]
  /\ fsync \in BOOLEAN /\ tried \in Nat
  /\ rest \subseteq Files /\ DOMAIN plan \subseteq Files
  /\ pc \in {"flushTemp", "rename"} => target \in Files
  /\ pc = "lost" => fsync

LogInv == Log \in Seq(MarkerSet) /\ InOrder(Log)

(* What a power loss may leave of main.jsonl is a prefix of it.            *)
PastInv == \A c \in past[Main] : \E n \in 0..Len(Log) : c.lines = SubSeq(Log, 1, n)

BatchInv ==
  pc \in {"append", "flush", "publish"} =>
    batch \in MarkerSet /\ \A k \in 1..Len(Log) : Log[k].seq < batch.seq

(* A commit is in the log from its publication on.                         *)
Names == {Log[k].by : k \in 1..Len(Log)}

AckInv ==
  ~fsync => /\ acked \subseteq Names
            /\ pc \in {"append", "flush", "publish"} \/ batch = NoMarker \/ batch.by \in Names

Inv == Shape /\ LogInv /\ PastInv /\ BatchInv /\ AckInv

-----------------------------------------------------------------------------
(* Markers *)

LEMMA NamesDiffer ==
  Main # Temp /\ Main \notin Files /\ Temp \notin Files
BY FilesAssumption DEF Main, Temp

LEMMA NewMarker ==
  ASSUME NEW b \in Batches, NEW seq \in Nat, NEW by \in Nat
  PROVE Marker(seq, by, b) \in MarkerSet /\ Marker(seq, by, b).seq = seq
<1>1. PICK n \in 1..MaxWrites : b \in [1..n -> Files \X Ops]
  BY DEF Batches
<1> DEFINE ord(k) == Cardinality({j \in 1..k - 1 : b[j][2] \in Stored})
           w(k) == [file |-> b[k][1], op |-> b[k][2], seq |-> seq, by |-> by, ord |-> ord(k)]
<1>2. n \in Nat /\ DOMAIN b = 1..n
  BY <1>1, BoundsAssumption
<1>3. \A k \in 1..n : ord(k) \in Nat
  <2> TAKE k \in 1..n
  <2>1. IsFiniteSet(1..k - 1)
    BY <1>2, FS_Interval
  <2>2. IsFiniteSet({j \in 1..k - 1 : b[j][2] \in Stored})
    BY <2>1, FS_Subset
  <2> QED
    BY <2>2, FS_CardinalityType
<1>4. \A k \in 1..n : w(k) \in WriteSet
  <2> TAKE k \in 1..n
  <2>1. b[k] \in Files \X Ops
    BY <1>1
  <2> HIDE DEF ord
  <2> QED
    BY <2>1, <1>3 DEF WriteSet
<1> HIDE DEF w
<1>5. [k \in 1..n |-> w(k)] \in Seq(WriteSet)
  BY <1>2, <1>4, IsASeq
<1>6. Marker(seq, by, b) = [seq |-> seq, by |-> by, writes |-> [k \in 1..n |-> w(k)]]
  BY <1>2 DEF Marker, w
<1> QED
  BY <1>5, <1>6 DEF MarkerSet

LEMMA NextSeqIsNew ==
  ASSUME LogInv
  PROVE NextSeq \in Nat /\ \A k \in 1..Len(Log) : Log[k].seq < NextSeq
<1>1. CASE Log = <<>>
  BY <1>1 DEF NextSeq, Log
<1>2. CASE Log # <<>>
  <2>1. Len(Log) \in Nat \ {0} /\ \A k \in 1..Len(Log) : Log[k] \in MarkerSet
    BY <1>2, EmptySeq, ElementOfSeq DEF LogInv
  <2>2. NextSeq = Log[Len(Log)].seq + 1
    BY <1>2 DEF NextSeq, Log, Last
  <2>3. \A k \in 1..Len(Log) : Log[k].seq \in Nat
    BY <2>1 DEF MarkerSet
  <2>4. \A k \in 1..Len(Log) : k = Len(Log) \/ Log[k].seq < Log[Len(Log)].seq
    BY <2>1 DEF LogInv, InOrder
  <2> QED
    BY <2>1, <2>2, <2>3, <2>4
<1> QED
  BY <1>1, <1>2

(* What an append of one marker may leave.                                 *)
LEMMA AppendingOne ==
  ASSUME LogInv, NEW m \in MarkerSet, NEW c \in Appending(disk[Main], <<m>>)
  PROVE c.lines \in {Log, Append(Log, m)}
<1>1. /\ Log \o <<m>> = Append(Log, m)
      /\ SubSeq(<<m>>, 1, 0) = <<>> /\ SubSeq(<<m>>, 1, 1) = <<m>>
      /\ Len(<<m>>) = 1 /\ Log \o <<>> = Log
  <2>1. Log \o <<m>> = Append(Log, m)
    BY AppendIsConcat DEF LogInv
  <2>2. Log \o <<>> = Log
    BY ConcatEmptySeq DEF LogInv
  <2>3. <<m>> \in Seq(MarkerSet) /\ Len(<<m>>) = 1
    OBVIOUS
  <2>4. SubSeq(<<m>>, 1, 0) = <<>>
    BY SubSeqEmpty
  <2>5. SubSeq(<<m>>, 1, 1) = <<m>>
    BY <2>3, SubSeqFull
  <2> QED
    BY <2>1, <2>2, <2>3, <2>4, <2>5
<1>2. CASE c = disk[Main]
  BY <1>2 DEF Log
<1>3. CASE \E n \in 1..1 : c = Holding(Log \o SubSeq(<<m>>, 1, n))
  BY <1>1, <1>3 DEF Holding
<1>4. CASE \E n \in 0..0 : c = [Holding(Log \o SubSeq(<<m>>, 1, n)) EXCEPT !.torn = TRUE]
  <2>1. PICK n \in 0..0 : c = [Holding(Log \o SubSeq(<<m>>, 1, n)) EXCEPT !.torn = TRUE]
    BY <1>4
  <2>2. n = 0
    BY <2>1
  <2>3. Log \o SubSeq(<<m>>, 1, n) = Log
    BY <2>2, <1>1
  <2>4. c = [Holding(Log) EXCEPT !.torn = TRUE]
    BY <2>1, <2>3
  <2> QED
    BY <2>4 DEF Holding
<1>5. Len(<<m>>) = 1
  BY <1>1
<1>6. /\ 1..Len(<<m>>) = 1..1
      /\ 0..Len(<<m>>) - 1 = 0..0
  BY <1>5
<1>7. \/ c = disk[Main]
      \/ c \in {Holding(Log \o SubSeq(<<m>>, 1, n)) : n \in 1..1}
      \/ c \in {[Holding(Log \o SubSeq(<<m>>, 1, n)) EXCEPT !.torn = TRUE] : n \in 0..0}
  BY <1>6, Zenon DEF Appending, Log
<1> QED
  BY <1>2, <1>3, <1>4, <1>7

-----------------------------------------------------------------------------
(* What a step does to main.jsonl *)

SameLog ==
  /\ Log' = Log
  /\ \A c \in past'[Main] : c \in past[Main] \/ c.lines = Log

Published ==
  /\ pc = "publish" /\ Log' = Append(Log, batch)
  /\ \A c \in past'[Main] : c \in past[Main] \/ c.lines \in {Log, Append(Log, batch)}

Cut == pc = "lost" /\ \E c \in past[Main] : Log' = c.lines /\ past'[Main] = {c}

MainStep == SameLog \/ Published \/ Cut

(* The files keep their domains, and main.jsonl its contents, when another *)
(* file is written, flushed or replaced.                                   *)
LEMMA OtherFile ==
  ASSUME Shape, NEW f \in Files, NEW content, NEW between, Put(f, content, between)
  PROVE SameLog
BY NamesDiffer DEF Put, Shape, SameLog, Log

LEMMA AppendMainStep ==
  ASSUME Shape, LogInv, BatchInv, AppendMain
  PROVE Published
<1>1. batch \in MarkerSet
  BY DEF AppendMain, BatchInv
<1>2. /\ disk' = [disk EXCEPT ![Main] = Holding(Append(Log, batch))]
      /\ \/ past' = [past EXCEPT ![Main] = @ \cup Appending(disk[Main], <<batch>>)
                                              \cup {Holding(Append(Log, batch))}]
         \/ past' = past
  BY DEF AppendMain, Put, Log
<1>3. Log' = Append(Log, batch)
  BY <1>2 DEF Log, Shape, Holding
<1>4. \A c \in past'[Main] : \/ c \in past[Main]
                             \/ c \in Appending(disk[Main], <<batch>>)
                             \/ c = Holding(Append(Log, batch))
  BY <1>2 DEF Shape
<1>5. \A c \in Appending(disk[Main], <<batch>>) : c.lines \in {Log, Append(Log, batch)}
  BY <1>1, AppendingOne
<1>6. Holding(Append(Log, batch)).lines = Append(Log, batch)
  BY DEF Holding
<1> QED
  BY <1>3, <1>4, <1>5, <1>6 DEF AppendMain, Published

(* A failed append may still have published the marker, and then no part   *)
(* of it is lost by itself.                                                *)
LEMMA AppendMainFailsStep ==
  ASSUME Shape, LogInv, BatchInv, AppendMainFails
  PROVE SameLog \/ Published
<1> DEFINE left == Appending(disk[Main], <<batch>>)
<1>1. batch \in MarkerSet /\ pc = "publish"
  BY DEF AppendMainFails, BatchInv
<1>2. PICK content \in left : Put(Main, content, Shorter(left, content))
  BY DEF AppendMainFails
<1>3. \A c \in left : c.lines \in {Log, Append(Log, batch)}
  BY <1>1, AppendingOne
<1> HIDE DEF left
<1>4. Log' = content.lines
  BY <1>2 DEF Put, Shape, Log
<1>5. \A c \in past'[Main] : c \in past[Main] \/ c \in Shorter(left, content) \/ c = content
  BY <1>2 DEF Put, Shape
<1>6. \A c \in Shorter(left, content) : c \in left /\ Len(c.lines) < Len(content.lines)
  BY DEF Shorter
<1>7. Len(Log) \in Nat /\ Len(Append(Log, batch)) = Len(Log) + 1
  BY <1>1 DEF LogInv
<1>8. CASE content.lines = Log
  <2>1. Shorter(left, content) = {}
    BY <1>3, <1>6, <1>7, <1>8
  <2> QED
    BY <1>4, <1>5, <1>8, <2>1 DEF SameLog
<1>9. CASE content.lines = Append(Log, batch)
  BY <1>1, <1>3, <1>4, <1>5, <1>6, <1>9 DEF Published
<1> QED
  BY <1>2, <1>3, <1>8, <1>9

LEMMA SurvivesStep ==
  ASSUME Shape, NEW f \in Undecided, NEW content \in past[f], Survives(f, content)
  PROVE SameLog \/ Cut
<1>1. CASE f = Main
  BY <1>1 DEF Survives, Shape, Cut, Log
<1>2. CASE f # Main
  BY <1>2 DEF Survives, Shape, SameLog, Log
<1> QED
  BY <1>1, <1>2

LEMMA EveryStep ==
  ASSUME Shape, LogInv, BatchInv, [Next]_vars
  PROVE MainStep
<1>1. CASE UNCHANGED files
  BY <1>1 DEF files, SameLog, MainStep, Log
<1>2. CASE Begin \/ FlushSidecarFails \/ FlushMainFails \/ RemoveTemps \/ Confirm
           \/ EndRecovery \/ Close \/ Crash
  BY <1>1, <1>2 DEF Begin, FlushSidecarFails, FlushMainFails, RemoveTemps, Confirm,
     EndRecovery, Close, Crash, files, SameLog, MainStep, Log
<1>3. ASSUME NEW f \in rest, AppendSidecar(f) \/ AppendSidecarFails(f) \/ FlushSidecar(f)
      PROVE MainStep
  <2>1. f \in Files
    BY DEF Shape
  <2>2. CASE AppendSidecar(f)
    BY <2>1, <2>2, OtherFile DEF AppendSidecar, MainStep
  <2>3. CASE AppendSidecarFails(f)
    BY <2>1, <2>3, OtherFile DEF AppendSidecarFails, MainStep
  <2>4. CASE FlushSidecar(f)
    BY <2>1, <2>4, NamesDiffer DEF FlushSidecar, Flush, Shape, SameLog, MainStep, Log
  <2> QED
    BY <1>3, <2>2, <2>3, <2>4
<1>4. CASE AppendMain
  BY <1>4, AppendMainStep DEF MainStep
<1>5. CASE AppendMainFails
  BY <1>5, AppendMainFailsStep DEF MainStep
<1>6. CASE FlushMain
  BY <1>6 DEF FlushMain, Flush, Shape, SameLog, MainStep, Log
<1>7. CASE FlushTemp \/ PowerLoss
  BY <1>7, NamesDiffer DEF FlushTemp, PowerLoss, Shape, SameLog, MainStep, Log
<1>8. CASE RenameTemp
  BY <1>8, NamesDiffer DEF RenameTemp, Shape, SameLog, MainStep, Log
<1>9. ASSUME NEW f \in DOMAIN plan, RemoveSidecar(f) \/ WriteTemp(f) \/ ReplaceFails(f)
      PROVE MainStep
  <2>1. f \in Files
    BY DEF Shape
  <2>2. CASE RemoveSidecar(f)
    BY <2>1, <2>2, OtherFile DEF RemoveSidecar, MainStep
  <2>3. CASE WriteTemp(f)
    BY <2>3, NamesDiffer DEF WriteTemp, Shape, SameLog, MainStep, Log
  <2>4. CASE ReplaceFails(f)
    BY <2>4, NamesDiffer DEF ReplaceFails, Shape, SameLog, MainStep, Log
  <2> QED
    BY <1>9, <2>2, <2>3, <2>4
<1>10. CASE Open
  <2>1. CASE disk[Main].torn
    <3>1. Put(Main, Untorn(disk[Main]), {})
      BY <1>10, <2>1 DEF Open
    <3>2. Untorn(disk[Main]).lines = Log
      BY DEF Untorn, Log
    <3> QED
      BY <3>1, <3>2 DEF Put, Shape, SameLog, MainStep, Log
  <2>2. CASE ~disk[Main].torn
    BY <1>10, <2>2 DEF Open, SameLog, MainStep, Log
  <2> QED
    BY <2>1, <2>2
<1>11. ASSUME NEW f \in Files, ReadSidecar(f) \/ TruncateTail(f)
       PROVE MainStep
  BY <1>11, OtherFile DEF ReadSidecar, TruncateTail, MainStep
<1>12. ASSUME NEW f \in Undecided, NEW content \in past[f], Survives(f, content)
       PROVE MainStep
  BY <1>12, SurvivesStep DEF MainStep
<1>13. CASE UNCHANGED vars
  BY <1>1, <1>13 DEF vars
<1> QED
  BY <1>2, <1>3, <1>4, <1>5, <1>6, <1>7, <1>8, <1>9, <1>10, <1>11, <1>12, <1>13 DEF Next

-----------------------------------------------------------------------------
(* The invariant is inductive *)

LEMMA InitInv == Init => Inv
<1> SUFFICES ASSUME Init PROVE Inv
  OBVIOUS
<1>1. Shape
  BY NamesDiffer, BoundsAssumption DEF Init, Shape, NoPlan
<1>2. Log = <<>>
  BY DEF Init, Log, Absent
<1>3. LogInv
  BY <1>2 DEF LogInv, InOrder
<1>4. PastInv
  <2>1. \A c \in past[Main] : c.lines = <<>>
    BY NamesDiffer DEF Init, Absent
  <2>2. SubSeq(Log, 1, 0) = <<>> /\ 0 \in 0..Len(Log)
    BY <1>2, SubSeqEmpty
  <2> QED
    BY <2>1, <2>2 DEF PastInv
<1>5. BatchInv /\ AckInv
  BY DEF Init, BatchInv, AckInv
<1> QED
  BY <1>1, <1>3, <1>4, <1>5 DEF Inv

LEMMA ShapeStep ==
  ASSUME Shape, [Next]_vars
  PROVE Shape'
<1>1. CASE Begin
  <2>1. rest' \subseteq Files
    BY <1>1 DEF Begin, Sidecars
  <2> QED
    BY <1>1, <2>1 DEF Begin, files, Shape
<1>2. CASE FlushSidecarFails \/ Close \/ Crash
  BY <1>2 DEF FlushSidecarFails, Close, Crash, Stops, NoPlan, files, Shape
<1>3. ASSUME NEW f \in rest, AppendSidecar(f) \/ AppendSidecarFails(f) \/ FlushSidecar(f)
      PROVE Shape'
  <2>1. CASE AppendSidecar(f)
    <3>1. rest' \subseteq Files
      BY <2>1 DEF AppendSidecar, Sidecars, Shape
    <3>2. pc' \in {"append", "flush", "publish"}
      BY <2>1 DEF AppendSidecar, AfterAppend
    <3> QED
      BY <2>1, <3>1, <3>2 DEF AppendSidecar, Put, Shape
  <2>2. CASE AppendSidecarFails(f)
    BY <2>2 DEF AppendSidecarFails, Stops, NoPlan, Put, Shape
  <2>3. CASE FlushSidecar(f)
    BY <2>3 DEF FlushSidecar, Flush, Shape
  <2> QED
    BY <1>3, <2>1, <2>2, <2>3
<1>4. CASE AppendMain
  <2>1. DOMAIN plan' \subseteq Files
    BY <1>4 DEF AppendMain, Reclaim, planReclamations, Superseded, Files
  <2> QED
    BY <1>4, <2>1 DEF AppendMain, Reclaim, Done, Put, Shape
<1>5. CASE AppendMainFails
  BY <1>5 DEF AppendMainFails, Stops, NoPlan, Put, Shape
<1>6. CASE FlushMain \/ FlushMainFails
  BY <1>6 DEF FlushMain, FlushMainFails, Flush, Done, NoPlan, files, Shape
<1>7. CASE FlushTemp
  BY <1>7 DEF FlushTemp, Shape
<1>8. CASE RenameTemp
  BY <1>8 DEF RenameTemp, Replaced, Done, Shape
<1>9. ASSUME NEW f \in DOMAIN plan, RemoveSidecar(f) \/ WriteTemp(f) \/ ReplaceFails(f)
      PROVE Shape'
  <2>1. f \in Files
    BY DEF Shape
  <2>2. CASE RemoveSidecar(f)
    BY <2>2 DEF RemoveSidecar, Put, Replaced, Done, Shape
  <2>3. CASE WriteTemp(f)
    BY <2>1, <2>3 DEF WriteTemp, Shape
  <2>4. CASE ReplaceFails(f)
    BY <2>4 DEF ReplaceFails, Replaced, Done, Shape
  <2> QED
    BY <1>9, <2>2, <2>3, <2>4
<1>10. CASE Open \/ RemoveTemps
  BY <1>10 DEF Open, RemoveTemps, Put, Shape
<1>11. CASE Confirm
  <2>1. DOMAIN plan' \subseteq Files
    BY <1>11 DEF Confirm, Reclaimable, Shape
  <2> QED
    BY <1>11, <2>1 DEF Confirm, files, Shape
<1>12. CASE EndRecovery
  BY <1>12 DEF EndRecovery, Reclaim, Done, files, Shape
<1>13. ASSUME NEW f \in Files, ReadSidecar(f) \/ TruncateTail(f)
       PROVE Shape'
  BY <1>13 DEF ReadSidecar, TruncateTail, Put, Shape
<1>14. CASE PowerLoss
  BY <1>14 DEF PowerLoss, NoPlan, Shape
<1>15. ASSUME NEW f \in Undecided, NEW content \in past[f], Survives(f, content)
       PROVE Shape'
  BY <1>15 DEF Survives, Shape
<1>16. CASE UNCHANGED vars
  BY <1>16 DEF vars, files, Shape
<1> QED
  BY <1>1, <1>2, <1>3, <1>4, <1>5, <1>6, <1>7, <1>8, <1>9, <1>10, <1>11, <1>12, <1>13,
     <1>14, <1>15, <1>16 DEF Next

(* A prefix of the log, and of the log with one more marker.               *)
LEMMA Prefix ==
  ASSUME LogInv, NEW n \in 0..Len(Log)
  PROVE /\ SubSeq(Log, 1, n) \in Seq(MarkerSet)
        /\ Len(SubSeq(Log, 1, n)) = n
        /\ \A k \in 1..n : SubSeq(Log, 1, n)[k] = Log[k]
<1>1. Len(Log) \in Nat /\ \A k \in 1..n : Log[k] \in MarkerSet
  BY ElementOfSeq DEF LogInv
<1> QED
  BY <1>1, SubSeqProperties

LEMMA PrefixOfMore ==
  ASSUME LogInv, NEW m \in MarkerSet, NEW n \in 0..Len(Log)
  PROVE /\ n \in 0..Len(Append(Log, m))
        /\ SubSeq(Append(Log, m), 1, n) = SubSeq(Log, 1, n)
<1>1. /\ Append(Log, m) \in Seq(MarkerSet)
      /\ Len(Append(Log, m)) = Len(Log) + 1
      /\ \A k \in 1..Len(Log) : Append(Log, m)[k] = Log[k]
  BY AppendProperties DEF LogInv
<1>2. \A k \in 1..n : Append(Log, m)[k] = Log[k] /\ Log[k] \in MarkerSet
  BY <1>1, ElementOfSeq DEF LogInv
<1>3. /\ SubSeq(Append(Log, m), 1, n) \in Seq(MarkerSet)
      /\ Len(SubSeq(Append(Log, m), 1, n)) = n
      /\ \A k \in 1..n : SubSeq(Append(Log, m), 1, n)[k] = Append(Log, m)[k]
  BY <1>2, SubSeqProperties
<1>4. Len(Log) \in Nat
  BY DEF LogInv
<1> QED
  BY <1>1, <1>2, <1>3, <1>4, Prefix, SeqEqual

LEMMA LogStep ==
  ASSUME Inv, MainStep
  PROVE LogInv'
<1>1. CASE SameLog
  BY <1>1 DEF Inv, SameLog, LogInv, InOrder
<1>2. CASE Published
  <2>1. batch \in MarkerSet /\ \A k \in 1..Len(Log) : Log[k].seq < batch.seq
    BY <1>2 DEF Inv, BatchInv, Published
  <2>2. /\ Log' \in Seq(MarkerSet) /\ Len(Log') = Len(Log) + 1
        /\ \A k \in 1..Len(Log) : Log'[k] = Log[k]
        /\ Log'[Len(Log) + 1] = batch
    BY <1>2, <2>1, AppendProperties DEF Inv, LogInv, Published
  <2>3. InOrder(Log')
    <3> SUFFICES ASSUME NEW i \in 1..Len(Log) + 1, NEW j \in 1..Len(Log) + 1, i < j
                 PROVE Log'[i].seq < Log'[j].seq
      BY <2>2 DEF InOrder
    <3>1. i \in 1..Len(Log) /\ (j \in 1..Len(Log) \/ j = Len(Log) + 1)
      BY DEF Inv, LogInv
    <3> QED
      BY <2>1, <2>2, <3>1 DEF Inv, LogInv, InOrder
  <2> QED
    BY <2>2, <2>3 DEF LogInv
<1>3. CASE Cut
  <2>1. PICK n \in 0..Len(Log) : Log' = SubSeq(Log, 1, n)
    BY <1>3 DEF Cut, Inv, PastInv
  <2>2. /\ Log' \in Seq(MarkerSet) /\ Len(Log') = n
        /\ \A k \in 1..n : Log'[k] = Log[k]
    BY <2>1, Prefix DEF Inv
  <2>3. n \in Nat /\ Len(Log) \in Nat /\ n <= Len(Log)
    BY DEF Inv, LogInv
  <2>4. InOrder(Log')
    BY <2>2, <2>3 DEF Inv, LogInv, InOrder
  <2> QED
    BY <2>2, <2>4 DEF LogInv
<1> QED
  BY <1>1, <1>2, <1>3 DEF MainStep

LEMMA PastStep ==
  ASSUME Inv, MainStep
  PROVE PastInv'
<1>1. \E n \in 0..Len(Log) : Log = SubSeq(Log, 1, n)
  <2>1. Len(Log) \in 0..Len(Log)
    BY DEF Inv, LogInv
  <2> QED
    BY <2>1, SubSeqFull DEF Inv, LogInv
<1>2. CASE SameLog
  <2> SUFFICES ASSUME NEW c \in past'[Main]
               PROVE \E n \in 0..Len(Log) : c.lines = SubSeq(Log, 1, n)
    BY <1>2 DEF SameLog, PastInv
  <2>1. CASE c \in past[Main]
    BY <2>1 DEF Inv, PastInv
  <2>2. CASE c.lines = Log
    BY <1>1, <2>2, Zenon
  <2> QED
    BY <1>2, <2>1, <2>2 DEF SameLog
<1>3. CASE Published
  <2>1. batch \in MarkerSet
    BY <1>3 DEF Inv, BatchInv, Published
  <2>2. \A n \in 0..Len(Log) : n \in 0..Len(Log') /\ SubSeq(Log', 1, n) = SubSeq(Log, 1, n)
    BY <1>3, <2>1, PrefixOfMore DEF Inv, Published
  <2>3. LogInv'
    BY LogStep
  <2>4. Len(Log') \in 0..Len(Log') /\ Log' = SubSeq(Log', 1, Len(Log'))
    BY <2>3, SubSeqFull DEF LogInv
  <2> SUFFICES ASSUME NEW c \in past'[Main]
               PROVE \E n \in 0..Len(Log') : c.lines = SubSeq(Log', 1, n)
    BY DEF PastInv
  <2>5. CASE c \in past[Main]
    <3>1. PICK n \in 0..Len(Log) : c.lines = SubSeq(Log, 1, n)
      BY <2>5 DEF Inv, PastInv
    <3> QED
      BY <2>2, <3>1
  <2>6. CASE c.lines = Log
    <3>1. PICK n \in 0..Len(Log) : Log = SubSeq(Log, 1, n)
      BY <1>1
    <3> QED
      BY <2>2, <2>6, <3>1, Zenon
  <2>7. CASE c.lines = Append(Log, batch)
    BY <1>3, <2>4, <2>7 DEF Published
  <2> QED
    BY <1>3, <2>5, <2>6, <2>7 DEF Published
<1>4. CASE Cut
  <2>1. LogInv'
    BY LogStep
  <2>2. Len(Log') \in 0..Len(Log') /\ Log' = SubSeq(Log', 1, Len(Log'))
    BY <2>1, SubSeqFull DEF LogInv
  <2>3. \A c \in past'[Main] : c.lines = Log'
    BY <1>4 DEF Cut
  <2> QED
    BY <2>2, <2>3 DEF PastInv
<1> QED
  BY <1>2, <1>3, <1>4 DEF MainStep

LEMMA BatchStep ==
  ASSUME Inv, [Next]_vars
  PROVE BatchInv'
<1> DEFINE early == {"append", "flush", "publish"}
<1>1. CASE Begin
  <2>1. PICK b \in Batches : batch' = Marker(NextSeq, tried + 1, b)
    BY <1>1 DEF Begin
  <2>2. NextSeq \in Nat /\ \A k \in 1..Len(Log) : Log[k].seq < NextSeq
    BY NextSeqIsNew DEF Inv
  <2>3. batch' \in MarkerSet /\ batch'.seq = NextSeq
    BY <2>1, <2>2, NewMarker DEF Inv, Shape
  <2>4. Log' = Log
    BY <1>1 DEF Begin, files, Log
  <2> QED
    BY <2>2, <2>3, <2>4 DEF BatchInv
<1>2. ASSUME NEW f \in rest, AppendSidecar(f) \/ FlushSidecar(f)
      PROVE BatchInv'
  <2>1. UNCHANGED batch /\ pc \in early
    BY <1>2 DEF AppendSidecar, FlushSidecar
  <2>2. f \in Files
    BY DEF Inv, Shape
  <2>3. Log' = Log
    <3>1. CASE AppendSidecar(f)
      BY <2>2, <3>1, OtherFile DEF AppendSidecar, Inv, SameLog
    <3>2. CASE FlushSidecar(f)
      BY <3>2 DEF FlushSidecar, Log
    <3> QED
      BY <1>2, <3>1, <3>2
  <2> QED
    BY <2>1, <2>3 DEF Inv, BatchInv
<1>3. CASE UNCHANGED vars
  BY <1>3 DEF vars, files, Log, Inv, BatchInv
<1>4. CASE \E f \in rest : AppendSidecarFails(f)
  BY <1>4 DEF AppendSidecarFails, Stops, BatchInv
<1>5. CASE FlushSidecarFails \/ Close \/ Crash \/ AppendMainFails
  BY <1>5 DEF FlushSidecarFails, Close, Crash, AppendMainFails, Stops, BatchInv
<1>6. CASE AppendMain \/ FlushMain \/ FlushMainFails \/ FlushTemp \/ RenameTemp \/ EndRecovery
  BY <1>6 DEF AppendMain, FlushMain, FlushMainFails, FlushTemp, RenameTemp, EndRecovery,
     Reclaim, Replaced, Done, BatchInv
<1>7. CASE \E f \in DOMAIN plan : RemoveSidecar(f) \/ WriteTemp(f) \/ ReplaceFails(f)
  BY <1>7 DEF RemoveSidecar, WriteTemp, ReplaceFails, Replaced, Done, BatchInv
<1>8. CASE \/ Open \/ RemoveTemps \/ Confirm \/ PowerLoss
           \/ \E f \in Files : ReadSidecar(f) \/ TruncateTail(f)
           \/ \E f \in Undecided : \E content \in past[f] : Survives(f, content)
  BY <1>8 DEF Open, RemoveTemps, Confirm, PowerLoss, ReadSidecar, TruncateTail, Survives, BatchInv
<1> QED
  BY <1>1, <1>2, <1>3, <1>4, <1>5, <1>6, <1>7, <1>8 DEF Next

(* Without fsync the log only grows.                                       *)
LEMMA NamesStay ==
  ASSUME Inv, MainStep, ~fsync
  PROVE /\ Names \subseteq Names'
        /\ Published => batch.by \in Names'
<1>1. SameLog => Names' = Names
  BY DEF SameLog, Names
<1>2. CASE Published
  <2>1. batch \in MarkerSet
    BY <1>2 DEF Inv, BatchInv, Published
  <2>2. /\ Len(Log') = Len(Log) + 1 /\ Len(Log) \in Nat
        /\ \A k \in 1..Len(Log) : Log'[k] = Log[k]
        /\ Log'[Len(Log) + 1] = batch
    BY <1>2, <2>1, AppendProperties DEF Inv, LogInv, Published
  <2> QED
    BY <2>2 DEF Names
<1>3. ~Cut
  BY DEF Cut, Inv, Shape
<1> QED
  BY <1>1, <1>2, <1>3 DEF MainStep

LEMMA AckStep ==
  ASSUME Inv, MainStep, [Next]_vars
  PROVE AckInv'
<1> SUFFICES ASSUME ~fsync
             PROVE /\ acked' \subseteq Names'
                   /\ \/ pc' \in {"append", "flush", "publish"}
                      \/ batch' = NoMarker
                      \/ batch'.by \in Names'
  <2>1. UNCHANGED fsync
    BY DEF Next, vars, Begin, FlushSidecarFails, Stops, AppendSidecar, AppendSidecarFails,
       FlushSidecar, AppendMain, AppendMainFails, FlushMain, FlushMainFails, FlushTemp,
       RenameTemp, RemoveSidecar, WriteTemp, ReplaceFails, Open, RemoveTemps, Confirm,
       EndRecovery, ReadSidecar, TruncateTail, Close, Crash, PowerLoss, Survives
  <2> QED
    BY <2>1 DEF AckInv
<1> DEFINE early == {"append", "flush", "publish"}
<1>1. acked \subseteq Names /\ (pc \in early \/ batch = NoMarker \/ batch.by \in Names)
  BY DEF Inv, AckInv
<1>2. acked \subseteq Names' /\ Names \subseteq Names'
  BY <1>1, NamesStay
<1>3. CASE Begin
  BY <1>2, <1>3 DEF Begin
<1>4. CASE FlushSidecarFails \/ Close \/ Crash \/ AppendMainFails \/ \E f \in rest : AppendSidecarFails(f)
  BY <1>2, <1>4 DEF FlushSidecarFails, Close, Crash, AppendMainFails, AppendSidecarFails, Stops
<1>5. CASE \E f \in rest : AppendSidecar(f) \/ FlushSidecar(f)
  BY <1>2, <1>5 DEF AppendSidecar, AfterAppend, FlushSidecar
<1>6. CASE AppendMain
  <2>1. batch.by \in Names'
    BY <1>6, AppendMainStep, NamesStay DEF Inv
  <2> QED
    BY <1>2, <1>6, <2>1 DEF AppendMain, Reclaim, Done
<1>7. CASE FlushMain \/ FlushMainFails \/ FlushTemp \/ RenameTemp
  BY <1>1, <1>2, <1>7 DEF FlushMain, FlushMainFails, FlushTemp, RenameTemp, Replaced, Done
<1>8. CASE \E f \in DOMAIN plan : RemoveSidecar(f) \/ WriteTemp(f) \/ ReplaceFails(f)
  BY <1>1, <1>2, <1>8 DEF RemoveSidecar, WriteTemp, ReplaceFails, Replaced, Done
<1>9. CASE EndRecovery
  BY <1>1, <1>2, <1>9 DEF EndRecovery, Reclaim, Done
<1>10. CASE Open \/ RemoveTemps \/ Confirm \/ \E f \in Files : ReadSidecar(f) \/ TruncateTail(f)
  BY <1>1, <1>2, <1>10 DEF Open, RemoveTemps, Confirm, ReadSidecar, TruncateTail
<1>11. CASE PowerLoss \/ \E f \in Undecided : \E content \in past[f] : Survives(f, content)
  BY <1>11 DEF PowerLoss, Survives, Inv, Shape
<1>12. CASE UNCHANGED vars
  BY <1>1, <1>2, <1>12 DEF vars
<1> QED
  BY <1>3, <1>4, <1>5, <1>6, <1>7, <1>8, <1>9, <1>10, <1>11, <1>12 DEF Next

LEMMA NextInv == Inv /\ [Next]_vars => Inv'
<1> SUFFICES ASSUME Inv, [Next]_vars PROVE Inv'
  OBVIOUS
<1>1. MainStep
  BY EveryStep DEF Inv
<1> QED
  BY <1>1, ShapeStep, LogStep, PastStep, BatchStep, AckStep DEF Inv

-----------------------------------------------------------------------------
(* The theorems *)

LEMMA InvHolds == Spec => []Inv
<1> QED
  BY InitInv, NextInv, PTL DEF Spec

(* Without a power loss, whatever fails and however often the process dies,*)
(* a commit that returned is in main.jsonl for good.                       *)
THEOREM AckedNeverLost == Spec => []AckedSurvives
<1>1. Inv => AckedSurvives
  BY DEF Inv, AckInv, Names, LogInv, Log, AckedSurvives
<1> QED
  BY <1>1, InvHolds, PTL

(* The sequence numbers of the markers strictly increase, though the       *)
(* numbers of commits that failed or were lost are given again: the check  *)
(* of recovery that would refuse the file never fires.                     *)
THEOREM MarkersStayInOrder == Spec => []MarkersInOrder
<1>1. Inv => MarkersInOrder
  BY DEF Inv, LogInv, MarkersInOrder
<1> QED
  BY <1>1, InvHolds, PTL

(* A marker enters the log whole, by the one step that publishes it, and   *)
(* leaves it only when power is lost, from the end.                        *)
THEOREM LogIsStable == Spec => [][OnlyTheTailIsLost]_vars
<1>1. Inv /\ [Next]_vars => [OnlyTheTailIsLost]_vars
  <2> SUFFICES ASSUME Inv, [Next]_vars PROVE OnlyTheTailIsLost
    OBVIOUS
  <2>1. CASE SameLog \/ Published
    BY <2>1 DEF SameLog, Published, OnlyTheTailIsLost
  <2>2. CASE Cut
    BY <2>2 DEF Cut, Inv, Shape, PastInv, OnlyTheTailIsLost
  <2> QED
    BY <2>1, <2>2, EveryStep DEF Inv, MainStep
<1> QED
  BY <1>1, InvHolds, PTL DEF Spec

-----------------------------------------------------------------------------
(* Induction over 0..N, and functions defined by it *)

LEMMA Least ==
  ASSUME NEW S \in SUBSET Nat, S # {}
  PROVE \E m \in S : \A k \in S : m <= k
<1> DEFINE R == {ss \in Nat \X Nat : ss[1] < ss[2]}
<1>1. IsWellFoundedOn(R, Nat)
  BY NatLessThanWellFounded DEF OpToRel
<1> HIDE DEF R
<1>2. PICK m \in S : \A k \in S : <<k, m>> \notin R
  BY <1>1, WFMin
<1>3. \A k \in S : ~(k < m)
  BY <1>2 DEF R
<1> QED
  BY <1>3

LEMMA UpTo ==
  ASSUME NEW N \in Nat, NEW S, 0 \in S, \A n \in 1..N : n - 1 \in S => n \in S
  PROVE \A n \in 0..N : n \in S
<1> DEFINE T == {n \in 0..N : n \notin S}
<1>1. SUFFICES ASSUME T # {} PROVE FALSE
  OBVIOUS
<1>2. PICK m \in T : \A k \in T : m <= k
  <2>1. T \in SUBSET Nat
    OBVIOUS
  <2> QED
    BY <1>1, <2>1, Least, Zenon
<1>3. m \in 1..N /\ m - 1 \in 0..N /\ m - 1 < m
  OBVIOUS
<1>4. m - 1 \in S
  BY <1>2, <1>3
<1> QED
  BY <1>3, <1>4

Iterates(A, base, N, step) ==
  \E g \in [0..N -> A] : g[0] = base /\ \A n \in 1..N : g[n] = step[n][g[n - 1]]

LEMMA Iteration ==
  ASSUME NEW A, NEW base \in A, NEW N \in Nat, NEW step \in [1..N -> [A -> A]]
  PROVE Iterates(A, base, N, step)
<1> DEFINE
  Is(g, n) == g[0] = base /\ \A k \in 1..n : g[k] = step[k][g[k - 1]]
  S == {n \in 0..N : \E g \in [0..n -> A] : Is(g, n)}
<1>1. 0 \in S
  <2>1. [n \in 0..0 |-> base] \in [0..0 -> A] /\ Is([n \in 0..0 |-> base], 0)
    OBVIOUS
  <2>2. 0 \in 0..N
    OBVIOUS
  <2> QED
    BY <2>1, <2>2
<1>2. ASSUME NEW n \in 1..N, n - 1 \in S PROVE n \in S
  <2>1. PICK g \in [0..n - 1 -> A] : Is(g, n - 1)
    BY <1>2
  <2> DEFINE h == [k \in 0..n |-> IF k = n THEN step[n][g[n - 1]] ELSE g[k]]
  <2>2. h \in [0..n -> A]
    BY <2>1
  <2>3. Is(h, n)
    BY <2>1
  <2>4. n \in 0..N
    OBVIOUS
  <2> HIDE DEF h
  <2> QED
    BY <2>2, <2>3, <2>4
<1>3. N \in S
  <2> HIDE DEF S
  <2>1. \A n \in 0..N : n \in S
    BY <1>1, <1>2, UpTo
  <2>2. N \in 0..N
    OBVIOUS
  <2> QED
    BY <2>1, <2>2
<1> QED
  BY <1>3 DEF Iterates

Agree(f, g, N) ==
  /\ f = [n \in 0..N |-> f[n]] /\ g = [n \in 0..N |-> g[n]]
  /\ f[0] = g[0] /\ \A n \in 1..N : f[n - 1] = g[n - 1] => f[n] = g[n]

LEMMA SameIteration ==
  ASSUME NEW N \in Nat, NEW f, NEW g, Agree(f, g, N)
  PROVE f = g
<1> USE DEF Agree
<1> DEFINE S == {n \in 0..N : f[n] = g[n]}
<1>1. 0 \in S
  OBVIOUS
<1>2. \A n \in 1..N : n \in 0..N
  OBVIOUS
<1>3. \A n \in 1..N : n - 1 \in S => n \in S
  BY <1>2
<1>4. \A n \in 0..N : n \in S
  <2> HIDE DEF S
  <2> QED
    BY <1>1, <1>3, UpTo
<1>5. \A n \in 0..N : f[n] = g[n]
  BY <1>4
<1> HIDE DEF S
<1>6. [n \in 0..N |-> f[n]] = [n \in 0..N |-> g[n]]
  BY <1>5
<1> QED
  BY <1>6

-----------------------------------------------------------------------------
(* Only, WritesOf and Replay *)

OnlySteps(g, s, set) ==
  /\ g[0] = <<>> /\ g[Len(s)] = Only(s, set)
  /\ \A n \in 1..Len(s) : g[n] = IF s[n] \in set THEN Append(g[n - 1], s[n]) ELSE g[n - 1]

LEMMA OnlyRecursion ==
  ASSUME NEW T, NEW s \in Seq(T), NEW set
  PROVE \E g \in [0..Len(s) -> Seq(T)] : OnlySteps(g, s, set)
<1> DEFINE N == Len(s)
           step == [n \in 1..N |->
                     [t \in Seq(T) |-> IF s[n] \in set THEN Append(t, s[n]) ELSE t]]
           next(f, n) == IF s[n] \in set THEN Append(f[n - 1], s[n]) ELSE f[n - 1]
           body(f) == [n \in 0..N |-> IF n = 0 THEN <<>> ELSE next(f, n)]
           only == CHOOSE f : f = body(f)
<1>1. N \in Nat /\ \A n \in 1..N : s[n] \in T
  OBVIOUS
<1>2. step \in [1..N -> [Seq(T) -> Seq(T)]] /\ <<>> \in Seq(T)
  BY <1>1
<1>3. \A n \in 1..N : \A f : f[n - 1] \in Seq(T) => step[n][f[n - 1]] = next(f, n)
  OBVIOUS
<1>4. Only(s, set) = only[N]
  BY DEF Only
<1> HIDE DEF N, step, next
<1>5. PICK g \in [0..N -> Seq(T)] : g[0] = <<>> /\ \A n \in 1..N : g[n] = step[n][g[n - 1]]
  <2> HIDE DEF only, body
  <2>1. Iterates(Seq(T), <<>>, N, step)
    BY <1>1, <1>2, Iteration
  <2> QED
    BY <2>1 DEF Iterates
<1>6. \A n \in 1..N : n \in 0..N /\ n - 1 \in 0..N /\ n # 0
  BY <1>1
<1>7. \A n \in 1..N : g[n] = next(g, n)
  BY <1>3, <1>5, <1>6
<1>8. g = body(g)
  <2>1. \A n \in 0..N : n = 0 \/ n \in 1..N
    BY <1>1
  <2>2. \A n \in 0..N : g[n] = IF n = 0 THEN <<>> ELSE next(g, n)
    BY <1>5, <1>7, <2>1
  <2> QED
    BY <2>2
<1>9. only = body(only)
  BY <1>8
<1> HIDE DEF only
<1>10. 0 \in 0..N
  BY <1>1
<1>11. only[0] = <<>> /\ \A n \in 1..N : only[n] = next(only, n)
  BY <1>6, <1>9, <1>10
<1>12. only = g
  <2>1. \A n \in 1..N : only[n - 1] = g[n - 1] => only[n] = g[n]
    BY <1>7, <1>11 DEF next
  <2>2. only = [n \in 0..N |-> only[n]] /\ g = [n \in 0..N |-> g[n]]
    BY <1>9
  <2> HIDE DEF body
  <2>3. Agree(only, g, N)
    BY <1>5, <1>11, <2>1, <2>2 DEF Agree
  <2> QED
    BY <1>1, <2>3, SameIteration
<1> QED
  BY <1>4, <1>5, <1>7, <1>12 DEF next, N, OnlySteps

WritesOfSteps(g, log) ==
  /\ g[0] = <<>> /\ g[Len(log)] = WritesOf(log)
  /\ \A n \in 1..Len(log) : g[n] = g[n - 1] \o log[n].writes

LEMMA WritesOfRecursion ==
  ASSUME NEW log \in Seq(MarkerSet)
  PROVE \E g \in [0..Len(log) -> Seq(WriteSet)] : WritesOfSteps(g, log)
<1> DEFINE N == Len(log)
           step == [n \in 1..N |-> [t \in Seq(WriteSet) |-> t \o log[n].writes]]
           next(f, n) == f[n - 1] \o log[n].writes
           body(f) == [n \in 0..N |-> IF n = 0 THEN <<>> ELSE next(f, n)]
           all == CHOOSE f : f = body(f)
<1>1. N \in Nat /\ \A n \in 1..N : log[n].writes \in Seq(WriteSet)
  <2>1. \A n \in 1..N : log[n] \in MarkerSet
    BY ElementOfSeq
  <2> QED
    BY <2>1 DEF MarkerSet
<1>2. step \in [1..N -> [Seq(WriteSet) -> Seq(WriteSet)]] /\ <<>> \in Seq(WriteSet)
  <2> HIDE DEF N
  <2>1. \A n \in 1..N, t \in Seq(WriteSet) : t \o log[n].writes \in Seq(WriteSet)
    BY <1>1, ConcatProperties
  <2> QED
    BY <2>1
<1>3. \A n \in 1..N : \A f : f[n - 1] \in Seq(WriteSet) => step[n][f[n - 1]] = next(f, n)
  OBVIOUS
<1>4. WritesOf(log) = all[N]
  BY DEF WritesOf
<1> HIDE DEF N, step, next
<1>5. PICK g \in [0..N -> Seq(WriteSet)] : g[0] = <<>> /\ \A n \in 1..N : g[n] = step[n][g[n - 1]]
  <2> HIDE DEF all, body
  <2>1. Iterates(Seq(WriteSet), <<>>, N, step)
    BY <1>1, <1>2, Iteration
  <2> QED
    BY <2>1 DEF Iterates
<1>6. \A n \in 1..N : n \in 0..N /\ n - 1 \in 0..N /\ n # 0
  BY <1>1
<1>7. \A n \in 1..N : g[n] = next(g, n)
  BY <1>3, <1>5, <1>6
<1>8. g = body(g)
  <2>1. \A n \in 0..N : n = 0 \/ n \in 1..N
    BY <1>1
  <2>2. \A n \in 0..N : g[n] = IF n = 0 THEN <<>> ELSE next(g, n)
    BY <1>5, <1>7, <2>1
  <2> QED
    BY <2>2
<1>9. all = body(all)
  BY <1>8
<1> HIDE DEF all
<1>10. 0 \in 0..N
  BY <1>1
<1>11. all[0] = <<>> /\ \A n \in 1..N : all[n] = next(all, n)
  BY <1>6, <1>9, <1>10
<1>12. all = g
  <2>1. \A n \in 1..N : all[n - 1] = g[n - 1] => all[n] = g[n]
    BY <1>7, <1>11 DEF next
  <2>2. all = [n \in 0..N |-> all[n]] /\ g = [n \in 0..N |-> g[n]]
    BY <1>9
  <2> HIDE DEF body
  <2>3. Agree(all, g, N)
    BY <1>5, <1>11, <2>1, <2>2 DEF Agree
  <2> QED
    BY <1>1, <2>3, SameIteration
<1> QED
  BY <1>4, <1>5, <1>7, <1>12 DEF next, N, WritesOfSteps

MemSet == [Files -> [st : Statuses, revs : Seq(WriteSet)]]

LEMMA AppliedType ==
  ASSUME NEW store \in MemSet, NEW w \in WriteSet
  PROVE  /\ Applied(store, w) \in MemSet
         /\ Applied(store, w)[w.file] = Became(store[w.file], w)
         /\ \A f \in Files \ {w.file} : Applied(store, w)[f] = store[f]
<1> DEFINE old == store[w.file]
<1>1. /\ w.file \in Files /\ w.op \in Ops /\ <<w>> \in Seq(WriteSet) /\ <<>> \in Seq(WriteSet)
      /\ Append(<<>>, w) \in Seq(WriteSet)
  BY DEF WriteSet
<1>2. old.st \in Statuses /\ old.revs \in Seq(WriteSet) /\ Append(old.revs, w) \in Seq(WriteSet)
  BY <1>1 DEF MemSet
<1>3. store = [f \in Files |-> store[f]]
  BY DEF MemSet
<1>4. Became(old, w) \in [st : Statuses, revs : Seq(WriteSet)]
  <2> HIDE DEF old
  <2>1. CASE w.op \in {"live", "end"} \cup Creates
    BY <1>1, <2>1 DEF Became, Statuses, Creates
  <2>2. CASE w.op = "base"
    BY <1>1, <1>2, <2>2 DEF Became, Creates
  <2>3. CASE w.op = "delta"
    BY <1>1, <1>2, <2>3 DEF Became, Creates
  <2>4. CASE w.op = "retire"
    BY <1>1, <1>2, <2>4 DEF Became, Statuses, Creates
  <2> QED
    BY <1>1, <2>1, <2>2, <2>3, <2>4 DEF Ops, Stored
<1> QED
  BY <1>1, <1>3, <1>4 DEF MemSet, Applied

ReplaySteps(g, store, writes) ==
  /\ g[0] = store /\ g[Len(writes)] = Replay(store, writes)
  /\ \A n \in 1..Len(writes) : g[n] = Applied(g[n - 1], writes[n])

LEMMA ReplayRecursion ==
  ASSUME NEW store \in MemSet, NEW writes \in Seq(WriteSet)
  PROVE \E g \in [0..Len(writes) -> MemSet] : ReplaySteps(g, store, writes)
<1> DEFINE N == Len(writes)
           step == [n \in 1..N |-> [m \in MemSet |-> Applied(m, writes[n])]]
           next(f, n) == Applied(f[n - 1], writes[n])
           body(f) == [n \in 0..N |-> IF n = 0 THEN store ELSE next(f, n)]
           after == CHOOSE f : f = body(f)
<1>1. N \in Nat /\ \A n \in 1..N : writes[n] \in WriteSet
  OBVIOUS
<1>2. step \in [1..N -> [MemSet -> MemSet]]
  <2>1. \A n \in 1..N, m \in MemSet : Applied(m, writes[n]) \in MemSet
    BY <1>1, AppliedType
  <2> QED
    BY <2>1
<1>3. \A n \in 1..N : \A f : f[n - 1] \in MemSet => step[n][f[n - 1]] = next(f, n)
  OBVIOUS
<1>4. Replay(store, writes) = after[N]
  BY DEF Replay
<1> HIDE DEF N, step, next
<1>5. PICK g \in [0..N -> MemSet] : g[0] = store /\ \A n \in 1..N : g[n] = step[n][g[n - 1]]
  <2> HIDE DEF after, body
  <2>1. Iterates(MemSet, store, N, step)
    BY <1>1, <1>2, Iteration
  <2> QED
    BY <2>1 DEF Iterates
<1>6. \A n \in 1..N : n \in 0..N /\ n - 1 \in 0..N /\ n # 0
  BY <1>1
<1>7. \A n \in 1..N : g[n] = next(g, n)
  BY <1>3, <1>5, <1>6
<1>8. g = body(g)
  <2>1. \A n \in 0..N : n = 0 \/ n \in 1..N
    BY <1>1
  <2>2. \A n \in 0..N : g[n] = IF n = 0 THEN store ELSE next(g, n)
    BY <1>5, <1>7, <2>1
  <2> QED
    BY <2>2
<1>9. after = body(after)
  BY <1>8
<1> HIDE DEF after
<1>10. 0 \in 0..N
  BY <1>1
<1>11. after[0] = store /\ \A n \in 1..N : after[n] = next(after, n)
  BY <1>6, <1>9, <1>10
<1>12. after = g
  <2>1. \A n \in 1..N : after[n - 1] = g[n - 1] => after[n] = g[n]
    BY <1>7, <1>11 DEF next
  <2>2. after = [n \in 0..N |-> after[n]] /\ g = [n \in 0..N |-> g[n]]
    BY <1>9
  <2> HIDE DEF body
  <2>3. Agree(after, g, N)
    BY <1>5, <1>11, <2>1, <2>2 DEF Agree
  <2> QED
    BY <1>1, <2>3, SameIteration
<1> QED
  BY <1>4, <1>5, <1>7, <1>12 DEF next, N, ReplaySteps

(* Where the elements of a selection come from.                            *)
Selects(at, t, s, set, n) ==
  /\ at \in [1..Len(t) -> 1..n]
  /\ \A i \in 1..Len(t) : t[i] = s[at[i]] /\ s[at[i]] \in set
  /\ \A i, j \in 1..Len(t) : i < j => at[i] < at[j]
  /\ \A k \in 1..n : s[k] \in set => \E i \in 1..Len(t) : at[i] = k

LEMMA OnlySelects ==
  ASSUME NEW T, NEW s \in Seq(T), NEW set
  PROVE /\ Only(s, set) \in Seq(T)
        /\ \E at : Selects(at, Only(s, set), s, set, Len(s))
<1>1. PICK g \in [0..Len(s) -> Seq(T)] : OnlySteps(g, s, set)
  BY OnlyRecursion
<1> USE DEF OnlySteps
<1> DEFINE S == {n \in 0..Len(s) : \E at : Selects(at, g[n], s, set, n)}
<1>2. Len(s) \in Nat
  OBVIOUS
<1>3. 0 \in S
  <2>1. Selects([i \in 1..0 |-> 0], <<>>, s, set, 0)
    BY DEF Selects
  <2> QED
    BY <1>1, <1>2, <2>1
<1>4. ASSUME NEW n \in 1..Len(s), n - 1 \in S PROVE n \in S
  <2>1. PICK at : Selects(at, g[n - 1], s, set, n - 1)
    BY <1>4
  <2>2. g[n - 1] \in Seq(T) /\ n \in 0..Len(s) /\ s[n] \in T /\ n - 1 \in Nat
    BY <1>1
  <2>3. CASE s[n] \notin set
    <3>1. Selects(at, g[n - 1], s, set, n)
      <4>1. \A k \in 1..n : k \in 1..n - 1 \/ k = n
        OBVIOUS
      <4>2. \A k \in 1..n - 1 : k \in 1..n
        OBVIOUS
      <4> QED
        BY <2>1, <2>3, <4>1, <4>2 DEF Selects
    <3> QED
      BY <1>1, <2>2, <2>3, <3>1
  <2>4. CASE s[n] \in set
    <3> DEFINE L == Len(g[n - 1])
               t == Append(g[n - 1], s[n])
               to == [i \in 1..L + 1 |-> IF i = L + 1 THEN n ELSE at[i]]
    <3>1. L \in Nat /\ Len(t) = L + 1 /\ t[L + 1] = s[n] /\ \A i \in 1..L : t[i] = g[n - 1][i]
      BY <2>2
    <3>2. /\ at \in [1..L -> 1..n - 1]
          /\ \A i \in 1..L : g[n - 1][i] = s[at[i]] /\ s[at[i]] \in set
          /\ \A i, j \in 1..L : i < j => at[i] < at[j]
          /\ \A k \in 1..n - 1 : s[k] \in set => \E i \in 1..L : at[i] = k
      BY <2>1 DEF Selects
    <3> HIDE DEF L, t
    <3>3. to[L + 1] = n /\ \A i \in 1..L : to[i] = at[i] /\ at[i] \in 1..n - 1
      <4>1. L + 1 \in 1..L + 1 /\ \A i \in 1..L : i \in 1..L + 1 /\ i # L + 1
        BY <3>1
      <4> QED
        BY <3>2, <4>1
    <3>4. to \in [1..Len(t) -> 1..n]
      BY <2>2, <3>1, <3>2
    <3>5. \A i \in 1..L + 1 : i \in 1..L \/ i = L + 1
      BY <3>1
    <3> HIDE DEF to
    <3>6. \A i \in 1..Len(t) : t[i] = s[to[i]] /\ s[to[i]] \in set
      BY <2>4, <3>1, <3>2, <3>3, <3>5
    <3>7. \A i, j \in 1..Len(t) : i < j => to[i] < to[j]
      BY <2>2, <3>1, <3>2, <3>3, <3>5
    <3>8. \A k \in 1..n : s[k] \in set => \E i \in 1..Len(t) : to[i] = k
      <4>1. \A k \in 1..n : k \in 1..n - 1 \/ k = n
        BY <2>2
      <4>2. L + 1 \in 1..Len(t) /\ \A i \in 1..L : i \in 1..Len(t)
        BY <3>1
      <4> QED
        BY <3>2, <3>3, <4>1, <4>2
    <3>9. Selects(to, t, s, set, n)
      BY <3>4, <3>6, <3>7, <3>8 DEF Selects
    <3> QED
      BY <1>1, <2>2, <2>4, <3>9 DEF t
  <2> QED
    BY <2>3, <2>4
<1>5. Len(s) \in S
  <2> HIDE DEF S
  <2>1. \A n \in 0..Len(s) : n \in S
    BY <1>2, <1>3, <1>4, UpTo
  <2> QED
    BY <1>2, <2>1
<1> QED
  BY <1>1, <1>2, <1>5

Sorted(lines) == \A i, j \in 1..Len(lines) : i < j => Before(lines[i], lines[j])

LEMMA OnlyFacts ==
  ASSUME NEW T, NEW s \in Seq(T), NEW set
  PROVE /\ ToSet(Only(s, set)) = ToSet(s) \cap set
        /\ Sorted(s) => Sorted(Only(s, set))
<1> DEFINE t == Only(s, set)
<1>1. PICK at : Selects(at, t, s, set, Len(s))
  BY OnlySelects
<1>2. t \in Seq(T)
  BY OnlySelects
<1> HIDE DEF t
<1>3. DOMAIN t = 1..Len(t) /\ DOMAIN s = 1..Len(s)
  BY <1>2
<1>4. ToSet(t) = ToSet(s) \cap set
  BY <1>1, <1>3 DEF Selects, ToSet
<1>5. Sorted(s) => Sorted(t)
  BY <1>1 DEF Selects, Sorted
<1> QED
  BY <1>4, <1>5 DEF t

(* Where the writes of a log come from.                                    *)
Gathers(mk, ix, t, log, n) ==
  /\ mk \in [1..Len(t) -> 1..n] /\ ix \in [1..Len(t) -> Nat]
  /\ \A i \in 1..Len(t) :
       ix[i] \in 1..Len(log[mk[i]].writes) /\ t[i] = log[mk[i]].writes[ix[i]]
  /\ \A i, j \in 1..Len(t) : i < j => mk[i] < mk[j] \/ (mk[i] = mk[j] /\ ix[i] < ix[j])
  /\ \A k \in 1..n : \A j \in 1..Len(log[k].writes) :
       \E i \in 1..Len(t) : mk[i] = k /\ ix[i] = j

LEMMA WritesOfGathers ==
  ASSUME NEW log \in Seq(MarkerSet)
  PROVE /\ WritesOf(log) \in Seq(WriteSet)
        /\ \E mk, ix : Gathers(mk, ix, WritesOf(log), log, Len(log))
<1>1. PICK g \in [0..Len(log) -> Seq(WriteSet)] : WritesOfSteps(g, log)
  BY WritesOfRecursion
<1> USE DEF WritesOfSteps
<1> DEFINE S == {n \in 0..Len(log) : \E mk, ix : Gathers(mk, ix, g[n], log, n)}
<1>2. Len(log) \in Nat
  OBVIOUS
<1>3. 0 \in S
  <2>1. Gathers([i \in 1..0 |-> 0], [i \in 1..0 |-> 0], <<>>, log, 0)
    BY DEF Gathers
  <2> QED
    BY <1>1, <1>2, <2>1
<1>4. ASSUME NEW n \in 1..Len(log), n - 1 \in S PROVE n \in S
  <2>1. PICK mk, ix : Gathers(mk, ix, g[n - 1], log, n - 1)
    BY <1>4
  <2> DEFINE u == g[n - 1]
             v == log[n].writes
             t == u \o v
             L == Len(u)
             mk2 == [i \in 1..L + Len(v) |-> IF i <= L THEN mk[i] ELSE n]
             ix2 == [i \in 1..L + Len(v) |-> IF i <= L THEN ix[i] ELSE i - L]
  <2>2. u \in Seq(WriteSet) /\ v \in Seq(WriteSet) /\ n \in 0..Len(log) /\ n - 1 \in Nat
    <3>1. log[n] \in MarkerSet
      BY ElementOfSeq
    <3>2. v \in Seq(WriteSet)
      BY <3>1 DEF MarkerSet
    <3>3. n \in 0..Len(log) /\ n - 1 \in Nat /\ n - 1 \in 0..Len(log)
      OBVIOUS
    <3>4. u \in Seq(WriteSet)
      BY <3>3
    <3> QED
      BY <3>2, <3>3, <3>4
  <2>3. /\ L \in Nat /\ Len(v) \in Nat /\ Len(t) = L + Len(v)
        /\ \A i \in 1..L + Len(v) : t[i] = IF i <= L THEN u[i] ELSE v[i - L]
    BY <2>2, ConcatProperties
  <2>4. /\ mk \in [1..L -> 1..n - 1] /\ ix \in [1..L -> Nat]
        /\ \A i \in 1..L : ix[i] \in 1..Len(log[mk[i]].writes) /\ u[i] = log[mk[i]].writes[ix[i]]
        /\ \A i, j \in 1..L : i < j => mk[i] < mk[j] \/ (mk[i] = mk[j] /\ ix[i] < ix[j])
        /\ \A k \in 1..n - 1 : \A j \in 1..Len(log[k].writes) :
             \E i \in 1..L : mk[i] = k /\ ix[i] = j
    BY <2>1 DEF Gathers
  <2>5. g[n] = t
    BY <1>1
  <2> HIDE DEF L, t, u
  <2>6. \A i \in 1..L + Len(v) :
           \/ i \in 1..L /\ mk2[i] = mk[i] /\ ix2[i] = ix[i] /\ mk[i] \in 1..n - 1 /\ ix[i] \in Nat /\ t[i] = u[i]
           \/ i \notin 1..L /\ i - L \in 1..Len(v) /\ mk2[i] = n /\ ix2[i] = i - L /\ t[i] = v[i - L]
    <3> TAKE i \in 1..L + Len(v)
    <3>1. CASE i <= L
      <4>1. i \in 1..L
        BY <2>3, <3>1
      <4> QED
        BY <2>3, <2>4, <3>1, <4>1
    <3>2. CASE ~(i <= L)
      <4>1. i \notin 1..L /\ i - L \in 1..Len(v)
        BY <2>3, <3>2
      <4> QED
        BY <2>3, <3>2, <4>1
    <3> QED
      BY <3>1, <3>2
  <2>7. mk2 \in [1..Len(t) -> 1..n] /\ ix2 \in [1..Len(t) -> Nat]
    <3>1. \A k \in 1..n - 1 : k \in 1..n
      BY <2>2
    <3>2. n \in 1..n /\ \A k \in 1..Len(v) : k \in Nat
      BY <2>2, <2>3
    <3>3. \A i \in 1..L + Len(v) : mk2[i] \in 1..n /\ ix2[i] \in Nat
      BY <2>6, <3>1, <3>2
    <3> QED
      BY <2>3, <3>3
  <2> HIDE DEF mk2, ix2
  <2>8. \A i \in 1..Len(t) :
           ix2[i] \in 1..Len(log[mk2[i]].writes) /\ t[i] = log[mk2[i]].writes[ix2[i]]
    <3> TAKE i \in 1..Len(t)
    <3>1. CASE i \in 1..L
      BY <2>3, <2>4, <2>6, <3>1
    <3>2. CASE i \notin 1..L
      BY <2>3, <2>6, <3>2
    <3> QED
      BY <3>1, <3>2
  <2>9. \A i, j \in 1..Len(t) : i < j => mk2[i] < mk2[j] \/ (mk2[i] = mk2[j] /\ ix2[i] < ix2[j])
    <3> TAKE i, j \in 1..Len(t)
    <3>1. CASE i \in 1..L /\ j \in 1..L
      BY <2>3, <2>4, <2>6, <3>1
    <3>2. CASE i \in 1..L /\ j \notin 1..L
      <4>1. mk2[i] \in 1..n - 1 /\ mk2[j] = n
        BY <2>3, <2>6, <3>2
      <4>2. mk2[i] < n
        BY <2>2, <4>1
      <4> QED
        BY <4>1, <4>2
    <3>3. CASE i \notin 1..L
      BY <2>2, <2>3, <2>6, <3>3
    <3> QED
      BY <3>1, <3>2, <3>3
  <2>10. \A k \in 1..n : \A j \in 1..Len(log[k].writes) : \E i \in 1..Len(t) : mk2[i] = k /\ ix2[i] = j
    <3> TAKE k \in 1..n
    <3> TAKE j \in 1..Len(log[k].writes)
    <3>1. CASE k = n
      <4>1. L + j \in 1..L + Len(v) /\ ~(L + j <= L) /\ L + j - L = j
        BY <2>3, <3>1
      <4> QED
        BY <2>3, <3>1, <4>1 DEF mk2, ix2
    <3>2. CASE k # n
      <4>1. k \in 1..n - 1
        BY <2>2, <3>2
      <4>2. PICK i \in 1..L : mk[i] = k /\ ix[i] = j
        BY <2>4, <4>1
      <4>3. i \in 1..L + Len(v)
        BY <2>3
      <4> QED
        BY <2>3, <2>6, <4>2, <4>3
    <3> QED
      BY <3>1, <3>2
  <2>11. Gathers(mk2, ix2, t, log, n)
    BY <2>7, <2>8, <2>9, <2>10 DEF Gathers
  <2> QED
    BY <2>2, <2>5, <2>11
<1>5. Len(log) \in S
  <2> HIDE DEF S
  <2>1. \A n \in 0..Len(log) : n \in S
    BY <1>2, <1>3, <1>4, UpTo
  <2> QED
    BY <1>2, <2>1
<1> QED
  BY <1>1, <1>2, <1>5

-----------------------------------------------------------------------------
(* The writes of a log *)

WritesIn(log) == UNION {ToSet(log[k].writes) : k \in 1..Len(log)}
Of(log, f) == {w \in WritesIn(log) : w.file = f}
StoredIn(log, f) == {w \in Of(log, f) : w.op \in Stored}
Current(log, f) == \E w \in Of(log, f) : w.op = "createLatest"

(* The writes of a marker have its number and its records ordinals in      *)
(* their order, and no task is written after its end.                      *)
EndsLast(v, w) == v.op = "end" /\ v.file \in Tasks => w.file # v.file

MarkerOK(m) ==
  /\ m \in MarkerSet
  /\ \A j \in 1..Len(m.writes) : m.writes[j].seq = m.seq
  /\ \A i, j \in 1..Len(m.writes) : i < j =>
       /\ m.writes[i].op \in Stored /\ m.writes[j].op \in Stored => m.writes[i].ord < m.writes[j].ord
       /\ EndsLast(m.writes[i], m.writes[j])

LogOK(log) ==
  /\ log \in Seq(MarkerSet) /\ InOrder(log)
  /\ \A k \in 1..Len(log) : MarkerOK(log[k])
  /\ \A i, k \in 1..Len(log) : i < k =>
       \A v \in ToSet(log[i].writes), w \in ToSet(log[k].writes) : EndsLast(v, w)

LEMMA InSeq ==
  ASSUME NEW T, NEW s \in Seq(T)
  PROVE /\ \A x : x \in ToSet(s) <=> \E i \in 1..Len(s) : x = s[i]
        /\ \A i \in 1..Len(s) : s[i] \in T
        /\ DOMAIN s = 1..Len(s) /\ Len(s) \in Nat
BY DEF ToSet

LEMMA ListedSet ==
  ASSUME NEW log \in Seq(MarkerSet)
  PROVE /\ WritesOf(log) \in Seq(WriteSet)
        /\ ToSet(WritesOf(log)) = WritesIn(log)
        /\ WritesIn(log) \subseteq WriteSet
<1> DEFINE s == WritesOf(log)
<1>1. PICK mk, ix : Gathers(mk, ix, s, log, Len(log))
  BY WritesOfGathers
<1>2. s \in Seq(WriteSet)
  BY WritesOfGathers
<1> HIDE DEF s
<1>3. \A k \in 1..Len(log) : log[k].writes \in Seq(WriteSet)
  <2>1. \A k \in 1..Len(log) : log[k] \in MarkerSet
    BY InSeq
  <2> QED
    BY <2>1 DEF MarkerSet
<1>4. \A k \in 1..Len(log) : \A x : x \in ToSet(log[k].writes) <=> \E j \in 1..Len(log[k].writes) : x = log[k].writes[j]
  BY <1>3, InSeq
<1>5. \A x : x \in ToSet(s) <=> \E i \in 1..Len(s) : x = s[i]
  BY <1>2, InSeq
<1>6. ASSUME NEW x \in ToSet(s) PROVE x \in WritesIn(log)
  <2>1. PICK i \in 1..Len(s) : x = s[i]
    BY <1>5
  <2>2. mk[i] \in 1..Len(log) /\ ix[i] \in 1..Len(log[mk[i]].writes) /\ x = log[mk[i]].writes[ix[i]]
    BY <1>1, <2>1 DEF Gathers
  <2> QED
    BY <1>4, <2>2 DEF WritesIn
<1>7. ASSUME NEW x \in WritesIn(log) PROVE x \in ToSet(s)
  <2>1. PICK k \in 1..Len(log) : x \in ToSet(log[k].writes)
    BY DEF WritesIn
  <2>2. PICK j \in 1..Len(log[k].writes) : x = log[k].writes[j]
    BY <1>4, <2>1
  <2>3. PICK i \in 1..Len(s) : mk[i] = k /\ ix[i] = j
    BY <1>1 DEF Gathers
  <2>4. s[i] = x
    BY <1>1, <2>2, <2>3 DEF Gathers
  <2> QED
    BY <1>5, <2>4
<1>8. ToSet(s) \subseteq WriteSet
  BY <1>2, InSeq
<1> QED
  BY <1>2, <1>6, <1>7, <1>8 DEF s

LEMMA ListedOrder ==
  ASSUME NEW log, LogOK(log)
  PROVE \A i, j \in 1..Len(WritesOf(log)) : i < j =>
          LET v == WritesOf(log)[i] w == WritesOf(log)[j]
          IN  (v.op \in Stored /\ w.op \in Stored => Before(v, w)) /\ EndsLast(v, w)
<1> DEFINE s == WritesOf(log)
<1>1. log \in Seq(MarkerSet)
  BY DEF LogOK
<1>2. PICK mk, ix : Gathers(mk, ix, s, log, Len(log))
  BY <1>1, WritesOfGathers
<1> HIDE DEF s
<1> SUFFICES ASSUME NEW i \in 1..Len(s), NEW j \in 1..Len(s), i < j
             PROVE (s[i].op \in Stored /\ s[j].op \in Stored => Before(s[i], s[j])) /\ EndsLast(s[i], s[j])
  BY DEF s
<1>3. /\ mk[i] \in 1..Len(log) /\ ix[i] \in 1..Len(log[mk[i]].writes) /\ s[i] = log[mk[i]].writes[ix[i]]
      /\ mk[j] \in 1..Len(log) /\ ix[j] \in 1..Len(log[mk[j]].writes) /\ s[j] = log[mk[j]].writes[ix[j]]
      /\ mk[i] < mk[j] \/ (mk[i] = mk[j] /\ ix[i] < ix[j])
  BY <1>2 DEF Gathers
<1>4. MarkerOK(log[mk[i]]) /\ MarkerOK(log[mk[j]])
  BY <1>3 DEF LogOK
<1>5. s[i].seq = log[mk[i]].seq /\ s[j].seq = log[mk[j]].seq
  BY <1>3, <1>4 DEF MarkerOK
<1>6. CASE mk[i] < mk[j]
  <2>1. log[mk[i]].seq < log[mk[j]].seq
    BY <1>3, <1>6 DEF LogOK, InOrder
  <2>2. s[i] \in ToSet(log[mk[i]].writes) /\ s[j] \in ToSet(log[mk[j]].writes)
    <3>1. log[mk[i]].writes \in Seq(WriteSet) /\ log[mk[j]].writes \in Seq(WriteSet)
      BY <1>4 DEF MarkerOK, MarkerSet
    <3> QED
      BY <1>3, <3>1, InSeq
  <2> QED
    BY <1>3, <1>5, <1>6, <2>1, <2>2 DEF Before, LogOK
<1>7. CASE mk[i] = mk[j] /\ ix[i] < ix[j]
  BY <1>3, <1>4, <1>5, <1>7 DEF Before, MarkerOK
<1> QED
  BY <1>3, <1>6, <1>7

(* A record is known by its number and ordinal.                            *)
LEMMA Keys ==
  ASSUME NEW log, LogOK(log), NEW v \in WritesIn(log), NEW w \in WritesIn(log),
         v.op \in Stored, w.op \in Stored
  PROVE v = w \/ Before(v, w) \/ Before(w, v)
<1> DEFINE s == WritesOf(log)
<1>1. s \in Seq(WriteSet) /\ ToSet(s) = WritesIn(log)
  BY ListedSet DEF LogOK
<1>2. PICK i \in 1..Len(s) : v = s[i]
  BY <1>1, InSeq
<1>3. PICK j \in 1..Len(s) : w = s[j]
  BY <1>1, InSeq
<1>4. \A a, b \in 1..Len(s) : a < b => (s[a].op \in Stored /\ s[b].op \in Stored => Before(s[a], s[b]))
  BY ListedOrder
<1>5. i < j \/ i = j \/ j < i
  OBVIOUS
<1> HIDE DEF s
<1> QED
  BY <1>2, <1>3, <1>4, <1>5

LEMMA SameKey ==
  ASSUME NEW log, LogOK(log), NEW v \in WritesIn(log), NEW w \in WritesIn(log),
         v.op \in Stored, w.op \in Stored, v.seq = w.seq, v.ord = w.ord
  PROVE v = w
<1>1. v \in WriteSet /\ w \in WriteSet
  BY ListedSet DEF LogOK
<1>2. ~Before(v, w) /\ ~Before(w, v)
  BY <1>1 DEF Before, WriteSet
<1> QED
  BY <1>2, Keys

(* Of the writes with some property one is the last.                       *)
LEMMA Greatest ==
  ASSUME NEW n \in Nat, NEW S \in SUBSET (1..n), S # {}
  PROVE \E m \in S : \A k \in S : k <= m
<1> DEFINE T == {n - k : k \in S}
<1>1. T \in SUBSET Nat /\ T # {}
  <2>1. \A k \in S : n - k \in Nat
    OBVIOUS
  <2>2. PICK k \in S : TRUE
    OBVIOUS
  <2>3. n - k \in T
    OBVIOUS
  <2> QED
    BY <2>1, <2>3
<1>2. PICK m \in T : \A k \in T : m <= k
  <2> HIDE DEF T
  <2> QED
    BY <1>1, Least, Zenon
<1>3. PICK i \in S : m = n - i
  BY <1>2
<1>4. \A k \in S : n - i <= n - k
  BY <1>2, <1>3
<1> QED
  BY <1>3, <1>4

LEMMA LastStored ==
  ASSUME NEW log, LogOK(log), NEW S \in SUBSET WritesIn(log), S # {},
         \A w \in S : w.op \in Stored
  PROVE \E w \in S : \A v \in S : v = w \/ Before(v, w)
<1> DEFINE s == WritesOf(log)
           at == {i \in 1..Len(s) : s[i] \in S}
<1>1. s \in Seq(WriteSet) /\ ToSet(s) = WritesIn(log)
  BY ListedSet DEF LogOK
<1>2. \A w \in S : \E i \in at : w = s[i]
  <2> TAKE w \in S
  <2>1. PICK i \in 1..Len(s) : w = s[i]
    BY <1>1, InSeq
  <2> QED
    BY <2>1
<1>3. Len(s) \in Nat
  BY <1>1
<1>4. PICK m \in at : \A k \in at : k <= m
  <2>1. at \in SUBSET (1..Len(s)) /\ at # {}
    BY <1>2
  <2> HIDE DEF at, s
  <2> QED
    BY <1>3, <2>1, Greatest
<1>5. \A a, b \in 1..Len(s) : a < b => (s[a].op \in Stored /\ s[b].op \in Stored => Before(s[a], s[b]))
  BY ListedOrder
<1>6. ASSUME NEW v \in S PROVE v = s[m] \/ Before(v, s[m])
  <2>1. PICK i \in at : v = s[i]
    BY <1>2
  <2>2. i <= m /\ i \in 1..Len(s) /\ m \in 1..Len(s) /\ s[i] \in S /\ s[m] \in S
    BY <1>4, <2>1
  <2>3. i < m \/ i = m
    BY <1>3, <2>2
  <2> HIDE DEF s
  <2> QED
    BY <1>5, <2>1, <2>2, <2>3
<1> QED
  BY <1>4, <1>6

-----------------------------------------------------------------------------
(* The records that a file must and may have *)

EndedIn(log, f) == f \in Tasks /\ \E e \in Of(log, f) : e.op = "end"
RetiredIn(log, f) == Current(log, f) /\ \E r \in Of(log, f) : r.op = "retire"
Covered(log, f, w) ==
  Current(log, f) /\ \E b \in StoredIn(log, f) : b.op \in HasBase /\ Before(w, b)

Needed(log, f) ==
  {w \in StoredIn(log, f) : ~EndedIn(log, f) /\ ~RetiredIn(log, f) /\ ~Covered(log, f, w)}

(* A record that the log does not list is of a commit that was never       *)
(* published, and newer than all that the log lists of the file.           *)
Fits(lines, f, log) ==
  /\ lines \in Seq(WriteSet) /\ Sorted(lines)
  /\ \A r \in ToSet(lines) : r \in StoredIn(log, f) \/ \A w \in StoredIn(log, f) : w.seq < r.seq
  /\ Needed(log, f) \subseteq ToSet(lines)

FilesOK == LogOK(Log) /\ \A f \in Files : Fits(disk[f].lines, f, Log)

-----------------------------------------------------------------------------
(* Recovery, when the log and the files are as they should be *)

LEMMA BeforeOrder ==
  ASSUME NEW u \in WriteSet, NEW v \in WriteSet, NEW w \in WriteSet
  PROVE /\ ~(Before(u, v) /\ Before(v, u)) /\ ~Before(u, u)
        /\ Before(u, v) /\ Before(v, w) => Before(u, w)
<1>1. {u.seq, u.ord, v.seq, v.ord, w.seq, w.ord} \subseteq Nat
  BY DEF WriteSet
<1> QED
  BY <1>1 DEF Before

LEMMA OfTypes ==
  ASSUME NEW log, LogOK(log), NEW f
  PROVE StoredIn(log, f) \subseteq WriteSet /\ Of(log, f) \subseteq WriteSet
<1>1. WritesIn(log) \subseteq WriteSet
  BY ListedSet DEF LogOK
<1> QED
  BY <1>1 DEF StoredIn, Of

(* What is covered is covered by a base that is needed.                    *)
LEMMA LastBase ==
  ASSUME NEW log, LogOK(log), NEW f, NEW w \in StoredIn(log, f),
         ~EndedIn(log, f), ~RetiredIn(log, f), Covered(log, f, w)
  PROVE \E b \in Needed(log, f) : b.op \in HasBase /\ Before(w, b)
<1> DEFINE S == {b \in StoredIn(log, f) : b.op \in HasBase}
<1>1. S \in SUBSET WritesIn(log) /\ S # {} /\ \A b \in S : b.op \in Stored
  BY DEF Covered, StoredIn, Of
<1>2. PICK b \in S : \A v \in S : v = b \/ Before(v, b)
  <2> HIDE DEF S
  <2> QED
    BY <1>1, LastStored
<1>3. StoredIn(log, f) \subseteq WriteSet
  BY OfTypes
<1>4. PICK a \in S : Before(w, a)
  BY DEF Covered
<1>5. Before(w, b)
  <2>1. a = b \/ Before(a, b)
    BY <1>2
  <2>2. a \in WriteSet /\ b \in WriteSet /\ w \in WriteSet
    BY <1>3
  <2> QED
    BY <1>4, <2>1, <2>2, BeforeOrder
<1>6. ASSUME NEW c \in S PROVE ~Before(b, c)
  <2>1. c \in WriteSet /\ b \in WriteSet
    BY <1>3
  <2> QED
    BY <1>2, <2>1, BeforeOrder
<1>7. ~Covered(log, f, b)
  BY <1>6 DEF Covered
<1> QED
  BY <1>5, <1>7 DEF Needed

LEMMA ListedFacts ==
  ASSUME LogOK(Log), NEW f
  PROVE /\ Listed \in Seq(WriteSet) /\ ToSet(Listed) = WritesIn(Log) /\ ListedFor(f) = Of(Log, f)
        /\ CurrentOnly(f) <=> Current(Log, f)
        /\ Superfluous(f) <=> EndedIn(Log, f) \/ RetiredIn(Log, f)
<1>1. Listed = WritesOf(Log)
  BY DEF Listed, Log
<1>2. Listed \in Seq(WriteSet) /\ ToSet(Listed) = WritesIn(Log)
  BY <1>1, ListedSet DEF LogOK
<1>3. ListedFor(f) = Of(Log, f)
  BY <1>2 DEF ListedFor, Of
<1>4. \A i, j \in 1..Len(Listed) : i < j => EndsLast(Listed[i], Listed[j])
  BY <1>1, ListedOrder
<1>5. DOMAIN Listed = 1..Len(Listed) /\ \A x : x \in ToSet(Listed) <=> \E i \in 1..Len(Listed) : x = Listed[i]
  BY <1>2, InSeq
<1> HIDE DEF Listed
<1>6. ASSUME f \in Tasks PROVE Ended(f) <=> \E e \in Of(Log, f) : e.op = "end"
  <2>1. ASSUME Ended(f) PROVE \E e \in Of(Log, f) : e.op = "end"
    BY <1>2, <1>5, <2>1 DEF Ended, Of
  <2>2. ASSUME NEW e \in Of(Log, f), e.op = "end" PROVE Ended(f)
    <3>1. PICK k \in 1..Len(Listed) : e = Listed[k]
      BY <1>2, <1>5 DEF Of
    <3>2. Listed[k].file = f /\ Listed[k].op = "end"
      BY <2>2, <3>1 DEF Of
    <3>3. \A j \in 1..Len(Listed) : j > k => Listed[j].file # f
      BY <1>4, <1>6, <3>2 DEF EndsLast
    <3> QED
      BY <1>5, <3>2, <3>3 DEF Ended
  <2> QED
    BY <2>1, <2>2
<1>7. CurrentOnly(f) <=> Current(Log, f)
  BY <1>3 DEF CurrentOnly, Current
<1>8. Superfluous(f) <=> EndedIn(Log, f) \/ RetiredIn(Log, f)
  BY <1>3, <1>6, <1>7 DEF Superfluous, EndedIn, RetiredIn, Retired
<1> QED
  BY <1>2, <1>3, <1>7, <1>8

(* A write of the log has its own record or none.                          *)
LEMMA OwnRecord ==
  ASSUME FilesOK, NEW f \in Files, NEW w \in StoredIn(Log, f)
  PROVE RecordsOf(w) = {w} \cap ToSet(disk[f].lines)
<1>1. w.file = f /\ w \in WritesIn(Log) /\ w.op \in Stored
  BY DEF StoredIn, Of
<1>2. ASSUME NEW r \in ToSet(disk[f].lines), r.seq = w.seq, r.ord = w.ord PROVE r = w
  <2>1. r \in StoredIn(Log, f) \/ \A v \in StoredIn(Log, f) : v.seq < r.seq
    BY DEF FilesOK, Fits
  <2>2. w \in WriteSet
    BY OfTypes DEF FilesOK
  <2>3. w.seq \in Nat
    BY <2>2 DEF WriteSet
  <2>4. r \in StoredIn(Log, f)
    BY <1>2, <2>1, <2>3
  <2>5. r \in WritesIn(Log) /\ r.op \in Stored
    BY <2>4 DEF StoredIn, Of
  <2> QED
    BY <1>1, <1>2, <2>5, SameKey DEF FilesOK
<1> QED
  BY <1>1, <1>2 DEF RecordsOf

LEMMA OptionalFacts ==
  ASSUME FilesOK, NEW f \in Files, NEW w \in StoredIn(Log, f)
  PROVE /\ w.file = f
        /\ ~Superfluous(f) => (isBeforeLatestBase(w) <=> Covered(Log, f, w))
        /\ w \in Needed(Log, f) <=> ~Optional(w)
<1>1. w.file = f
  BY DEF StoredIn, Of
<1>2. LogOK(Log)
  BY DEF FilesOK
<1>3. CurrentOnly(f) <=> Current(Log, f)
  BY <1>2, ListedFacts
<1>4. Superfluous(f) <=> EndedIn(Log, f) \/ RetiredIn(Log, f)
  BY <1>2, ListedFacts
<1>5. ListedFor(f) = Of(Log, f)
  BY <1>2, ListedFacts
<1>6. HasBase \subseteq Stored
  BY DEF HasBase, Stored
<1>7. Bases(f) \subseteq {b \in StoredIn(Log, f) : b.op \in HasBase}
  BY <1>5, <1>6 DEF Bases, StoredIn
<1>8. isBeforeLatestBase(w) => Covered(Log, f, w)
  BY <1>1, <1>3, <1>7 DEF isBeforeLatestBase, Covered
<1>9. ASSUME ~Superfluous(f), Covered(Log, f, w) PROVE isBeforeLatestBase(w)
  <2>1. PICK b \in Needed(Log, f) : b.op \in HasBase /\ Before(w, b)
    BY <1>2, <1>4, <1>9, LastBase
  <2>2. b \in StoredIn(Log, f) /\ b \in ToSet(disk[f].lines) /\ b.file = f
    BY DEF FilesOK, Fits, Needed, StoredIn, Of
  <2>3. b \in RecordsOf(b)
    BY <2>2, OwnRecord
  <2>4. b \in Bases(f)
    BY <1>5, <2>1, <2>2, <2>3 DEF Bases, StoredIn
  <2> QED
    BY <1>1, <1>3, <1>9, <2>1, <2>4 DEF isBeforeLatestBase, Covered
<1> QED
  BY <1>1, <1>4, <1>8, <1>9 DEF Optional, Needed

LEMMA NotCorrupt ==
  ASSUME FilesOK
  PROVE ~Corrupt
<1>1. LogOK(Log)
  BY DEF FilesOK
<1>2. \A k \in DOMAIN Log : k > 1 => ~(Log[k].seq <= Log[k - 1].seq)
  <2> TAKE k \in DOMAIN Log
  <2>1. k \in 1..Len(Log) /\ Log \in Seq(MarkerSet)
    BY <1>1 DEF LogOK
  <2> HAVE k > 1
  <2>2. k - 1 \in 1..Len(Log) /\ k - 1 < k
    BY <2>1
  <2>3. Log[k] \in MarkerSet /\ Log[k - 1] \in MarkerSet
    BY <2>1, <2>2, InSeq
  <2>4. Log[k - 1].seq < Log[k].seq
    BY <1>1, <2>1, <2>2 DEF LogOK, InOrder
  <2> QED
    BY <2>3, <2>4 DEF MarkerSet
<1>3. ASSUME NEW f \in Files, NEW k \in DOMAIN disk[f].lines, k > 1
      PROVE Before(disk[f].lines[k - 1], disk[f].lines[k])
  <2>1. disk[f].lines \in Seq(WriteSet) /\ Sorted(disk[f].lines)
    BY DEF FilesOK, Fits
  <2>2. k \in 1..Len(disk[f].lines) /\ k - 1 \in 1..Len(disk[f].lines) /\ k - 1 < k
    BY <1>3, <2>1
  <2> QED
    BY <2>1, <2>2 DEF Sorted
<1>4. ToSet(Listed) = WritesIn(Log)
  BY <1>1, ListedFacts
<1>5. ASSUME NEW w \in ToSet(Listed), w.op \in Stored
      PROVE w.file \in Files /\ w \in StoredIn(Log, w.file)
  <2>1. w \in WriteSet
    BY <1>1, <1>4, ListedSet DEF LogOK
  <2> QED
    BY <1>4, <1>5, <2>1 DEF StoredIn, Of, WriteSet
<1>6. ASSUME NEW w \in ToSet(Listed), w.op \in Stored, ~Optional(w)
      PROVE RecordsOf(w) # {}
  <2>1. w.file \in Files /\ w \in StoredIn(Log, w.file)
    BY <1>5, <1>6
  <2>2. w \in Needed(Log, w.file)
    BY <1>6, <2>1, OptionalFacts
  <2>3. w \in ToSet(disk[w.file].lines)
    BY <2>1, <2>2 DEF FilesOK, Fits
  <2> QED
    BY <2>1, <2>3, OwnRecord
<1>7. ASSUME NEW w \in ToSet(Listed), w.op \in Creates, NEW r \in RecordsOf(w)
      PROVE r.op \in HasBase
  <2>1. w.file \in Files /\ w \in StoredIn(Log, w.file)
    BY <1>5, <1>7 DEF Stored
  <2>2. r = w
    BY <2>1, OwnRecord
  <2> QED
    BY <1>7, <2>2 DEF HasBase
<1>8. ASSUME NEW f \in Files, NEW j \in DOMAIN disk[f].lines, NEW k \in DOMAIN disk[f].lines,
             j < k, ~Confirmed(f, disk[f].lines[j]), Confirmed(f, disk[f].lines[k])
      PROVE FALSE
  <2> DEFINE lines == disk[f].lines
  <2>1. Fits(lines, f, Log)
    BY DEF FilesOK
  <2>2. lines \in Seq(WriteSet) /\ Sorted(lines)
    BY <2>1 DEF Fits
  <2>3. j \in 1..Len(lines) /\ k \in 1..Len(lines)
    BY <2>2
  <2> HIDE DEF lines
  <2>4. lines[j] \in ToSet(lines) /\ lines[j] \in WriteSet /\ lines[k] \in WriteSet
    BY <2>2, <2>3, InSeq
  <2>5. Before(lines[j], lines[k])
    BY <1>8, <2>2, <2>3 DEF Sorted
  <2>6. ListedFor(f) = Of(Log, f)
    BY <1>1, ListedFacts
  <2>7. PICK w \in StoredIn(Log, f) : lines[k].seq = w.seq
    BY <1>8, <2>6 DEF Confirmed, StoredIn, lines
  <2>8. lines[j] \notin StoredIn(Log, f)
    BY <1>8, <2>6 DEF Confirmed, StoredIn, lines
  <2>9. w.seq < lines[j].seq
    BY <2>1, <2>4, <2>8 DEF Fits
  <2> QED
    BY <2>4, <2>5, <2>7, <2>9 DEF Before, WriteSet
<1> QED
  BY <1>2, <1>3, <1>6, <1>7, <1>8 DEF Corrupt, Log

LEMMA ConfirmedFacts ==
  ASSUME FilesOK, NEW f \in Files
  PROVE /\ ConfirmedLines(f) \in Seq(WriteSet) /\ Sorted(ConfirmedLines(f))
        /\ ToSet(ConfirmedLines(f)) = ToSet(disk[f].lines) \cap StoredIn(Log, f)
<1> DEFINE lines == disk[f].lines
           set == {r \in ToSet(lines) : Confirmed(f, r)}
<1>1. Fits(lines, f, Log) /\ LogOK(Log)
  BY DEF FilesOK
<1>2. lines \in Seq(WriteSet) /\ Sorted(lines)
  BY <1>1 DEF Fits
<1>3. ListedFor(f) = Of(Log, f)
  BY <1>1, ListedFacts
<1>4. ASSUME NEW r \in ToSet(lines) PROVE Confirmed(f, r) <=> r \in StoredIn(Log, f)
  <2>1. ASSUME NEW w \in StoredIn(Log, f), r.seq = w.seq, r.ord = w.ord PROVE r \in StoredIn(Log, f)
    <3>1. r \in RecordsOf(w)
      BY <2>1 DEF RecordsOf, StoredIn, Of
    <3> QED
      BY <3>1, OwnRecord
  <2> QED
    BY <1>3, <2>1 DEF Confirmed, StoredIn
<1>5. set = ToSet(lines) \cap StoredIn(Log, f)
  BY <1>4
<1>6. ConfirmedLines(f) = Only(lines, set)
  BY DEF ConfirmedLines
<1> HIDE DEF lines, set
<1>7. Only(lines, set) \in Seq(WriteSet) /\ Sorted(Only(lines, set)) /\ ToSet(Only(lines, set)) = ToSet(lines) \cap set
  BY <1>2, OnlySelects, OnlyFacts
<1> QED
  BY <1>5, <1>6, <1>7 DEF lines

LEMMA RetainedFacts ==
  ASSUME FilesOK, NEW f \in Files
  PROVE Fits(Retained(f), f, Log) /\ ToSet(Retained(f)) \subseteq StoredIn(Log, f)
<1>1. LogOK(Log) /\ Needed(Log, f) \subseteq ToSet(disk[f].lines)
  BY DEF FilesOK, Fits
<1>2. Superfluous(f) <=> EndedIn(Log, f) \/ RetiredIn(Log, f)
  BY <1>1, ListedFacts
<1>3. CASE Superfluous(f)
  <2>1. Retained(f) = <<>>
    BY <1>3 DEF Retained
  <2>2. ToSet(<<>>) = {} /\ <<>> \in Seq(WriteSet) /\ Sorted(<<>>)
    BY DEF ToSet, Sorted
  <2>3. Needed(Log, f) = {}
    BY <1>2, <1>3 DEF Needed
  <2> QED
    BY <2>1, <2>2, <2>3 DEF Fits
<1>4. CASE ~Superfluous(f)
  <2> DEFINE c == ConfirmedLines(f)
             set == {r \in ToSet(c) : ~isBeforeLatestBase(r)}
  <2>1. Retained(f) = Only(c, set)
    BY <1>4 DEF Retained
  <2>2. c \in Seq(WriteSet) /\ Sorted(c) /\ ToSet(c) = ToSet(disk[f].lines) \cap StoredIn(Log, f)
    BY ConfirmedFacts
  <2>3. \A r \in StoredIn(Log, f) : isBeforeLatestBase(r) <=> Covered(Log, f, r)
    BY <1>4, OptionalFacts
  <2>4. Needed(Log, f) \subseteq set /\ set \subseteq StoredIn(Log, f) /\ set \subseteq ToSet(c)
    BY <1>1, <2>2, <2>3 DEF Needed
  <2> HIDE DEF c, set
  <2>5. /\ Only(c, set) \in Seq(WriteSet) /\ Sorted(Only(c, set))
        /\ ToSet(Only(c, set)) = ToSet(c) \cap set
    BY <2>2, OnlySelects, OnlyFacts
  <2> QED
    BY <2>1, <2>4, <2>5 DEF Fits
<1> QED
  BY <1>3, <1>4

Kept == {w \in ToSet(Listed) : w.op \in {"live", "base", "delta"} => ~Optional(w)}

(* Recovery finds the values of all writes that it replays.                *)
LEMMA ReplayedFacts ==
  ASSUME FilesOK
  PROVE Replayed = Only(Listed, Kept) /\ Only(Listed, Kept) \in Seq(WriteSet)
<1> DEFINE kept == Only(Listed, Kept)
<1>1. LogOK(Log)
  BY DEF FilesOK
<1>2. Listed \in Seq(WriteSet) /\ ToSet(Listed) = WritesIn(Log)
  BY <1>1, ListedFacts
<1>3. kept \in Seq(WriteSet) /\ ToSet(kept) = ToSet(Listed) \cap Kept
  BY <1>2, OnlySelects, OnlyFacts
<1>4. Replayed = [k \in DOMAIN kept |->
                   IF kept[k].op \in Stored /\ ~Optional(kept[k])
                   THEN CHOOSE r \in RecordsOf(kept[k]) : TRUE ELSE kept[k]]
  BY Zenon DEF Replayed, Kept
<1> HIDE DEF kept
<1>5. ASSUME NEW w \in ToSet(kept), w.op \in Stored, ~Optional(w)
      PROVE (CHOOSE r \in RecordsOf(w) : TRUE) = w
  <2>1. w \in WritesIn(Log) /\ w \in WriteSet
    BY <1>1, <1>2, <1>3, ListedSet DEF LogOK
  <2>2. w.file \in Files /\ w \in StoredIn(Log, w.file)
    BY <1>5, <2>1 DEF StoredIn, Of, WriteSet
  <2>3. w \in Needed(Log, w.file)
    BY <1>5, <2>2, OptionalFacts
  <2>4. w \in ToSet(disk[w.file].lines)
    BY <2>2, <2>3 DEF FilesOK, Fits
  <2>5. RecordsOf(w) = {w}
    BY <2>2, <2>4, OwnRecord
  <2> QED
    BY <2>5
<1>6. \A k \in DOMAIN kept : kept[k] \in ToSet(kept)
  BY <1>3, InSeq
<1>7. kept = [k \in DOMAIN kept |-> kept[k]]
  BY <1>3
<1>8. Replayed = kept
  BY <1>4, <1>5, <1>6, <1>7
<1> QED
  BY <1>3, <1>8 DEF kept

-----------------------------------------------------------------------------
(* What memory makes of writes *)

LEMMA ReplayType ==
  ASSUME NEW store \in MemSet, NEW writes \in Seq(WriteSet)
  PROVE Replay(store, writes) \in MemSet
<1>1. PICK g \in [0..Len(writes) -> MemSet] : ReplaySteps(g, store, writes)
  BY ReplayRecursion
<1>2. Len(writes) \in 0..Len(writes)
  OBVIOUS
<1> QED
  BY <1>1, <1>2 DEF ReplaySteps

LEMMA ReplayStep ==
  ASSUME NEW store, NEW writes \in Seq(WriteSet), NEW g \in [0..Len(writes) -> MemSet],
         ReplaySteps(g, store, writes), NEW n \in 1..Len(writes), NEW f \in Files
  PROVE /\ writes[n].file = f => g[n][f] = Became(g[n - 1][f], writes[n])
        /\ writes[n].file # f => g[n][f] = g[n - 1][f]
<1> DEFINE w == writes[n]
           old == g[n - 1]
<1>1. w \in WriteSet /\ old \in MemSet /\ g[n] = Applied(old, w)
  BY DEF ReplaySteps
<1> HIDE DEF w, old
<1>2. /\ Applied(old, w)[w.file] = Became(old[w.file], w)
      /\ \A e \in Files \ {w.file} : Applied(old, w)[e] = old[e]
  BY <1>1, AppliedType
<1> QED
  BY <1>1, <1>2 DEF w, old

(* A write changes what memory has of its file only.                       *)
LEMMA ReplayOthers ==
  ASSUME NEW store \in MemSet, NEW writes \in Seq(WriteSet), NEW f \in Files,
         \A w \in ToSet(writes) : w.file # f
  PROVE Replay(store, writes)[f] = store[f]
<1>1. PICK g \in [0..Len(writes) -> MemSet] : ReplaySteps(g, store, writes)
  BY ReplayRecursion
<1> DEFINE N == Len(writes)
           S == {n \in 0..N : g[n][f] = store[f]}
<1>2. N \in Nat /\ N \in 0..N /\ 0 \in 0..N
  OBVIOUS
<1>3. 0 \in S
  BY <1>1, <1>2 DEF ReplaySteps
<1>4. ASSUME NEW n \in 1..N, n - 1 \in S PROVE n \in S
  <2>1. n \in 0..N /\ n - 1 \in 0..N /\ writes[n] \in WriteSet /\ writes[n] \in ToSet(writes)
    BY InSeq
  <2>4. g[n][f] = g[n - 1][f]
    BY <1>1, <2>1, ReplayStep
  <2> QED
    BY <1>4, <2>1, <2>4
<1>5. N \in S
  <2> HIDE DEF S
  <2>1. \A n \in 0..N : n \in S
    BY <1>2, <1>3, <1>4, UpTo
  <2> QED
    BY <1>2, <2>1
<1> QED
  BY <1>1, <1>5 DEF ReplaySteps

LEMMA ReplayEnd ==
  ASSUME NEW store \in MemSet, NEW writes \in Seq(WriteSet), NEW k \in 1..Len(writes),
         writes[k].op = "end",
         \A j \in 1..Len(writes) : k < j => writes[j].file # writes[k].file
  PROVE Replay(store, writes)[writes[k].file].st = "end"
<1>1. PICK g \in [0..Len(writes) -> MemSet] : ReplaySteps(g, store, writes)
  BY ReplayRecursion
<1> DEFINE N == Len(writes)
           f == writes[k].file
           S == {n \in 0..N : k <= n => g[n][f].st = "end"}
<1>2. N \in Nat /\ N \in 0..N /\ 0 \in 0..N /\ f \in Files /\ ~(k <= 0) /\ k <= N
  <2>1. writes[k] \in WriteSet
    OBVIOUS
  <2>2. f \in Files
    BY <2>1 DEF WriteSet
  <2> HIDE DEF f
  <2> QED
    BY <2>2
<1>3. 0 \in S
  BY <1>2
<1>4. ASSUME NEW n \in 1..N, n - 1 \in S PROVE n \in S
  <2>1. n \in 0..N /\ n - 1 \in 0..N /\ writes[n] \in WriteSet
    BY InSeq
  <2>3. CASE n = k
    <3>1. g[n][f] = Became(g[n - 1][f], writes[n])
      BY <1>1, <1>2, <2>3, ReplayStep
    <3>2. Became(g[n - 1][f], writes[n]).st = "end"
      BY <2>3 DEF Became
    <3> QED
      BY <2>1, <3>1, <3>2
  <2>4. CASE n # k /\ k <= n
    <3>1. k <= n - 1 /\ k < n
      BY <2>4
    <3>2. g[n][f] = g[n - 1][f]
      BY <1>1, <1>2, <3>1, ReplayStep
    <3> QED
      BY <1>4, <2>1, <3>1, <3>2
  <2>5. CASE ~(k <= n)
    BY <2>1, <2>5
  <2> QED
    BY <2>3, <2>4, <2>5
<1>5. N \in S
  <2> HIDE DEF S
  <2>1. \A n \in 0..N : n \in S
    BY <1>2, <1>3, <1>4, UpTo
  <2> QED
    BY <1>2, <2>1
<1> QED
  BY <1>1, <1>2, <1>5 DEF ReplaySteps

LEMMA ReplayCurrent ==
  ASSUME NEW store \in MemSet, NEW writes \in Seq(WriteSet), NEW f \in Files,
         Replay(store, writes)[f].st = "createLatest"
  PROVE \/ store[f].st = "createLatest"
        \/ \E w \in ToSet(writes) : w.file = f /\ w.op = "createLatest"
<1>1. PICK g \in [0..Len(writes) -> MemSet] : ReplaySteps(g, store, writes)
  BY ReplayRecursion
<1> DEFINE N == Len(writes)
           S == {n \in 0..N : g[n][f].st = "createLatest" =>
                   \/ store[f].st = "createLatest"
                   \/ \E w \in ToSet(writes) : w.file = f /\ w.op = "createLatest"}
<1>2. N \in Nat /\ N \in 0..N /\ 0 \in 0..N
  OBVIOUS
<1>3. 0 \in S
  BY <1>1, <1>2 DEF ReplaySteps
<1>4. ASSUME NEW n \in 1..N, n - 1 \in S PROVE n \in S
  <2> DEFINE w == writes[n]
  <2>1. n \in 0..N /\ n - 1 \in 0..N /\ w \in WriteSet /\ w \in ToSet(writes)
    BY InSeq
  <2>3. CASE w.file # f
    <3>1. g[n][f] = g[n - 1][f]
      BY <1>1, <2>3, ReplayStep
    <3> QED
      BY <1>4, <2>1, <3>1
  <2>4. CASE w.file = f
    <3>1. g[n][f] = Became(g[n - 1][f], w)
      BY <1>1, <2>4, ReplayStep
    <3> HIDE DEF w
    <3>2. \/ Became(g[n - 1][f], w).st = g[n - 1][f].st
          \/ Became(g[n - 1][f], w).st = w.op
          \/ Became(g[n - 1][f], w).st = "retired"
      <4>1. w.op \in Ops
        BY <2>1 DEF WriteSet
      <4> QED
        BY <4>1 DEF Became, Ops, Stored, Creates
    <3> QED
      BY <1>4, <2>1, <2>4, <3>1, <3>2
  <2> QED
    BY <2>3, <2>4
<1>5. N \in S
  <2> HIDE DEF S
  <2>1. \A n \in 0..N : n \in S
    BY <1>2, <1>3, <1>4, UpTo
  <2> QED
    BY <1>2, <2>1
<1> QED
  BY <1>1, <1>2, <1>5 DEF ReplaySteps

-----------------------------------------------------------------------------
(* Batches and their records *)

LEMMA RecordsFacts ==
  ASSUME NEW m \in MarkerSet, NEW f
  PROVE /\ Records(m, f) \in Seq(WriteSet)
        /\ ToSet(Records(m, f)) = {w \in ToSet(m.writes) : w.file = f /\ w.op \in Stored}
        /\ MarkerOK(m) => Sorted(Records(m, f))
<1> DEFINE s == m.writes
           set == {w \in ToSet(s) : w.file = f /\ w.op \in Stored}
           t == Only(s, set)
<1>1. s \in Seq(WriteSet) /\ Records(m, f) = t
  BY DEF Records, MarkerSet
<1>2. \A x \in set : x.op \in Stored
  OBVIOUS
<1> HIDE DEF s, set, t
<1>3. t \in Seq(WriteSet) /\ ToSet(t) = ToSet(s) \cap set
  BY <1>1, OnlySelects, OnlyFacts DEF t
<1>4. PICK at : Selects(at, t, s, set, Len(s))
  BY <1>1, OnlySelects DEF t
<1>5. ASSUME MarkerOK(m) PROVE Sorted(t)
  <2> SUFFICES ASSUME NEW i \in 1..Len(t), NEW j \in 1..Len(t), i < j PROVE Before(t[i], t[j])
    BY DEF Sorted
  <2>1. /\ at[i] \in 1..Len(s) /\ at[j] \in 1..Len(s) /\ at[i] < at[j]
        /\ t[i] = s[at[i]] /\ t[j] = s[at[j]] /\ s[at[i]] \in set /\ s[at[j]] \in set
    BY <1>4 DEF Selects
  <2>2. s[at[i]].ord < s[at[j]].ord
    BY <1>2, <1>5, <2>1 DEF MarkerOK, s
  <2>3. s[at[i]].seq = m.seq /\ s[at[j]].seq = m.seq
    BY <1>5, <2>1 DEF MarkerOK, s
  <2> QED
    BY <2>1, <2>2, <2>3 DEF Before
<1>6. ToSet(s) \cap set = set
  BY DEF set
<1> QED
  BY <1>1, <1>3, <1>5, <1>6 DEF s, set

(* A task that has ended is not written, and its end is its last write.    *)
LEMMA BatchEnds ==
  ASSUME NEW n \in Nat, NEW b \in [1..n -> Files \X Ops], NEW f \in Tasks, OpsOn(f, b) \in Legal(f),
         NEW k \in 1..n, b[k][1] = f
  PROVE /\ mem[f].st # "end"
        /\ b[k][2] = "end" => \A j \in 1..n : k < j => b[j][1] # f
<1> DEFINE set == {f} \X Ops
           own == Only(b, set)
           ops == OpsOn(f, b)
<1>1. b \in Seq(Files \X Ops) /\ Len(b) = n
  OBVIOUS
<1>2. own \in Seq(Files \X Ops)
  BY <1>1, OnlySelects
<1>3. PICK at : Selects(at, own, b, set, n)
  BY <1>1, OnlySelects
<1>4. ops = [i \in 1..Len(own) |-> own[i][2]]
  BY <1>2 DEF OpsOn
<1>5. Len(own) \in Nat
  BY <1>2
<1>6. \A j \in 1..n : b[j][1] = f => b[j] \in set
  <2> TAKE j \in 1..n
  <2>1. b[j] \in Files \X Ops
    OBVIOUS
  <2> QED
    BY <2>1
<1> HIDE DEF own, ops, set
<1>7. PICK i \in 1..Len(own) : at[i] = k
  BY <1>3, <1>6 DEF Selects
<1>8. ops[i] = b[k][2]
  BY <1>3, <1>4, <1>7 DEF Selects
<1>9. ops \in Legal(f)
  BY DEF ops
<1>10. mem[f].st # "end"
  <2>1. Legal(f) = IF mem[f].st = "end" THEN {<<>>}
                   ELSE {<<>>, <<"live">>, <<"live", "live">>, <<"end">>, <<"live", "end">>}
    BY DEF Legal
  <2>2. ops # <<>>
    BY <1>4, <1>5, <1>7
  <2> QED
    BY <1>9, <2>1, <2>2
<1>11. ops \in {<<>>, <<"live">>, <<"live", "live">>, <<"end">>, <<"live", "end">>}
  BY <1>9, <1>10 DEF Legal
<1>12. Len(ops) = Len(own) /\ DOMAIN ops = 1..Len(own)
  BY <1>4, <1>5
<1>13. ASSUME b[k][2] = "end", NEW j \in 1..n, k < j, b[j][1] = f PROVE FALSE
  <2>1. PICK l \in 1..Len(own) : at[l] = j
    BY <1>3, <1>6, <1>13 DEF Selects
  <2>2. i < l
    <3>1. l < i => at[l] < at[i]
      BY <1>3 DEF Selects
    <3> QED
      BY <1>5, <1>7, <1>13, <2>1, <3>1
  <2>3. ops[i] = "end"
    BY <1>8, <1>13
  <2>4. CASE ops = <<>>
    BY <1>12, <2>4
  <2>5. CASE ops = <<"live">> \/ ops = <<"end">>
    <3>1. Len(own) = 1
      BY <1>12, <2>5
    <3> QED
      BY <2>2, <3>1
  <2>6. CASE ops = <<"live", "live">> \/ ops = <<"live", "end">>
    <3>1. Len(own) = 2
      BY <1>12, <2>6
    <3>2. i = 1 /\ l = 2
      BY <2>2, <3>1
    <3> QED
      BY <2>3, <2>6, <3>2
  <2> QED
    BY <1>11, <2>4, <2>5, <2>6
<1> QED
  BY <1>10, <1>13

LEMMA NewMarkerOK ==
  ASSUME NEW b \in Batches, NEW seq \in Nat, NEW by \in Nat
  PROVE /\ MarkerOK(Marker(seq, by, b))
        /\ \A w \in ToSet(Marker(seq, by, b).writes) : w.file \in Tasks => mem[w.file].st # "end"
<1>1. PICK n \in 1..MaxWrites : b \in [1..n -> Files \X Ops]
  BY DEF Batches
<1>2. \A f \in Files : OpsOn(f, b) \in Legal(f)
  BY DEF Batches
<1> DEFINE m == Marker(seq, by, b)
           S(k) == {j \in 1..k - 1 : b[j][2] \in Stored}
           ord(k) == Cardinality(S(k))
           w(k) == [file |-> b[k][1], op |-> b[k][2], seq |-> seq, by |-> by, ord |-> ord(k)]
<1>3. n \in Nat /\ DOMAIN b = 1..n
  BY <1>1, BoundsAssumption
<1>4. m \in MarkerSet /\ m.seq = seq
  BY NewMarker
<1>5. m.writes = [k \in 1..n |-> w(k)]
  BY <1>3 DEF Marker
<1>6. /\ Len(m.writes) = n
      /\ \A k \in 1..n : /\ m.writes[k].file = b[k][1] /\ m.writes[k].op = b[k][2]
                         /\ m.writes[k].seq = seq /\ m.writes[k].ord = ord(k)
  <2> HIDE DEF m, ord
  <2> QED
    BY <1>3, <1>5
<1>7. ASSUME NEW i \in 1..n, NEW j \in 1..n, i < j, b[i][2] \in Stored PROVE ord(i) < ord(j)
  <2>1. IsFiniteSet(1..i - 1) /\ IsFiniteSet(1..j - 1)
    BY <1>3, FS_Interval
  <2>2. IsFiniteSet(S(i)) /\ IsFiniteSet(S(j))
    BY <2>1, FS_Subset
  <2>3. i \notin S(i) /\ S(i) \cup {i} \subseteq S(j)
    BY <1>3, <1>7
  <2> HIDE DEF S
  <2>4. Cardinality(S(i) \cup {i}) = Cardinality(S(i)) + 1 /\ IsFiniteSet(S(i) \cup {i})
    BY <2>2, <2>3, FS_AddElement
  <2>5. Cardinality(S(i) \cup {i}) <= Cardinality(S(j))
    BY <2>2, <2>3, FS_Subset
  <2>6. Cardinality(S(i)) \in Nat /\ Cardinality(S(j)) \in Nat
    BY <2>2, FS_CardinalityType
  <2> QED
    BY <2>4, <2>5, <2>6
<1> HIDE DEF ord, m
<1>8. ASSUME NEW k \in 1..n, b[k][1] \in Tasks
      PROVE /\ mem[b[k][1]].st # "end"
            /\ b[k][2] = "end" => \A j \in 1..n : k < j => b[j][1] # b[k][1]
  <2> DEFINE f == b[k][1]
  <2>1. f \in Tasks /\ OpsOn(f, b) \in Legal(f)
    BY <1>2, <1>8 DEF Files
  <2> HIDE DEF f
  <2>2. b[k][1] = f
    BY DEF f
  <2> QED
    BY <1>1, <1>3, <2>1, <2>2, BatchEnds
<1>9. MarkerOK(m)
  <2>1. \A i, j \in 1..n : i < j =>
          /\ m.writes[i].op \in Stored /\ m.writes[j].op \in Stored => m.writes[i].ord < m.writes[j].ord
          /\ EndsLast(m.writes[i], m.writes[j])
    BY <1>6, <1>7, <1>8 DEF EndsLast
  <2>2. \A j \in 1..n : m.writes[j].seq = m.seq
    BY <1>4, <1>6
  <2> QED
    BY <1>4, <1>6, <2>1, <2>2 DEF MarkerOK
<1>10. ASSUME NEW x \in ToSet(m.writes), x.file \in Tasks PROVE mem[x.file].st # "end"
  <2>1. m.writes \in Seq(WriteSet)
    BY <1>4 DEF MarkerSet
  <2>2. PICK k \in 1..n : x = m.writes[k]
    BY <1>6, <2>1, InSeq
  <2>3. x.file = b[k][1]
    BY <1>6, <2>2
  <2> QED
    BY <1>8, <1>10, <2>3
<1> QED
  BY <1>9, <1>10 DEF m

-----------------------------------------------------------------------------
(* Appends to a sidecar *)

Extends(c, content, lines) ==
  c.lines = content.lines \/ \E n \in 0..Len(lines) : c.lines = content.lines \o SubSeq(lines, 1, n)

LEMMA AppendingFacts ==
  ASSUME NEW content, NEW lines, NEW c \in Appending(content, lines), Len(lines) \in Nat
  PROVE Extends(c, content, lines)
<1> USE DEF Extends
<1>1. CASE c = content
  BY <1>1
<1>2. CASE c \in {Holding(content.lines \o SubSeq(lines, 1, n)) : n \in 1..Len(lines)}
  <2>1. PICK n \in 1..Len(lines) : c = Holding(content.lines \o SubSeq(lines, 1, n))
    BY <1>2
  <2>2. n \in 0..Len(lines) /\ c.lines = content.lines \o SubSeq(lines, 1, n)
    BY <2>1 DEF Holding
  <2> QED
    BY <2>2
<1>3. CASE c \in {[Holding(content.lines \o SubSeq(lines, 1, n)) EXCEPT !.torn = TRUE] : n \in 0..Len(lines) - 1}
  <2>1. PICK n \in 0..Len(lines) - 1 : c = [Holding(content.lines \o SubSeq(lines, 1, n)) EXCEPT !.torn = TRUE]
    BY <1>3
  <2>2. n \in 0..Len(lines) /\ c.lines = content.lines \o SubSeq(lines, 1, n)
    BY <2>1 DEF Holding
  <2> QED
    BY <2>2
<1> QED
  BY <1>1, <1>2, <1>3, Zenon DEF Appending

LEMMA JoinedFacts ==
  ASSUME NEW s \in Seq(WriteSet), NEW t \in Seq(WriteSet), NEW n \in 0..Len(t)
  PROVE /\ s \o SubSeq(t, 1, n) \in Seq(WriteSet)
        /\ ToSet(s \o SubSeq(t, 1, n)) \subseteq ToSet(s) \cup ToSet(t)
        /\ ToSet(s) \subseteq ToSet(s \o SubSeq(t, 1, n))
        /\ ToSet(s \o t) = ToSet(s) \cup ToSet(t)
        /\ Sorted(s) /\ Sorted(t) /\ (\A v \in ToSet(s), w \in ToSet(t) : Before(v, w))
             => Sorted(s \o SubSeq(t, 1, n))
<1> DEFINE u == SubSeq(t, 1, n)
           x == s \o u
<1>1. Len(s) \in Nat /\ Len(t) \in Nat /\ n \in Nat /\ n <= Len(t)
  OBVIOUS
<1>2. /\ u \in Seq(WriteSet) /\ Len(u) = n
      /\ \A i \in 1..n : u[i] = t[i]
  <2>1. \A i \in 1..n : t[i] \in WriteSet
    BY <1>1
  <2> QED
    BY <2>1, SubSeqProperties
<1> HIDE DEF u
<1>3. /\ x \in Seq(WriteSet) /\ Len(x) = Len(s) + n
      /\ \A i \in 1..Len(s) + n : x[i] = IF i <= Len(s) THEN s[i] ELSE u[i - Len(s)]
  BY <1>2, ConcatProperties
<1> HIDE DEF x
<1>4. \A i \in 1..Len(x) : \/ i \in 1..Len(s) /\ x[i] = s[i]
                           \/ ~(i <= Len(s)) /\ i - Len(s) \in 1..Len(t) /\ x[i] = t[i - Len(s)]
  <2> TAKE i \in 1..Len(x)
  <2>1. CASE i <= Len(s)
    BY <1>1, <1>3, <2>1
  <2>2. CASE ~(i <= Len(s))
    <3>1. i - Len(s) \in 1..n /\ i - Len(s) \in 1..Len(t)
      BY <1>1, <1>3, <2>2
    <3> QED
      BY <1>2, <1>3, <2>2, <3>1
  <2> QED
    BY <2>1, <2>2
<1>5. \A i \in 1..Len(s) : i \in 1..Len(x) /\ x[i] = s[i]
  BY <1>1, <1>3
<1>6. ToSet(x) \subseteq ToSet(s) \cup ToSet(t)
  BY <1>3, <1>4, InSeq
<1>7. ToSet(s) \subseteq ToSet(x)
  BY <1>3, <1>5, InSeq
<1>8. ToSet(s \o t) = ToSet(s) \cup ToSet(t)
  <2>1. /\ s \o t \in Seq(WriteSet) /\ Len(s \o t) = Len(s) + Len(t)
        /\ \A i \in 1..Len(s) + Len(t) : (s \o t)[i] = IF i <= Len(s) THEN s[i] ELSE t[i - Len(s)]
    BY ConcatProperties
  <2> DEFINE y == s \o t
  <2>2. ASSUME NEW i \in 1..Len(y) PROVE y[i] \in ToSet(s) \cup ToSet(t)
    <3>1. CASE i <= Len(s)
      <4>1. i \in 1..Len(s) /\ y[i] = s[i]
        BY <1>1, <2>1, <3>1
      <4> QED
        BY <4>1, InSeq
    <3>2. CASE ~(i <= Len(s))
      <4>1. i - Len(s) \in 1..Len(t) /\ y[i] = t[i - Len(s)]
        BY <1>1, <2>1, <3>2
      <4> QED
        BY <4>1, InSeq
    <3> QED
      BY <3>1, <3>2
  <2>3. \A i \in 1..Len(s) : i \in 1..Len(y) /\ y[i] = s[i]
    BY <1>1, <2>1
  <2>4. \A i \in 1..Len(t) : Len(s) + i \in 1..Len(y) /\ y[Len(s) + i] = t[i]
    BY <1>1, <2>1
  <2>5. \A z : z \in ToSet(y) <=> \E i \in 1..Len(y) : z = y[i]
    BY <2>1, InSeq
  <2> HIDE DEF y
  <2>6. ToSet(y) \subseteq ToSet(s) \cup ToSet(t)
    BY <2>2, <2>5
  <2>7. ToSet(s) \subseteq ToSet(y)
    BY <2>3, <2>5, InSeq
  <2>8. ToSet(t) \subseteq ToSet(y)
    BY <2>4, <2>5, InSeq
  <2> QED
    BY <2>6, <2>7, <2>8 DEF y
<1>9. ASSUME Sorted(s), Sorted(t), \A v \in ToSet(s), w \in ToSet(t) : Before(v, w)
      PROVE Sorted(x)
  <2> SUFFICES ASSUME NEW i \in 1..Len(x), NEW j \in 1..Len(x), i < j PROVE Before(x[i], x[j])
    BY DEF Sorted
  <2>0. i \in Nat /\ j \in Nat
    OBVIOUS
  <2>1. CASE i \in 1..Len(s) /\ x[i] = s[i] /\ j \in 1..Len(s) /\ x[j] = s[j]
    BY <1>9, <2>1 DEF Sorted
  <2>2. CASE /\ i \in 1..Len(s) /\ x[i] = s[i]
             /\ j - Len(s) \in 1..Len(t) /\ x[j] = t[j - Len(s)]
    BY <1>9, <2>2, InSeq
  <2>3. CASE /\ ~(i <= Len(s)) /\ i - Len(s) \in 1..Len(t) /\ x[i] = t[i - Len(s)]
             /\ ~(j <= Len(s)) /\ j - Len(s) \in 1..Len(t) /\ x[j] = t[j - Len(s)]
    <3>1. i - Len(s) < j - Len(s)
      BY <1>1, <2>0
    <3> QED
      BY <1>9, <2>3, <3>1 DEF Sorted
  <2>4. CASE ~(i <= Len(s)) /\ j \in 1..Len(s)
    BY <1>1, <2>0, <2>4
  <2> QED
    BY <1>4, <2>1, <2>2, <2>3, <2>4
<1> QED
  BY <1>3, <1>6, <1>7, <1>8, <1>9 DEF x, u

(* Records of a commit that is newer than all that is there.               *)
LEMMA FitsLonger ==
  ASSUME NEW log, NEW f, NEW lines, Fits(lines, f, log), LogOK(log),
         NEW m, MarkerOK(m), NEW n \in 0..Len(Records(m, f)),
         \A r \in ToSet(lines) : r.seq < m.seq,
         \A w \in StoredIn(log, f) : w.seq < m.seq
  PROVE Fits(lines \o SubSeq(Records(m, f), 1, n), f, log)
<1> DEFINE R == Records(m, f)
           x == lines \o SubSeq(R, 1, n)
<1>1. m \in MarkerSet
  BY DEF MarkerOK
<1>2. R \in Seq(WriteSet) /\ Sorted(R) /\ ToSet(R) = {w \in ToSet(m.writes) : w.file = f /\ w.op \in Stored}
  BY <1>1, RecordsFacts
<1>3. \A r \in ToSet(R) : r.seq = m.seq
  <2>1. m.writes \in Seq(WriteSet)
    BY <1>1 DEF MarkerSet
  <2> QED
    BY <1>2, <2>1, InSeq DEF MarkerOK
<1>4. lines \in Seq(WriteSet) /\ Sorted(lines)
  BY DEF Fits
<1>5. \A v \in ToSet(lines), w \in ToSet(R) : Before(v, w)
  BY <1>3 DEF Before
<1> HIDE DEF R
<1>6. /\ x \in Seq(WriteSet) /\ Sorted(x)
      /\ ToSet(x) \subseteq ToSet(lines) \cup ToSet(R) /\ ToSet(lines) \subseteq ToSet(x)
  BY <1>2, <1>4, <1>5, JoinedFacts DEF R
<1> HIDE DEF x
<1>7. \A r \in ToSet(x) : r \in StoredIn(log, f) \/ \A w \in StoredIn(log, f) : w.seq < r.seq
  BY <1>3, <1>6 DEF Fits
<1>8. Needed(log, f) \subseteq ToSet(x)
  BY <1>6 DEF Fits
<1> QED
  BY <1>6, <1>7, <1>8 DEF Fits, x, R

-----------------------------------------------------------------------------
(* Prefixes and extensions of a log *)

LEMMA LogOKPrefix ==
  ASSUME LogOK(Log), NEW n \in 0..Len(Log)
  PROVE /\ LogOK(SubSeq(Log, 1, n))
        /\ \A f : StoredIn(SubSeq(Log, 1, n), f) \subseteq StoredIn(Log, f)
<1> DEFINE p == SubSeq(Log, 1, n)
<1>1. LogInv
  BY DEF LogOK, LogInv
<1>2. p \in Seq(MarkerSet) /\ Len(p) = n /\ \A k \in 1..n : p[k] = Log[k]
  BY <1>1, Prefix
<1> HIDE DEF p
<1>3. \A k \in 1..n : k \in 1..Len(Log)
  BY <1>1 DEF LogInv
<1>4. LogOK(p)
  BY <1>2, <1>3 DEF LogOK, InOrder
<1>5. \A f : StoredIn(p, f) \subseteq StoredIn(Log, f)
  BY <1>2, <1>3 DEF StoredIn, Of, WritesIn
<1> QED
  BY <1>4, <1>5 DEF p

(* The log of a batch that follows it.                                     *)
Follows(m, log) ==
  /\ MarkerOK(m) /\ \A k \in 1..Len(log) : log[k].seq < m.seq
  /\ \A v \in WritesIn(log), w \in ToSet(m.writes) : EndsLast(v, w)

LEMMA LogOKMore ==
  ASSUME NEW log, LogOK(log), NEW m, Follows(m, log)
  PROVE LogOK(Append(log, m))
<1> DEFINE p == Append(log, m)
           N == Len(log)
<1>1. log \in Seq(MarkerSet) /\ m \in MarkerSet /\ MarkerOK(m) /\ N \in Nat
  BY DEF LogOK, Follows, MarkerOK
<1>2. p \in Seq(MarkerSet) /\ Len(p) = N + 1 /\ p[N + 1] = m /\ \A k \in 1..N : p[k] = log[k]
  BY <1>1, AppendProperties
<1> HIDE DEF p, N
<1>3. \A k \in 1..N + 1 : k \in 1..N \/ k = N + 1
  BY <1>1
<1>4. \A i, k \in 1..N + 1 : i < k => i \in 1..N
  BY <1>1
<1>5. InOrder(p)
  BY <1>1, <1>2, <1>3, <1>4 DEF InOrder, LogOK, Follows, N
<1>6. \A k \in 1..N + 1 : MarkerOK(p[k])
  BY <1>1, <1>2, <1>3 DEF LogOK, N
<1>7. ASSUME NEW i \in 1..N + 1, NEW k \in 1..N + 1, i < k,
             NEW v \in ToSet(p[i].writes), NEW w \in ToSet(p[k].writes)
      PROVE EndsLast(v, w)
  <2>1. i \in 1..N /\ p[i] = log[i]
    BY <1>2, <1>4, <1>7
  <2>2. CASE k \in 1..N
    BY <1>2, <1>7, <2>1, <2>2 DEF LogOK, N
  <2>3. CASE k = N + 1
    BY <1>2, <2>1, <2>3 DEF Follows, WritesIn, N
  <2> QED
    BY <1>3, <2>2, <2>3
<1> QED
  BY <1>2, <1>5, <1>6, <1>7 DEF LogOK, p

LEMMA InMore ==
  ASSUME NEW log \in Seq(MarkerSet), NEW m \in MarkerSet, NEW f
  PROVE /\ Of(Append(log, m), f) = Of(log, f) \cup {w \in ToSet(m.writes) : w.file = f}
        /\ StoredIn(Append(log, m), f) = StoredIn(log, f) \cup ToSet(Records(m, f))
<1> DEFINE p == Append(log, m)
           N == Len(log)
<1>1. N \in Nat
  OBVIOUS
<1>2. p \in Seq(MarkerSet) /\ Len(p) = N + 1 /\ p[N + 1] = m /\ \A k \in 1..N : p[k] = log[k]
  BY <1>1, AppendProperties
<1> HIDE DEF p, N
<1>3. \A k : k \in 1..N + 1 <=> k \in 1..N \/ k = N + 1
  BY <1>1
<1>4. WritesIn(p) = WritesIn(log) \cup ToSet(m.writes)
  <2>1. ASSUME NEW x \in WritesIn(p) PROVE x \in WritesIn(log) \cup ToSet(m.writes)
    BY <1>2, <1>3 DEF WritesIn, N
  <2>2. ASSUME NEW x \in WritesIn(log) PROVE x \in WritesIn(p)
    BY <1>2, <1>3 DEF WritesIn, N
  <2>3. ASSUME NEW x \in ToSet(m.writes) PROVE x \in WritesIn(p)
    BY <1>2, <1>3 DEF WritesIn
  <2> QED
    BY <2>1, <2>2, <2>3
<1>5. Of(p, f) = Of(log, f) \cup {w \in ToSet(m.writes) : w.file = f}
  BY <1>4 DEF Of
<1>6. ToSet(Records(m, f)) = {w \in ToSet(m.writes) : w.file = f /\ w.op \in Stored}
  BY RecordsFacts
<1>7. StoredIn(p, f) = StoredIn(log, f) \cup ToSet(Records(m, f))
  BY <1>5, <1>6 DEF StoredIn
<1> QED
  BY <1>5, <1>7 DEF p

(* What a longer log needs, the log needed or its last marker brings.      *)
LEMMA NeededMore ==
  ASSUME NEW log \in Seq(MarkerSet), NEW m \in MarkerSet, NEW f
  PROVE Needed(Append(log, m), f) \subseteq Needed(log, f) \cup ToSet(Records(m, f))
<1> DEFINE p == Append(log, m)
<1>1. Of(log, f) \subseteq Of(p, f) /\ StoredIn(log, f) \subseteq StoredIn(p, f)
      /\ StoredIn(p, f) = StoredIn(log, f) \cup ToSet(Records(m, f))
  BY InMore
<1> HIDE DEF p
<1>2. /\ EndedIn(log, f) => EndedIn(p, f)
      /\ RetiredIn(log, f) => RetiredIn(p, f)
      /\ \A w : Covered(log, f, w) => Covered(p, f, w)
  BY <1>1 DEF EndedIn, RetiredIn, Covered, Current
<1> QED
  BY <1>1, <1>2 DEF Needed, p

LEMMA FitsMore ==
  ASSUME NEW log \in Seq(MarkerSet), NEW m \in MarkerSet, NEW f, NEW lines, Fits(lines, f, log),
         ToSet(Records(m, f)) \subseteq ToSet(lines),
         Records(m, f) = <<>> \/ ToSet(lines) \subseteq StoredIn(log, f) \cup ToSet(Records(m, f))
  PROVE Fits(lines, f, Append(log, m))
<1> DEFINE p == Append(log, m)
           R == Records(m, f)
<1>1. /\ StoredIn(p, f) = StoredIn(log, f) \cup ToSet(R)
      /\ Needed(p, f) \subseteq Needed(log, f) \cup ToSet(R)
  BY InMore, NeededMore
<1> HIDE DEF p, R
<1>2. R = <<>> => ToSet(R) = {}
  BY DEF ToSet
<1>3. Needed(p, f) \subseteq ToSet(lines)
  BY <1>1 DEF Fits, R
<1>4. \A r \in ToSet(lines) : r \in StoredIn(p, f) \/ \A w \in StoredIn(p, f) : w.seq < r.seq
  BY <1>1, <1>2 DEF Fits, R
<1> QED
  BY <1>3, <1>4 DEF Fits, p

(* What replaces a sidecar after a commit.                                 *)
LEMMA FitsReplaced ==
  ASSUME NEW log, LogOK(log), NEW m, Follows(m, log), NEW f, Needed(Append(log, m), f) \subseteq ToSet(Records(m, f))
  PROVE /\ Fits(Records(m, f), f, Append(log, m))
        /\ ToSet(Records(m, f)) \subseteq StoredIn(Append(log, m), f)
<1>1. m \in MarkerSet /\ MarkerOK(m) /\ log \in Seq(MarkerSet)
  BY DEF Follows, MarkerOK, LogOK
<1>2. Records(m, f) \in Seq(WriteSet) /\ Sorted(Records(m, f))
  BY <1>1, RecordsFacts
<1>3. ToSet(Records(m, f)) \subseteq StoredIn(Append(log, m), f)
  BY <1>1, InMore
<1> QED
  BY <1>2, <1>3 DEF Fits

-----------------------------------------------------------------------------
(* The inductive invariant of the files *)

Logs == {Log} \cup {c.lines : c \in past[Main]}
Views(f) == {disk[f].lines} \cup {c.lines : c \in past[f]}

FilesInv == \A f \in Files : \A lines \in Views(f), log \in Logs : Fits(lines, f, log)

NoPast == ~fsync => \A f \in Files \cup {Main} : past[f] = {}

Stable == FilesInv /\ LogOK(Log) /\ NoPast

Early == {"append", "flush", "publish"}
Working == {"authorize", "replace", "flushTemp", "rename"}
Operating == {"open"} \cup Early \cup Working

BatchOK ==
  pc \in Early =>
    MarkerOK(batch) /\ \A w \in ToSet(batch.writes) : w.file \in Tasks => mem[w.file].st # "end"

MemOK ==
  pc \in Operating \cup {"tails"} =>
    /\ mem \in MemSet
    /\ \A t \in Tasks : EndedIn(Log, t) => mem[t].st = "end"
    /\ \A d \in Files : mem[d].st = "createLatest" => Current(Log, d)

Written(f) == pc \in Early /\ ~(pc = "append" /\ f \in rest)

DiskOK ==
  pc \in Operating => \A f \in Files : \A r \in ToSet(disk[f].lines) :
    r \in StoredIn(Log, f) \/ (Written(f) /\ r \in ToSet(Records(batch, f)))

WrittenOK == \A f \in Files : Written(f) => ToSet(Records(batch, f)) \subseteq ToSet(disk[f].lines)

FlushedOK ==
  fsync => \A f \in Files :
    pc = "publish" \/ (pc = "flush" /\ f \notin rest) => Records(batch, f) = <<>> \/ past[f] = {disk[f]}

PlanOK ==
  pc \in {"tails"} \cup Working =>
    \A f \in DOMAIN plan : Fits(plan[f], f, Log) /\ ToSet(plan[f]) \subseteq StoredIn(Log, f)

OneLog == pc \in {"replace", "flushTemp", "rename"} => past[Main] \subseteq {disk[Main]}

TempOK ==
  /\ pc \in {"flushTemp", "rename"} => target \in DOMAIN plan
  /\ pc = "rename" /\ fsync => past[Temp] = {Holding(plan[target])}

(* Files are flushed with fsync only. *)
SyncOK == pc \in {"flush", "authorize", "flushTemp"} => fsync

Progress ==
  SyncOK /\ BatchOK /\ MemOK /\ DiskOK /\ WrittenOK /\ FlushedOK /\ PlanOK /\ OneLog /\ TempOK

RInv == Inv /\ Stable /\ Progress

-----------------------------------------------------------------------------
(* Steps that write no file, and steps that end what is underway *)

LEMMA Idle ==
  ASSUME pc' \in {"closed", "lost", "list", "read", "corrupt"}
  PROVE Progress'
BY DEF Progress, SyncOK, BatchOK, MemOK, DiskOK, WrittenOK, FlushedOK, PlanOK, OneLog, TempOK,
   Written, Early, Working, Operating

(* A step after which there are no new views and no new logs.              *)
LEMMA FewerViews ==
  ASSUME Stable, UNCHANGED fsync, \A f \in Files : Views(f)' \subseteq Views(f), Logs' \subseteq Logs,
         LogOK(Log'), ~fsync => \A f \in Files \cup {Main} : past'[f] \subseteq past[f]
  PROVE Stable'
<1>1. FilesInv'
  <2> SUFFICES ASSUME NEW f \in Files, NEW lines \in Views(f)', NEW log \in Logs'
               PROVE Fits(lines, f, log)
    BY DEF FilesInv
  <2>1. lines \in Views(f) /\ log \in Logs
    OBVIOUS
  <2> QED
    BY <2>1 DEF Stable, FilesInv
<1>2. NoPast'
  BY DEF Stable, NoPast
<1> QED
  BY <1>1, <1>2 DEF Stable

LEMMA SameFiles ==
  ASSUME Stable, Shape, UNCHANGED <<disk, fsync>>,
         \A f \in Files \cup {Main} : past'[f] \subseteq past[f]
  PROVE Stable'
<1>1. Log' = Log
  BY DEF Log
<1>2. \A f \in Files : Views(f)' \subseteq Views(f)
  BY DEF Views
<1>3. Logs' \subseteq Logs
  BY <1>1 DEF Logs
<1> QED
  BY <1>1, <1>2, <1>3, FewerViews DEF Stable

(* A sidecar is written or replaced.                                       *)
LEMMA OneSidecar ==
  ASSUME Stable, Shape, UNCHANGED fsync, NEW f \in Files, NEW between,
         disk'[Main] = disk[Main], past'[Main] = past[Main],
         \A g \in Files \ {f} : disk'[g] = disk[g] /\ past'[g] = past[g],
         disk'[f] \in between, past'[f] \subseteq past[f] \cup between,
         ~fsync => past'[f] \subseteq past[f],
         \A c \in between : \A log \in Logs : Fits(c.lines, f, log)
  PROVE Stable'
<1>1. Log' = Log /\ Logs' = Logs
  BY DEF Log, Logs
<1>2. FilesInv'
  <2> SUFFICES ASSUME NEW g \in Files, NEW lines \in Views(g)', NEW log \in Logs
               PROVE Fits(lines, g, log)
    BY <1>1 DEF FilesInv
  <2>1. CASE lines \in Views(g)
    BY <2>1 DEF Stable, FilesInv
  <2>2. CASE g = f /\ \E c \in between : lines = c.lines
    BY <2>2
  <2>3. lines \in Views(g) \/ (g = f /\ \E c \in between : lines = c.lines)
    <3>1. CASE g # f
      BY <3>1 DEF Views
    <3>2. CASE g = f
      <4>1. lines = disk'[f].lines \/ \E c \in past'[f] : lines = c.lines
        BY <3>2 DEF Views
      <4> QED
        BY <3>2, <4>1 DEF Views
    <3> QED
      BY <3>1, <3>2
  <2> QED
    BY <2>1, <2>2, <2>3
<1>3. NoPast'
  <2> SUFFICES ASSUME ~fsync, NEW g \in Files \cup {Main} PROVE past'[g] = {}
    BY DEF NoPast
  <2>1. past[g] = {}
    BY DEF Stable, NoPast
  <2> QED
    BY <2>1
<1> QED
  BY <1>1, <1>2, <1>3 DEF Stable

LEMMA PutSidecar ==
  ASSUME Stable, Shape, UNCHANGED fsync, NEW f \in Files, NEW content, NEW between,
         Put(f, content, between),
         \A c \in between \cup {content} : \A log \in Logs : Fits(c.lines, f, log)
  PROVE Stable'
<1>1. disk'[Main] = disk[Main] /\ past'[Main] = past[Main]
  BY NamesDiffer DEF Put, Shape
<1>2. /\ disk'[f] \in between \cup {content} /\ past'[f] \subseteq past[f] \cup (between \cup {content})
      /\ \A g \in Files \ {f} : disk'[g] = disk[g] /\ past'[g] = past[g]
      /\ ~fsync => past'[f] \subseteq past[f]
  BY DEF Put, Shape
<1> QED
  BY <1>1, <1>2, OneSidecar

LEMMA LogsFacts ==
  ASSUME Inv, Stable, NEW log \in Logs
  PROVE LogOK(log) /\ \A f : StoredIn(log, f) \subseteq StoredIn(Log, f)
<1>1. CASE log = Log
  BY <1>1 DEF Stable
<1>2. CASE \E c \in past[Main] : log = c.lines
  <2>1. PICK n \in 0..Len(Log) : log = SubSeq(Log, 1, n)
    BY <1>2 DEF Inv, PastInv
  <2> QED
    BY <2>1, LogOKPrefix DEF Stable
<1> QED
  BY <1>1, <1>2 DEF Logs

LEMMA FilesOKNow ==
  ASSUME Stable
  PROVE FilesOK
<1>1. Log \in Logs /\ \A f \in Files : disk[f].lines \in Views(f)
  BY DEF Logs, Views
<1> QED
  BY <1>1 DEF Stable, FilesInv, FilesOK

LEMMA InitStable == Init => Stable /\ Progress
<1> SUFFICES ASSUME Init PROVE Stable /\ Progress
  OBVIOUS
<1>1. Log = <<>>
  BY DEF Init, Log, Absent
<1>2. \A f \in Files \cup {Main} : \A c \in past[f] : c.lines = <<>>
  BY NamesDiffer DEF Init, Absent
<1>3. Logs = {<<>>}
  BY <1>1, <1>2 DEF Logs
<1>4. \A f \in Files : Views(f) \subseteq {<<>>}
  BY <1>2 DEF Views, Init, Absent
<1>5. \A f : Fits(<<>>, f, <<>>)
  <2>1. WritesIn(<<>>) = {} /\ ToSet(<<>>) = {}
    BY DEF WritesIn, ToSet
  <2>2. <<>> \in Seq(WriteSet) /\ Sorted(<<>>)
    BY DEF Sorted
  <2> QED
    BY <2>1, <2>2 DEF Fits, Needed, StoredIn, Of
<1>6. LogOK(<<>>)
  BY DEF LogOK, InOrder
<1>7. NoPast
  BY NamesDiffer DEF Init, NoPast
<1>8. Stable
  BY <1>1, <1>3, <1>4, <1>5, <1>6, <1>7 DEF Stable, FilesInv
<1>9. Progress
  BY DEF Init, Progress, SyncOK, BatchOK, MemOK, DiskOK, WrittenOK, FlushedOK, PlanOK, OneLog, TempOK,
     Written, Early, Working, Operating
<1> QED
  BY <1>8, <1>9

-----------------------------------------------------------------------------
(* commit *)

LEMMA BeginSteps ==
  ASSUME RInv, Begin
  PROVE Stable' /\ Progress'
<1>1. Stable'
  BY SameFiles DEF RInv, Inv, Begin, files
<1>2. PICK b \in Batches : batch' = Marker(NextSeq, tried + 1, b)
  BY DEF Begin
<1>3. NextSeq \in Nat /\ tried + 1 \in Nat
  BY NextSeqIsNew DEF RInv, Inv, Shape
<1>4. MarkerOK(batch') /\ \A w \in ToSet(batch'.writes) : w.file \in Tasks => mem[w.file].st # "end"
  BY <1>2, <1>3, NewMarkerOK
<1>5. /\ UNCHANGED <<fsync, disk, past, temps, plan, target, mem>>
      /\ pc = "open" /\ rest' = Sidecars(batch')
      /\ pc' = IF rest' = {} THEN "publish" ELSE "append"
  BY DEF Begin, files
<1>6. Log' = Log
  BY <1>5 DEF Log
<1>7. \A f \in Files : Written(f)' => Records(batch', f) = <<>>
  BY <1>5 DEF Written, Early, Sidecars
<1>8. ToSet(<<>>) = {}
  BY DEF ToSet
<1>9. BatchOK'
  BY <1>4, <1>5 DEF BatchOK
<1>10. MemOK'
  BY <1>5, <1>6 DEF RInv, Progress, MemOK, Operating
<1>11. WrittenOK'
  BY <1>7, <1>8 DEF WrittenOK
<1>12. DiskOK'
  BY <1>5, <1>6 DEF RInv, Progress, DiskOK, Operating, Written, Early
<1>13. FlushedOK'
  BY <1>5 DEF FlushedOK, Sidecars
<1>14. PlanOK' /\ OneLog' /\ TempOK' /\ SyncOK'
  BY <1>5 DEF PlanOK, OneLog, TempOK, Working, SyncOK
<1> QED
  BY <1>1, <1>9, <1>10, <1>11, <1>12, <1>13, <1>14 DEF Progress

LEMMA Older ==
  ASSUME RInv, pc \in Early, NEW f, NEW w \in StoredIn(Log, f)
  PROVE w.seq < batch.seq
<1>1. PICK k \in 1..Len(Log) : w \in ToSet(Log[k].writes)
  BY DEF StoredIn, Of, WritesIn
<1>2. MarkerOK(Log[k]) /\ Log[k].writes \in Seq(WriteSet)
  BY DEF RInv, Stable, LogOK, MarkerOK, MarkerSet
<1>3. w.seq = Log[k].seq
  BY <1>1, <1>2, InSeq DEF MarkerOK
<1> QED
  BY <1>3 DEF RInv, Inv, BatchInv, Early

(* What an append to a sidecar may leave.                                  *)
LEMMA AppendFits ==
  ASSUME RInv, pc = "append", NEW f \in rest, NEW log \in Logs
  PROVE /\ Fits(disk[f].lines \o Records(batch, f), f, log)
        /\ \A c \in Appending(disk[f], Records(batch, f)) : Fits(c.lines, f, log)
<1> DEFINE lines == disk[f].lines
           R == Records(batch, f)
<1>1. f \in Files /\ MarkerOK(batch)
  BY DEF RInv, Inv, Shape, Progress, BatchOK, Early
<1>2. LogOK(log) /\ StoredIn(log, f) \subseteq StoredIn(Log, f)
  BY LogsFacts DEF RInv
<1>3. Fits(lines, f, log)
  BY <1>1 DEF RInv, Stable, FilesInv, Views
<1>4. \A w \in StoredIn(Log, f) : w.seq < batch.seq
  BY Older DEF Early
<1>5. \A r \in ToSet(lines) : r \in StoredIn(Log, f)
  BY <1>1 DEF RInv, Progress, DiskOK, Operating, Early, Written
<1>6. Len(R) \in Nat /\ Len(R) \in 0..Len(R) /\ SubSeq(R, 1, Len(R)) = R
  <2>1. R \in Seq(WriteSet)
    BY <1>1, RecordsFacts DEF MarkerOK
  <2> HIDE DEF R
  <2> QED
    BY <2>1, SubSeqFull
<1> HIDE DEF lines, R
<1>7. \A n \in 0..Len(R) : Fits(lines \o SubSeq(R, 1, n), f, log)
  BY <1>1, <1>2, <1>3, <1>4, <1>5, FitsLonger DEF R
<1>8. ASSUME NEW c \in Appending(disk[f], R) PROVE Fits(c.lines, f, log)
  <2>1. Extends(c, disk[f], R)
    BY <1>6, AppendingFacts
  <2>2. c.lines = lines \/ \E n \in 0..Len(R) : c.lines = lines \o SubSeq(R, 1, n)
    BY <2>1 DEF Extends, lines
  <2> QED
    BY <1>3, <1>7, <2>2
<1> QED
  BY <1>6, <1>7, <1>8 DEF lines, R

LEMMA AppendSidecarSteps ==
  ASSUME RInv, NEW f \in rest, AppendSidecar(f)
  PROVE Stable' /\ Progress'
<1> DEFINE lines == disk[f].lines
           R == Records(batch, f)
<1>1. /\ f \in Files /\ pc = "append" /\ UNCHANGED <<fsync, temps, batch, plan, target, mem>>
      /\ Put(f, Holding(lines \o R), Appending(disk[f], R))
      /\ pc' = IF rest = {f} THEN AfterAppend ELSE "append"
      /\ rest' = IF pc' = "flush" THEN Sidecars(batch) ELSE rest \ {f}
  BY DEF AppendSidecar, RInv, Inv, Shape
<1>2. \A log \in Logs : Fits(lines \o R, f, log) /\ \A c \in Appending(disk[f], R) : Fits(c.lines, f, log)
  BY <1>1, AppendFits
<1>3. MarkerOK(batch) /\ batch \in MarkerSet
  BY <1>1 DEF RInv, Progress, BatchOK, MarkerOK, Early
<1>4. lines \in Seq(WriteSet) /\ R \in Seq(WriteSet)
  <2>1. Fits(lines, f, Log)
    BY <1>1, FilesOKNow DEF RInv, FilesOK
  <2> QED
    BY <1>3, <2>1, RecordsFacts DEF Fits
<1>5. ToSet(lines \o R) = ToSet(lines) \cup ToSet(R)
  <2> HIDE DEF lines, R
  <2>1. 0 \in 0..Len(R)
    BY <1>4
  <2> QED
    BY <1>4, <2>1, JoinedFacts
<1>6. /\ disk'[f].lines = lines \o R /\ Log' = Log
      /\ \A g \in Files \ {f} : disk'[g] = disk[g]
  BY <1>1, NamesDiffer DEF Put, RInv, Inv, Shape, Log, Holding
<1> HIDE DEF lines, R
<1>7. Stable'
  <2>1. Holding(lines \o R).lines = lines \o R
    BY DEF Holding
  <2> QED
    BY <1>1, <1>2, <2>1, PutSidecar DEF RInv, Inv
<1>8. /\ pc' \in Early
      /\ pc' = "flush" => rest' = Sidecars(batch)
      /\ pc' = "append" => rest' = rest \ {f}
      /\ pc' # "append" => rest = {f}
  BY <1>1 DEF AfterAppend, Early
<1>9. \A g \in Files : Written(g)' <=> g = f \/ Written(g)
  <2>1. \A g \in Files : Written(g) <=> g \notin rest
    BY <1>1 DEF Written, Early
  <2>2. CASE pc' = "append"
    <3>1. \A g \in Files : Written(g)' <=> g \notin rest \/ g = f
      BY <1>8, <2>2 DEF Written, Early
    <3> QED
      BY <2>1, <3>1
  <2>3. CASE pc' # "append"
    <3>1. \A g \in Files : Written(g)'
      BY <1>8, <2>3 DEF Written
    <3> QED
      BY <1>8, <2>1, <2>3, <3>1
  <2> QED
    BY <2>2, <2>3
<1>10. SyncOK' /\ BatchOK' /\ PlanOK' /\ OneLog' /\ TempOK'
  BY <1>1, <1>8 DEF RInv, Progress, SyncOK, BatchOK, PlanOK, OneLog, TempOK, Early, Working, AfterAppend
<1>11. MemOK'
  BY <1>1, <1>6 DEF RInv, Progress, MemOK, Operating, Early
<1>12. DiskOK'
  <2> SUFFICES ASSUME NEW g \in Files, NEW r \in ToSet(disk'[g].lines)
               PROVE r \in StoredIn(Log, g) \/ (Written(g)' /\ r \in ToSet(Records(batch, g)))
    BY <1>1, <1>6 DEF DiskOK
  <2>1. \A h \in Files : \A x \in ToSet(disk[h].lines) :
          x \in StoredIn(Log, h) \/ (Written(h) /\ x \in ToSet(Records(batch, h)))
    BY <1>1 DEF RInv, Progress, DiskOK, Operating, Early
  <2>2. CASE g = f
    BY <1>1, <1>5, <1>6, <1>9, <2>1, <2>2 DEF lines, R
  <2>3. CASE g # f
    BY <1>6, <1>9, <2>1, <2>3
  <2> QED
    BY <2>2, <2>3
<1>13. WrittenOK'
  <2> SUFFICES ASSUME NEW g \in Files, Written(g)'
               PROVE ToSet(Records(batch, g)) \subseteq ToSet(disk'[g].lines)
    BY <1>1 DEF WrittenOK
  <2>1. CASE g = f
    BY <1>5, <1>6, <2>1 DEF R
  <2>2. CASE g # f
    BY <1>6, <1>9, <2>2 DEF RInv, Progress, WrittenOK
  <2> QED
    BY <2>1, <2>2
<1>14. FlushedOK'
  BY <1>1, <1>8 DEF FlushedOK, Sidecars, AfterAppend
<1> QED
  BY <1>7, <1>10, <1>11, <1>12, <1>13, <1>14 DEF Progress

LEMMA AppendSidecarFailsSteps ==
  ASSUME RInv, NEW f \in rest, AppendSidecarFails(f)
  PROVE Stable' /\ Progress'
<1> DEFINE left == Appending(disk[f], Records(batch, f))
<1>1. f \in Files /\ pc = "append" /\ UNCHANGED fsync /\ pc' = "closed"
  BY DEF AppendSidecarFails, Stops, RInv, Inv, Shape
<1>2. PICK content \in left : Put(f, content, Shorter(left, content))
  BY DEF AppendSidecarFails
<1>3. \A c \in Shorter(left, content) \cup {content} : c \in left
  BY DEF Shorter
<1>4. \A log \in Logs : \A c \in left : Fits(c.lines, f, log)
  BY <1>1, AppendFits
<1> HIDE DEF left
<1>5. Stable'
  BY <1>1, <1>2, <1>3, <1>4, PutSidecar DEF RInv, Inv
<1> QED
  BY <1>1, <1>5, Idle

LEMMA FlushSidecarSteps ==
  ASSUME RInv, NEW f \in rest, FlushSidecar(f)
  PROVE Stable' /\ Progress'
<1>1. /\ f \in Files /\ pc = "flush" /\ UNCHANGED <<fsync, disk, temps, batch, plan, target, mem>>
      /\ rest' = rest \ {f} /\ pc' = IF rest' = {} THEN "publish" ELSE "flush"
      /\ past' = [past EXCEPT ![f] = {disk[f]}]
  BY DEF FlushSidecar, Flush, RInv, Inv, Shape
<1>2. /\ past'[f] = {disk[f]} /\ \A g \in Files \cup {Main} : g # f => past'[g] = past[g]
      /\ past'[Main] = past[Main] /\ Log' = Log
  BY <1>1, NamesDiffer DEF RInv, Inv, Shape, Log
<1>3. fsync
  BY <1>1 DEF RInv, Progress, SyncOK
<1>4. Stable'
  <2>1. Logs' = Logs
    BY <1>2 DEF Logs
  <2>2. \A g \in Files : Views(g)' \subseteq Views(g)
    <3> TAKE g \in Files
    <3>1. CASE g = f
      BY <1>1, <1>2, <3>1 DEF Views
    <3>2. CASE g # f
      BY <1>1, <1>2, <3>2 DEF Views
    <3> QED
      BY <3>1, <3>2
  <2> QED
    BY <1>1, <1>2, <1>3, <2>1, <2>2, FewerViews DEF RInv, Stable
<1>5. \A g \in Files : Written(g)' /\ Written(g)
  BY <1>1 DEF Written, Early
<1>6. SyncOK' /\ BatchOK' /\ PlanOK' /\ OneLog' /\ TempOK'
  BY <1>1, <1>3 DEF RInv, Progress, SyncOK, BatchOK, PlanOK, OneLog, TempOK, Early, Working
<1>7. MemOK'
  BY <1>1, <1>2 DEF RInv, Progress, MemOK, Operating, Early
<1>8. DiskOK' /\ WrittenOK'
  BY <1>1, <1>2, <1>5 DEF RInv, Progress, DiskOK, WrittenOK, Operating, Early
<1>9. FlushedOK'
  <2> SUFFICES ASSUME NEW g \in Files, g \notin rest' PROVE Records(batch, g) = <<>> \/ past'[g] = {disk[g]}
    BY <1>1 DEF FlushedOK
  <2>1. CASE g = f
    BY <1>2, <2>1
  <2>2. CASE g # f
    BY <1>1, <1>2, <1>3, <2>2 DEF RInv, Progress, FlushedOK
  <2> QED
    BY <2>1, <2>2
<1> QED
  BY <1>4, <1>6, <1>7, <1>8, <1>9 DEF Progress

(* The marker that is published follows the log, and its records are in    *)
(* their files, whatever is lost.                                          *)
LEMMA BatchFollows ==
  ASSUME RInv, pc \in Early
  PROVE Follows(batch, Log) /\ batch \in MarkerSet /\ Log \in Seq(MarkerSet)
<1>1. MarkerOK(batch) /\ \A w \in ToSet(batch.writes) : w.file \in Tasks => mem[w.file].st # "end"
  BY DEF RInv, Progress, BatchOK
<1>2. \A k \in 1..Len(Log) : Log[k].seq < batch.seq
  BY DEF RInv, Inv, BatchInv, Early
<1>3. ASSUME NEW v \in WritesIn(Log), NEW w \in ToSet(batch.writes) PROVE EndsLast(v, w)
  <2> SUFFICES ASSUME v.op = "end", v.file \in Tasks PROVE w.file # v.file
    BY DEF EndsLast
  <2>1. EndedIn(Log, v.file)
    BY DEF EndedIn, Of
  <2>2. mem[v.file].st = "end"
    BY <2>1 DEF RInv, Progress, MemOK, Operating
  <2> QED
    BY <1>1, <2>2
<1> QED
  BY <1>1, <1>2, <1>3 DEF Follows, MarkerOK, RInv, Stable, LogOK

LEMMA PublishFits ==
  ASSUME RInv, pc = "publish", NEW f \in Files, NEW lines \in Views(f)
  PROVE Fits(lines, f, Append(Log, batch))
<1>1. Follows(batch, Log) /\ batch \in MarkerSet /\ Log \in Seq(MarkerSet)
  BY BatchFollows DEF Early
<1>2. Fits(lines, f, Log)
  BY DEF RInv, Stable, FilesInv, Logs
<1>3. Written(f)
  BY DEF Written, Early
<1>4. CASE Records(batch, f) = <<>>
  <2>1. ToSet(Records(batch, f)) = {}
    BY <1>4 DEF ToSet
  <2> QED
    BY <1>1, <1>2, <1>4, <2>1, FitsMore
<1>5. CASE Records(batch, f) # <<>>
  <2>1. past[f] \subseteq {disk[f]}
    BY <1>5 DEF RInv, Stable, NoPast, Progress, FlushedOK
  <2>2. lines = disk[f].lines
    BY <2>1 DEF Views
  <2>3. ToSet(Records(batch, f)) \subseteq ToSet(lines)
    BY <1>3, <2>2 DEF RInv, Progress, WrittenOK
  <2>4. ToSet(lines) \subseteq StoredIn(Log, f) \cup ToSet(Records(batch, f))
    BY <2>2 DEF RInv, Progress, DiskOK, Operating, Early
  <2> QED
    BY <1>1, <1>2, <2>3, <2>4, FitsMore
<1> QED
  BY <1>4, <1>5

LEMMA PublishStable ==
  ASSUME RInv, pc = "publish", UNCHANGED fsync,
         \A f \in Files : disk'[f] = disk[f] /\ past'[f] = past[f],
         SameLog \/ Published, ~fsync => past' = past
  PROVE Stable'
<1>1. \A log \in Logs' : log \in Logs \/ log = Append(Log, batch)
  BY DEF Logs, SameLog, Published
<1>2. \A f \in Files : Views(f)' = Views(f)
  BY DEF Views
<1>3. FilesInv'
  BY <1>1, <1>2, PublishFits DEF RInv, Stable, FilesInv
<1>4. LogOK(Log')
  BY BatchFollows, LogOKMore DEF RInv, Stable, SameLog, Published, Early
<1>5. NoPast'
  BY DEF RInv, Stable, NoPast
<1> QED
  BY <1>3, <1>4, <1>5 DEF Stable

LEMMA AppendMainFailsSteps ==
  ASSUME RInv, AppendMainFails
  PROVE Stable' /\ Progress'
<1>1. pc = "publish" /\ pc' = "closed" /\ UNCHANGED fsync
  BY DEF AppendMainFails, Stops
<1>2. PICK content, between : Put(Main, content, between)
  BY DEF AppendMainFails
<1>3. /\ \A f \in Files : disk'[f] = disk[f] /\ past'[f] = past[f]
      /\ ~fsync => past' = past
  BY <1>2, NamesDiffer DEF Put, RInv, Inv, Shape
<1>4. SameLog \/ Published
  BY AppendMainFailsStep DEF RInv, Inv
<1>5. Stable'
  BY <1>1, <1>3, <1>4, PublishStable
<1> QED
  BY <1>1, <1>5, Idle

LEMMA FitsNothing ==
  ASSUME NEW log, NEW f, Needed(log, f) = {}
  PROVE Fits(<<>>, f, log) /\ ToSet(<<>>) = {}
<1>1. ToSet(<<>>) = {} /\ <<>> \in Seq(WriteSet) /\ Sorted(<<>>)
  BY DEF ToSet, Sorted
<1> QED
  BY <1>1 DEF Fits

LEMMA HasFacts ==
  ASSUME NEW m \in MarkerSet, NEW f, NEW op
  PROVE Has(m, f, op) <=> \E w \in ToSet(m.writes) : w.file = f /\ w.op = op
<1>1. m.writes \in Seq(WriteSet)
  BY DEF MarkerSet
<1> QED
  BY <1>1, InSeq DEF Has

(* What a commit makes superfluous, no log that has it needs.              *)
LEMMA PlanFits ==
  ASSUME RInv, pc = "publish", NEW f \in Superseded(batch)
  PROVE /\ Fits(planReclamations(batch)[f], f, Append(Log, batch))
        /\ ToSet(planReclamations(batch)[f]) \subseteq StoredIn(Append(Log, batch), f)
<1> DEFINE p == Append(Log, batch)
<1>1. Follows(batch, Log) /\ batch \in MarkerSet /\ Log \in Seq(MarkerSet) /\ LogOK(Log)
  BY BatchFollows DEF Early, RInv, Stable
<1>2. /\ Of(p, f) = Of(Log, f) \cup {w \in ToSet(batch.writes) : w.file = f}
      /\ StoredIn(p, f) = StoredIn(Log, f) \cup ToSet(Records(batch, f))
  BY <1>1, InMore
<1>3. planReclamations(batch)[f] = IF f \in Docs /\ ~Has(batch, f, "retire") THEN Records(batch, f) ELSE <<>>
  BY DEF planReclamations
<1>4. \A op : Has(batch, f, op) <=> \E w \in ToSet(batch.writes) : w.file = f /\ w.op = op
  BY <1>1, HasFacts
<1> HIDE DEF p
<1>5. CASE f \in Tasks
  <2>1. f \notin Docs
    BY <1>5, FilesAssumption
  <2>2. Has(batch, f, "end")
    BY <2>1 DEF Superseded
  <2>3. EndedIn(p, f)
    BY <1>2, <1>4, <1>5, <2>2 DEF EndedIn
  <2>4. Needed(p, f) = {}
    BY <2>3 DEF Needed
  <2> QED
    BY <1>3, <2>1, <2>4, FitsNothing DEF p
<1>6. CASE f \in Docs
  <2>1. f \notin Tasks /\ f \in Files
    BY <1>6, FilesAssumption DEF Files
  <2>2. isCurrentOnlyDocument(f, batch) /\ (Has(batch, f, "retire") \/ Has(batch, f, "base"))
    BY <2>1 DEF Superseded
  <2>3. Current(p, f)
    <3>1. CASE mem[f].st = "createLatest"
      <4>1. Current(Log, f)
        BY <2>1, <3>1 DEF RInv, Progress, MemOK, Operating, Early
      <4> QED
        BY <1>2, <4>1 DEF Current
    <3>2. CASE Has(batch, f, "createLatest")
      BY <1>2, <1>4, <3>2 DEF Current
    <3> QED
      BY <2>2, <3>1, <3>2 DEF isCurrentOnlyDocument
  <2>4. CASE Has(batch, f, "retire")
    <3>1. RetiredIn(p, f)
      BY <1>2, <1>4, <2>3, <2>4 DEF RetiredIn
    <3>2. Needed(p, f) = {}
      BY <3>1 DEF Needed
    <3> QED
      BY <1>3, <2>4, <3>2, FitsNothing DEF p
  <2>5. CASE ~Has(batch, f, "retire")
    <3>1. PICK b \in ToSet(batch.writes) : b.file = f /\ b.op = "base"
      BY <1>4, <2>2, <2>5
    <3>2. b \in ToSet(Records(batch, f)) /\ b.op \in HasBase
      BY <1>1, <3>1, RecordsFacts DEF Stored, HasBase
    <3>3. b.seq = batch.seq
      <4>1. batch.writes \in Seq(WriteSet)
        BY <1>1 DEF MarkerSet
      <4> QED
        BY <1>1, <4>1, InSeq DEF Follows, MarkerOK
    <3>4. ASSUME NEW w \in StoredIn(Log, f) PROVE Covered(p, f, w)
      <4>1. w.seq < b.seq
        BY <3>3, Older DEF Early
      <4> QED
        BY <1>2, <2>3, <3>2, <4>1 DEF Covered, Before
    <3>5. Needed(p, f) \subseteq ToSet(Records(batch, f))
      BY <1>2, <3>4 DEF Needed
    <3> QED
      BY <1>1, <1>3, <1>6, <2>5, <3>5, FitsReplaced DEF p
  <2> QED
    BY <2>4, <2>5
<1> QED
  BY <1>5, <1>6 DEF Superseded

LEMMA AppendMainSteps ==
  ASSUME RInv, AppendMain
  PROVE Stable' /\ Progress'
<1>1. /\ pc = "publish" /\ mem' = Replay(mem, batch.writes) /\ plan' = planReclamations(batch)
      /\ UNCHANGED <<fsync, temps, rest, target>>
      /\ pc' \in {"open", "authorize", "replace"}
      /\ pc' = "authorize" => fsync
      /\ pc' = "replace" => ~fsync
  BY DEF AppendMain, Reclaim, Done
<1>2. PICK content, between : Put(Main, content, between)
  BY DEF AppendMain
<1>3. /\ \A f \in Files : disk'[f] = disk[f] /\ past'[f] = past[f]
      /\ ~fsync => past' = past
  BY <1>2, NamesDiffer DEF Put, RInv, Inv, Shape
<1>4. Published /\ Log' = Append(Log, batch)
  BY AppendMainStep DEF RInv, Inv, Published
<1>5. Stable'
  BY <1>1, <1>3, <1>4, PublishStable
<1>6. Follows(batch, Log) /\ batch \in MarkerSet /\ Log \in Seq(MarkerSet) /\ batch.writes \in Seq(WriteSet)
  BY <1>1, BatchFollows DEF Early, MarkerSet
<1>7. \A f : /\ Of(Log', f) = Of(Log, f) \cup {w \in ToSet(batch.writes) : w.file = f}
             /\ StoredIn(Log', f) = StoredIn(Log, f) \cup ToSet(Records(batch, f))
  BY <1>4, <1>6, InMore
<1>8. /\ MarkerOK(batch) /\ \A w \in ToSet(batch.writes) : w.file \in Tasks => mem[w.file].st # "end"
      /\ mem \in MemSet
      /\ \A t \in Tasks : EndedIn(Log, t) => mem[t].st = "end"
      /\ \A d \in Files : mem[d].st = "createLatest" => Current(Log, d)
  BY <1>1 DEF RInv, Progress, BatchOK, MemOK, Operating, Early
<1>9. SyncOK' /\ BatchOK' /\ WrittenOK' /\ FlushedOK' /\ TempOK'
  BY <1>1 DEF SyncOK, BatchOK, WrittenOK, FlushedOK, TempOK, Written, Early
<1>10. DiskOK'
  <2>1. \A f \in Files : \A r \in ToSet(disk[f].lines) : r \in StoredIn(Log, f) \/ r \in ToSet(Records(batch, f))
    BY <1>1 DEF RInv, Progress, DiskOK, Operating, Early
  <2> QED
    BY <1>3, <1>7, <2>1 DEF DiskOK
<1>11. OneLog'
  BY <1>1, <1>5 DEF OneLog, Stable, NoPast
<1>12. PlanOK'
  <2>1. DOMAIN plan' = Superseded(batch)
    BY <1>1 DEF planReclamations
  <2> QED
    BY <1>1, <1>4, <2>1, PlanFits DEF PlanOK
<1>13. MemOK'
  <2>1. mem' \in MemSet
    BY <1>1, <1>6, <1>8, ReplayType
  <2>2. ASSUME NEW t \in Tasks, EndedIn(Log', t) PROVE mem'[t].st = "end"
    <3>0. t \in Files
      BY DEF Files
    <3>1. PICK e \in Of(Log', t) : e.op = "end"
      BY <2>2 DEF EndedIn
    <3>2. CASE e \in Of(Log, t)
      <4>1. mem[t].st = "end"
        BY <1>8, <3>1, <3>2 DEF EndedIn
      <4>2. \A w \in ToSet(batch.writes) : w.file # t
        BY <1>8, <4>1
      <4>3. mem'[t] = mem[t]
        BY <1>1, <1>6, <1>8, <3>0, <4>2, ReplayOthers
      <4> QED
        BY <4>1, <4>3
    <3>3. CASE e \in ToSet(batch.writes) /\ e.file = t
      <4>1. PICK k \in 1..Len(batch.writes) : e = batch.writes[k]
        BY <1>6, <3>3, InSeq
      <4>2. \A j \in 1..Len(batch.writes) : k < j => batch.writes[j].file # t
        BY <1>8, <3>1, <3>3, <4>1 DEF MarkerOK, EndsLast
      <4>3. batch.writes[k].op = "end" /\ batch.writes[k].file = t
        BY <3>1, <3>3, <4>1
      <4> QED
        BY <1>1, <1>6, <1>8, <4>2, <4>3, ReplayEnd
    <3> QED
      BY <1>7, <3>2, <3>3
  <2>3. ASSUME NEW d \in Files, mem'[d].st = "createLatest" PROVE Current(Log', d)
    <3>1. \/ mem[d].st = "createLatest"
          \/ \E w \in ToSet(batch.writes) : w.file = d /\ w.op = "createLatest"
      BY <1>1, <1>6, <1>8, <2>3, ReplayCurrent
    <3> QED
      BY <1>7, <1>8, <3>1 DEF Current
  <2> QED
    BY <2>1, <2>2, <2>3 DEF MemOK
<1> QED
  BY <1>5, <1>9, <1>10, <1>11, <1>12, <1>13 DEF Progress

-----------------------------------------------------------------------------
(* reclaimSidecars *)

LEMMA Continue ==
  ASSUME RInv, pc \in Working \cup {"tails"}, pc' \in {"open"} \cup Working,
         UNCHANGED mem, Log' = Log,
         \A f \in Files : ToSet(disk'[f].lines) \subseteq StoredIn(Log, f),
         \A f \in DOMAIN plan' : f \in DOMAIN plan /\ plan'[f] = plan[f],
         SyncOK', OneLog', TempOK'
  PROVE Progress'
<1>1. BatchOK' /\ WrittenOK' /\ FlushedOK'
  BY DEF BatchOK, WrittenOK, FlushedOK, Written, Early, Working
<1>2. MemOK'
  BY DEF RInv, Progress, MemOK, Operating, Working
<1>3. DiskOK'
  BY DEF DiskOK
<1>4. PlanOK'
  BY DEF RInv, Progress, PlanOK
<1> QED
  BY <1>1, <1>2, <1>3, <1>4 DEF Progress

LEMMA OnlyStored ==
  ASSUME RInv, pc \in {"open"} \cup Working
  PROVE \A f \in Files : ToSet(disk[f].lines) \subseteq StoredIn(Log, f)
BY DEF RInv, Progress, DiskOK, Operating, Written, Early, Working

LEMMA ReplacedFacts ==
  ASSUME NEW f, Replaced(f)
  PROVE /\ pc' \in {"open", "replace"}
        /\ \A g \in DOMAIN plan' : g \in DOMAIN plan /\ plan'[g] = plan[g]
BY DEF Replaced, Done

LEMMA ThisLog ==
  ASSUME RInv, pc \in {"replace", "flushTemp", "rename"}
  PROVE Logs = {Log}
BY DEF RInv, Progress, OneLog, Logs, Log

LEMMA FlushMainSteps ==
  ASSUME RInv, FlushMain
  PROVE Stable' /\ Progress'
<1>1. /\ pc = "authorize" /\ pc' = "replace"
      /\ UNCHANGED <<fsync, disk, temps, batch, rest, plan, target, mem>>
      /\ past' = [past EXCEPT ![Main] = {disk[Main]}]
  BY DEF FlushMain, Flush
<1>2. past'[Main] = {disk[Main]} /\ \A f \in Files : past'[f] = past[f]
  BY <1>1, NamesDiffer DEF RInv, Inv, Shape
<1>3. fsync /\ Log' = Log
  BY <1>1 DEF RInv, Progress, SyncOK, Log
<1>4. Logs' \subseteq Logs
  BY <1>2, <1>3 DEF Logs, Log
<1>5. \A f \in Files : Views(f)' \subseteq Views(f)
  BY <1>1, <1>2 DEF Views
<1>6. Stable'
  BY <1>1, <1>3, <1>4, <1>5, FewerViews DEF RInv, Stable
<1>7. SyncOK' /\ OneLog' /\ TempOK'
  BY <1>1, <1>2 DEF SyncOK, OneLog, TempOK
<1>8. \A f \in Files : ToSet(disk'[f].lines) \subseteq StoredIn(Log, f)
  BY <1>1, OnlyStored DEF Working
<1>9. Progress'
  BY <1>1, <1>3, <1>7, <1>8, Continue DEF Working
<1> QED
  BY <1>6, <1>9

LEMMA FlushMainFailsSteps ==
  ASSUME RInv, FlushMainFails
  PROVE Stable' /\ Progress'
<1>1. pc = "authorize" /\ pc' = "open" /\ UNCHANGED <<fsync, disk, past, mem>> /\ DOMAIN plan' = {}
  BY DEF FlushMainFails, Done, files, NoPlan
<1>2. Log' = Log
  BY <1>1 DEF Log
<1>3. Stable'
  BY <1>1, SameFiles DEF RInv, Inv
<1>4. SyncOK' /\ OneLog' /\ TempOK'
  BY <1>1 DEF SyncOK, OneLog, TempOK
<1>5. \A f \in Files : ToSet(disk'[f].lines) \subseteq StoredIn(Log, f)
  BY <1>1, OnlyStored DEF Working
<1>6. Progress'
  BY <1>1, <1>2, <1>4, <1>5, Continue DEF Working
<1> QED
  BY <1>3, <1>6

LEMMA RemoveSidecarSteps ==
  ASSUME RInv, NEW f \in DOMAIN plan, RemoveSidecar(f)
  PROVE Stable' /\ Progress'
<1>1. /\ f \in Files /\ pc = "replace" /\ plan[f] = <<>> /\ Put(f, Absent, {}) /\ Replaced(f)
      /\ UNCHANGED <<fsync, temps, rest, target, mem>>
  BY DEF RemoveSidecar, RInv, Inv, Shape
<1>2. Fits(<<>>, f, Log)
  BY <1>1 DEF RInv, Progress, PlanOK, Working
<1>3. Absent.lines = <<>> /\ Logs = {Log}
  BY <1>1, ThisLog DEF Absent
<1>4. Stable'
  BY <1>1, <1>2, <1>3, PutSidecar DEF RInv, Inv
<1>5. /\ disk'[f] = Absent /\ \A g \in Files \ {f} : disk'[g] = disk[g]
      /\ disk'[Main] = disk[Main] /\ past'[Main] = past[Main]
  BY <1>1, NamesDiffer DEF Put, RInv, Inv, Shape
<1>6. ToSet(<<>>) = {}
  BY DEF ToSet
<1>7. \A g \in Files : ToSet(disk'[g].lines) \subseteq StoredIn(Log, g)
  <2> TAKE g \in Files
  <2>1. CASE g = f
    BY <1>3, <1>5, <1>6, <2>1
  <2>2. CASE g # f
    BY <1>1, <1>5, <2>2, OnlyStored DEF Working
  <2> QED
    BY <2>1, <2>2
<1>8. pc' \in {"open", "replace"} /\ \A g \in DOMAIN plan' : g \in DOMAIN plan /\ plan'[g] = plan[g]
  BY <1>1, ReplacedFacts
<1>9. SyncOK' /\ OneLog' /\ TempOK' /\ Log' = Log
  BY <1>1, <1>5, <1>8 DEF RInv, Progress, SyncOK, OneLog, TempOK, Log
<1>10. Progress'
  BY <1>1, <1>7, <1>8, <1>9, Continue DEF Working
<1> QED
  BY <1>4, <1>10

LEMMA WriteTempSteps ==
  ASSUME RInv, NEW f \in DOMAIN plan, WriteTemp(f)
  PROVE Stable' /\ Progress'
<1>1. /\ pc = "replace" /\ target' = f /\ pc' = IF fsync THEN "flushTemp" ELSE "rename"
      /\ UNCHANGED <<fsync, disk, plan, mem>>
      /\ \A g \in Files \cup {Main} : past'[g] = past[g]
  BY NamesDiffer DEF WriteTemp, RInv, Inv, Shape
<1>2. Log' = Log
  BY <1>1 DEF Log
<1>3. Stable'
  BY <1>1, SameFiles DEF RInv, Inv
<1>4. SyncOK' /\ OneLog' /\ TempOK'
  BY <1>1 DEF RInv, Progress, SyncOK, OneLog, TempOK
<1>5. \A g \in Files : ToSet(disk'[g].lines) \subseteq StoredIn(Log, g)
  BY <1>1, OnlyStored DEF Working
<1>6. Progress'
  BY <1>1, <1>2, <1>4, <1>5, Continue DEF Working
<1> QED
  BY <1>3, <1>6

LEMMA FlushTempSteps ==
  ASSUME RInv, FlushTemp
  PROVE Stable' /\ Progress'
<1>1. /\ pc = "flushTemp" /\ pc' = "rename" /\ UNCHANGED <<fsync, disk, plan, target, mem>>
      /\ past'[Temp] = {Holding(plan[target])}
      /\ \A g \in Files \cup {Main} : past'[g] = past[g]
  BY NamesDiffer DEF FlushTemp, RInv, Inv, Shape
<1>2. Log' = Log
  BY <1>1 DEF Log
<1>3. Stable'
  BY <1>1, SameFiles DEF RInv, Inv
<1>4. SyncOK' /\ OneLog' /\ TempOK'
  BY <1>1 DEF RInv, Progress, SyncOK, OneLog, TempOK
<1>5. \A g \in Files : ToSet(disk'[g].lines) \subseteq StoredIn(Log, g)
  BY <1>1, OnlyStored DEF Working
<1>6. Progress'
  BY <1>1, <1>2, <1>4, <1>5, Continue DEF Working
<1> QED
  BY <1>3, <1>6

LEMMA RenameTempSteps ==
  ASSUME RInv, RenameTemp
  PROVE Stable' /\ Progress'
<1> DEFINE new == Holding(plan[target])
<1>1. /\ pc = "rename" /\ Replaced(target) /\ UNCHANGED <<fsync, rest, mem>>
      /\ disk' = [disk EXCEPT ![target] = new]
      /\ past' = IF fsync THEN [past EXCEPT ![target] = @ \cup past[Temp], ![Temp] = {}] ELSE past
  BY DEF RenameTemp
<1>2. target \in DOMAIN plan /\ target \in Files /\ (fsync => past[Temp] = {new})
  BY <1>1 DEF RInv, Inv, Shape, Progress, TempOK
<1>3. /\ Fits(plan[target], target, Log) /\ ToSet(plan[target]) \subseteq StoredIn(Log, target)
  BY <1>1, <1>2 DEF RInv, Progress, PlanOK, Working
<1>4. new.lines = plan[target] /\ Logs = {Log}
  BY <1>1, ThisLog DEF Holding
<1> HIDE DEF new
<1>5. /\ disk'[target] = new /\ \A g \in Files \ {target} : disk'[g] = disk[g] /\ past'[g] = past[g]
      /\ disk'[Main] = disk[Main] /\ past'[Main] = past[Main]
      /\ past'[target] \subseteq past[target] \cup {new}
      /\ ~fsync => past'[target] \subseteq past[target]
  BY <1>1, <1>2, NamesDiffer DEF RInv, Inv, Shape
<1>6. Stable'
  <2> DEFINE f == target
             between == {new}
  <2>1. f \in Files /\ disk'[f] \in between /\ \A c \in between : \A log \in Logs : Fits(c.lines, f, log)
    BY <1>2, <1>3, <1>4, <1>5
  <2>2. /\ past'[f] \subseteq past[f] \cup between /\ (~fsync => past'[f] \subseteq past[f])
        /\ \A g \in Files \ {f} : disk'[g] = disk[g] /\ past'[g] = past[g]
    BY <1>5
  <2> HIDE DEF f, between
  <2>3. Stable /\ Shape /\ UNCHANGED fsync
    BY <1>1 DEF RInv, Inv
  <2> QED
    BY <1>5, <2>1, <2>2, <2>3, OneSidecar
<1>7. \A g \in Files : ToSet(disk'[g].lines) \subseteq StoredIn(Log, g)
  <2> TAKE g \in Files
  <2>1. CASE g = target
    BY <1>3, <1>4, <1>5, <2>1
  <2>2. CASE g # target
    BY <1>1, <1>5, <2>2, OnlyStored DEF Working
  <2> QED
    BY <2>1, <2>2
<1>8. pc' \in {"open", "replace"} /\ \A g \in DOMAIN plan' : g \in DOMAIN plan /\ plan'[g] = plan[g]
  BY <1>1, ReplacedFacts
<1>9. SyncOK' /\ OneLog' /\ TempOK' /\ Log' = Log
  BY <1>1, <1>5, <1>8 DEF RInv, Progress, SyncOK, OneLog, TempOK, Log
<1>10. Progress'
  BY <1>1, <1>7, <1>8, <1>9, Continue DEF Working
<1> QED
  BY <1>6, <1>10

LEMMA ReplaceFailsSteps ==
  ASSUME RInv, NEW f \in DOMAIN plan, ReplaceFails(f)
  PROVE Stable' /\ Progress'
<1>1. /\ pc \in {"replace", "flushTemp", "rename"} /\ Replaced(f) /\ UNCHANGED <<fsync, disk, mem>>
      /\ \A g \in Files \cup {Main} : past'[g] = past[g]
  BY NamesDiffer DEF ReplaceFails, RInv, Inv, Shape
<1>2. pc' \in {"open", "replace"} /\ \A g \in DOMAIN plan' : g \in DOMAIN plan /\ plan'[g] = plan[g]
  BY <1>1, ReplacedFacts
<1>3. Log' = Log
  BY <1>1 DEF Log
<1>4. Stable'
  BY <1>1, SameFiles DEF RInv, Inv
<1>5. SyncOK' /\ OneLog' /\ TempOK'
  BY <1>1, <1>2 DEF RInv, Progress, SyncOK, OneLog, TempOK
<1>6. \A g \in Files : ToSet(disk'[g].lines) \subseteq StoredIn(Log, g)
  BY <1>1, OnlyStored DEF Working
<1>7. Progress'
  BY <1>1, <1>2, <1>3, <1>5, <1>6, Continue DEF Working
<1> QED
  BY <1>4, <1>7

-----------------------------------------------------------------------------
(* recover *)

LEMMA OpenSteps ==
  ASSUME RInv, Open
  PROVE Stable' /\ Progress'
<1>1. pc' = "list" /\ UNCHANGED fsync
  BY DEF Open
<1>2. Stable'
  <2>1. CASE disk[Main].torn
    <3>1. Put(Main, Untorn(disk[Main]), {})
      BY <2>1 DEF Open
    <3>2. Untorn(disk[Main]).lines = Log
      BY DEF Untorn, Log
    <3>3. /\ Log' = Log /\ \A c \in past'[Main] : c \in past[Main] \/ c.lines = Log
          /\ \A f \in Files : disk'[f] = disk[f] /\ past'[f] = past[f]
          /\ ~fsync => past' = past
      BY <3>1, <3>2, NamesDiffer DEF Put, RInv, Inv, Shape, Log
    <3>4. Logs' \subseteq Logs
      BY <3>3 DEF Logs
    <3>5. \A f \in Files : Views(f)' \subseteq Views(f)
      BY <3>3 DEF Views
    <3> QED
      BY <1>1, <3>3, <3>4, <3>5, FewerViews DEF RInv, Stable
  <2>2. CASE ~disk[Main].torn
    BY <1>1, <2>2, SameFiles DEF Open, RInv, Inv
  <2> QED
    BY <2>1, <2>2
<1> QED
  BY <1>1, <1>2, Idle

LEMMA ReadSidecarSteps ==
  ASSUME RInv, NEW f \in Files, ReadSidecar(f)
  PROVE Stable' /\ Progress'
<1>1. pc' = "read" /\ UNCHANGED fsync /\ Put(f, Untorn(disk[f]), {})
  BY DEF ReadSidecar
<1>2. \A log \in Logs : Fits(Untorn(disk[f]).lines, f, log)
  BY DEF Untorn, RInv, Stable, FilesInv, Views
<1>3. Stable'
  BY <1>1, <1>2, PutSidecar DEF RInv, Inv
<1> QED
  BY <1>1, <1>3, Idle

(* What memory makes of the writes that are kept.                          *)
LEMMA KeptMemory ==
  ASSUME FilesOK
  PROVE LET m == Replay(Nothing, Only(Listed, Kept))
        IN  /\ m \in MemSet
            /\ \A t \in Tasks : EndedIn(Log, t) => m[t].st = "end"
            /\ \A d \in Files : m[d].st = "createLatest" => Current(Log, d)
<1> DEFINE s == Only(Listed, Kept)
           m == Replay(Nothing, s)
<1>1. LogOK(Log)
  BY DEF FilesOK
<1>2. Listed \in Seq(WriteSet) /\ ToSet(Listed) = WritesIn(Log) /\ Listed = WritesOf(Log)
  BY <1>1, ListedFacts DEF Listed, Log
<1>3. s \in Seq(WriteSet) /\ ToSet(s) = ToSet(Listed) \cap Kept
  BY <1>2, OnlySelects, OnlyFacts
<1>4. PICK at : Selects(at, s, Listed, Kept, Len(Listed))
  BY <1>2, OnlySelects
<1>5. Nothing \in MemSet /\ \A d \in Files : Nothing[d].st = "none"
  BY DEF Nothing, MemSet, Statuses
<1> HIDE DEF s, m
<1>6. m \in MemSet
  BY <1>3, <1>5, ReplayType DEF m
<1>7. ASSUME NEW t \in Tasks, EndedIn(Log, t) PROVE m[t].st = "end"
  <2>1. PICK e \in Of(Log, t) : e.op = "end"
    BY <1>7 DEF EndedIn
  <2>2. e.file = t /\ e \in ToSet(s)
    BY <1>2, <1>3, <2>1 DEF Of, Kept
  <2>3. PICK i \in 1..Len(s) : e = s[i]
    BY <1>3, <2>2, InSeq
  <2>4. \A j \in 1..Len(s) : i < j => s[j].file # t
    <3> TAKE j \in 1..Len(s)
    <3> HAVE i < j
    <3>1. /\ at[i] \in 1..Len(Listed) /\ at[j] \in 1..Len(Listed) /\ at[i] < at[j]
          /\ s[i] = Listed[at[i]] /\ s[j] = Listed[at[j]]
      BY <1>4 DEF Selects
    <3>2. EndsLast(Listed[at[i]], Listed[at[j]])
      BY <1>1, <1>2, <3>1, ListedOrder
    <3> QED
      BY <2>1, <2>2, <2>3, <3>1, <3>2 DEF EndsLast
  <2>5. s[i].op = "end" /\ s[i].file = t
    BY <2>1, <2>2, <2>3
  <2> QED
    BY <1>3, <1>5, <2>4, <2>5, ReplayEnd DEF m
<1>8. ASSUME NEW d \in Files, m[d].st = "createLatest" PROVE Current(Log, d)
  <2>1. \E w \in ToSet(s) : w.file = d /\ w.op = "createLatest"
    BY <1>3, <1>5, <1>8, ReplayCurrent DEF m
  <2> QED
    BY <1>2, <1>3, <2>1 DEF Current, Of
<1> QED
  BY <1>6, <1>7, <1>8 DEF m, s

LEMMA ConfirmSteps ==
  ASSUME RInv, Confirm
  PROVE Stable' /\ Progress'
<1>1. FilesOK
  BY FilesOKNow DEF RInv
<1>2. /\ pc' = "tails" /\ mem' = Replay(Nothing, Replayed) /\ plan' = [f \in Reclaimable |-> Retained(f)]
      /\ UNCHANGED <<fsync, disk, past>>
  BY <1>1, NotCorrupt DEF Confirm, files
<1>3. Log' = Log
  BY <1>2 DEF Log
<1>4. Stable'
  BY <1>2, SameFiles DEF RInv, Inv
<1>5. MemOK'
  BY <1>1, <1>2, <1>3, ReplayedFacts, KeptMemory DEF MemOK
<1>6. PlanOK'
  <2>1. \A f \in Reclaimable : f \in Files
    BY DEF Reclaimable
  <2> QED
    BY <1>1, <1>2, <1>3, <2>1, RetainedFacts DEF PlanOK
<1>7. SyncOK' /\ BatchOK' /\ DiskOK' /\ WrittenOK' /\ FlushedOK' /\ OneLog' /\ TempOK'
  BY <1>2 DEF SyncOK, BatchOK, DiskOK, WrittenOK, FlushedOK, OneLog, TempOK, Written, Early,
     Operating, Working
<1> QED
  BY <1>4, <1>5, <1>6, <1>7 DEF Progress

LEMMA TruncateTailSteps ==
  ASSUME RInv, NEW f \in Files, TruncateTail(f)
  PROVE Stable' /\ Progress'
<1>1. /\ pc = "tails" /\ UNCHANGED <<pc, fsync, mem, plan>> /\ Put(f, Holding(ConfirmedLines(f)), {})
  BY DEF TruncateTail
<1>2. FilesOK
  BY FilesOKNow DEF RInv
<1>3. /\ ConfirmedLines(f) \in Seq(WriteSet) /\ Sorted(ConfirmedLines(f))
      /\ ToSet(ConfirmedLines(f)) = ToSet(disk[f].lines) \cap StoredIn(Log, f)
  BY <1>2, ConfirmedFacts
<1>4. ASSUME NEW log \in Logs PROVE Fits(ConfirmedLines(f), f, log)
  <2>1. Fits(disk[f].lines, f, log)
    BY DEF RInv, Stable, FilesInv, Views
  <2>2. StoredIn(log, f) \subseteq StoredIn(Log, f)
    BY LogsFacts DEF RInv
  <2> QED
    BY <1>3, <2>1, <2>2 DEF Fits, Needed
<1>5. Holding(ConfirmedLines(f)).lines = ConfirmedLines(f)
  BY DEF Holding
<1>6. Stable'
  BY <1>1, <1>4, <1>5, PutSidecar DEF RInv, Inv
<1>7. Log' = Log
  BY <1>1, NamesDiffer DEF Put, RInv, Inv, Shape, Log
<1>8. MemOK' /\ PlanOK'
  BY <1>1, <1>7 DEF RInv, Progress, MemOK, PlanOK
<1>9. SyncOK' /\ BatchOK' /\ DiskOK' /\ WrittenOK' /\ FlushedOK' /\ OneLog' /\ TempOK'
  BY <1>1 DEF SyncOK, BatchOK, DiskOK, WrittenOK, FlushedOK, OneLog, TempOK, Written, Early,
     Operating, Working
<1> QED
  BY <1>6, <1>8, <1>9 DEF Progress

LEMMA EndRecoverySteps ==
  ASSUME RInv, EndRecovery
  PROVE Stable' /\ Progress'
<1>1. /\ pc = "tails" /\ WithTail = {} /\ UNCHANGED <<fsync, disk, past, mem>> /\ plan' = plan
      /\ pc' \in {"open", "authorize", "replace"}
      /\ pc' = "authorize" => fsync
      /\ pc' = "replace" => ~fsync
  BY DEF EndRecovery, Reclaim, Done, files
<1>2. Log' = Log
  BY <1>1 DEF Log
<1>3. Stable'
  BY <1>1, SameFiles DEF RInv, Inv
<1>4. SyncOK' /\ OneLog' /\ TempOK'
  BY <1>1, <1>3 DEF SyncOK, OneLog, TempOK, Stable, NoPast
<1>5. ASSUME NEW f \in Files PROVE ToSet(disk'[f].lines) \subseteq StoredIn(Log, f)
  <2>1. ConfirmedLines(f) = disk[f].lines
    BY <1>1 DEF WithTail
  <2>2. ToSet(ConfirmedLines(f)) \subseteq StoredIn(Log, f)
    BY FilesOKNow, ConfirmedFacts DEF RInv
  <2> QED
    BY <1>1, <2>1, <2>2
<1>6. Progress'
  BY <1>1, <1>2, <1>4, <1>5, Continue DEF Working
<1> QED
  BY <1>3, <1>6

LEMMA SurvivesSteps ==
  ASSUME RInv, NEW f \in Undecided, NEW content \in past[f], Survives(f, content)
  PROVE Stable' /\ Progress'
<1>1. /\ pc = "lost" /\ UNCHANGED <<fsync, pc>> /\ f \in Files \cup {Main}
      /\ disk' = [disk EXCEPT ![f] = content] /\ past' = [past EXCEPT ![f] = {content}]
  BY DEF Survives, Undecided
<1>2. fsync
  BY <1>1 DEF RInv, Inv, Shape
<1>3. /\ disk'[f] = content /\ past'[f] = {content}
      /\ \A g \in (Files \cup {Main}) \ {f} : disk'[g] = disk[g] /\ past'[g] = past[g]
  BY <1>1 DEF RInv, Inv, Shape
<1>4. CASE f = Main
  <2>1. Log' = content.lines
    BY <1>3, <1>4 DEF Log
  <2>2. Log' \in Logs /\ Logs' \subseteq Logs
    BY <1>3, <1>4, <2>1 DEF Logs
  <2>3. LogOK(Log')
    BY <2>2, LogsFacts DEF RInv
  <2>4. \A g \in Files : Views(g)' \subseteq Views(g)
    BY <1>3, <1>4, NamesDiffer DEF Views
  <2>5. Stable'
    BY <1>1, <1>2, <2>2, <2>3, <2>4, FewerViews DEF RInv
  <2> QED
    BY <1>1, <2>5, Idle
<1>5. CASE f \in Files
  <2>1. Log' = Log /\ Logs' = Logs
    BY <1>3, <1>5, NamesDiffer DEF Log, Logs
  <2>2. \A g \in Files : Views(g)' \subseteq Views(g)
    <3> TAKE g \in Files
    <3>1. CASE g = f
      BY <1>3, <3>1 DEF Views
    <3>2. CASE g # f
      BY <1>3, <3>2 DEF Views
    <3> QED
      BY <3>1, <3>2
  <2>3. Stable'
    BY <1>1, <1>2, <2>1, <2>2, FewerViews DEF RInv, Stable
  <2> QED
    BY <1>1, <2>3, Idle
<1> QED
  BY <1>1, <1>4, <1>5

-----------------------------------------------------------------------------
(* The invariant is inductive *)

LEMMA StopSteps ==
  ASSUME RInv, UNCHANGED <<fsync, disk>>, \A f \in Files \cup {Main} : past'[f] = past[f],
         pc' \in {"closed", "lost", "list", "read"}
  PROVE Stable' /\ Progress'
<1>1. Stable'
  BY SameFiles DEF RInv, Inv
<1> QED
  BY <1>1, Idle

LEMMA Unchanged ==
  ASSUME RInv, UNCHANGED vars
  PROVE Stable' /\ Progress'
<1>1. Log' = Log /\ UNCHANGED <<fsync, disk, past, pc, batch, rest, plan, target, mem>>
  BY DEF vars, files, Log
<1>2. Stable'
  BY <1>1, SameFiles DEF RInv, Inv
<1>3. Progress'
  BY <1>1 DEF RInv, Progress, SyncOK, BatchOK, MemOK, DiskOK, WrittenOK, FlushedOK, PlanOK, OneLog, TempOK, Written
<1> QED
  BY <1>2, <1>3

LEMMA NextRInv == RInv /\ [Next]_vars => RInv'
<1> SUFFICES ASSUME RInv, [Next]_vars PROVE Stable' /\ Progress'
  BY NextInv DEF RInv
<1>1. CASE Begin
  BY <1>1, BeginSteps
<1>2. CASE FlushSidecarFails \/ Close \/ Crash
  BY <1>2, StopSteps DEF FlushSidecarFails, Close, Crash, Stops, files
<1>3. ASSUME NEW f \in rest, AppendSidecar(f) \/ AppendSidecarFails(f) \/ FlushSidecar(f)
      PROVE Stable' /\ Progress'
  BY <1>3, AppendSidecarSteps, AppendSidecarFailsSteps, FlushSidecarSteps
<1>4. CASE AppendMain
  BY <1>4, AppendMainSteps
<1>5. CASE AppendMainFails
  BY <1>5, AppendMainFailsSteps
<1>6. CASE FlushMain \/ FlushMainFails
  BY <1>6, FlushMainSteps, FlushMainFailsSteps
<1>7. CASE FlushTemp \/ RenameTemp
  BY <1>7, FlushTempSteps, RenameTempSteps
<1>8. ASSUME NEW f \in DOMAIN plan, RemoveSidecar(f) \/ WriteTemp(f) \/ ReplaceFails(f)
      PROVE Stable' /\ Progress'
  BY <1>8, RemoveSidecarSteps, WriteTempSteps, ReplaceFailsSteps
<1>9. CASE Open
  BY <1>9, OpenSteps
<1>10. CASE RemoveTemps
  BY <1>10, StopSteps DEF RemoveTemps
<1>11. CASE Confirm
  BY <1>11, ConfirmSteps
<1>12. CASE EndRecovery
  BY <1>12, EndRecoverySteps
<1>13. ASSUME NEW f \in Files, ReadSidecar(f) \/ TruncateTail(f)
       PROVE Stable' /\ Progress'
  BY <1>13, ReadSidecarSteps, TruncateTailSteps
<1>14. CASE PowerLoss
  <2>1. /\ UNCHANGED <<fsync, disk>> /\ pc' = "lost"
        /\ \A f \in Files \cup {Main} : past'[f] = past[f]
    BY <1>14, NamesDiffer DEF PowerLoss, RInv, Inv, Shape
  <2> QED
    BY <2>1, StopSteps
<1>15. ASSUME NEW f \in Undecided, NEW content \in past[f], Survives(f, content)
       PROVE Stable' /\ Progress'
  BY <1>15, SurvivesSteps
<1>16. CASE UNCHANGED vars
  BY <1>16, Unchanged
<1> QED
  BY <1>1, <1>2, <1>3, <1>4, <1>5, <1>6, <1>7, <1>8, <1>9, <1>10, <1>11, <1>12, <1>13,
     <1>14, <1>15, <1>16 DEF Next

LEMMA RInvHolds == Spec => []RInv
<1>1. Init => RInv
  BY InitInv, InitStable DEF RInv
<1> QED
  BY <1>1, NextRInv, PTL DEF Spec

LEMMA StaysReadable == RInv /\ NeverCorrupt /\ [Next]_vars => NeverCorrupt'
<1> SUFFICES ASSUME RInv, NeverCorrupt, [Next]_vars PROVE pc' # "corrupt"
  BY DEF NeverCorrupt
<1>1. ~(Confirm /\ Corrupt)
  BY FilesOKNow, NotCorrupt DEF RInv
<1> QED
  BY <1>1 DEF NeverCorrupt, Next, vars, Begin, FlushSidecarFails, Stops, AppendSidecar, AfterAppend,
     AppendSidecarFails, FlushSidecar, AppendMain, AppendMainFails, FlushMain, FlushMainFails, FlushTemp,
     RenameTemp, RemoveSidecar, WriteTemp, ReplaceFails, Replaced, Reclaim, Done, Open, RemoveTemps,
     Confirm, EndRecovery, ReadSidecar, TruncateTail, Close, Crash, PowerLoss, Survives

(* Wherever the process dies, an operation fails or the host loses power,  *)
(* the next open never finds the files corrupt (storage.ts:543-582,        *)
(* 634-735).                                                               *)
THEOREM AlwaysReadable == Spec => []NeverCorrupt
<1>1. Init => NeverCorrupt
  BY DEF Init, NeverCorrupt
<1> QED
  BY <1>1, RInvHolds, StaysReadable, PTL DEF Spec

(* In every mixture of old and new contents that a power loss may leave, a *)
(* sidecar has the records that the log needs, those and no others may be  *)
(* confirmed, and what was left by a commit that failed comes after them:  *)
(* the order of append, flush, marker, flush and replacement keeps this    *)
(* (storage.ts:291-302, 508-533).                                          *)
RecordsStay ==
  \A f \in Files : \A lines \in Views(f), log \in Logs :
    /\ Needed(log, f) \subseteq ToSet(lines)
    /\ \A r \in ToSet(lines) : r \in StoredIn(log, f) \/ \A w \in StoredIn(log, f) : w.seq < r.seq

THEOREM RecordsOutliveMarkers == Spec => []RecordsStay
<1>1. RInv => RecordsStay
  BY DEF RInv, Stable, FilesInv, Fits, RecordsStay
<1> QED
  BY <1>1, RInvHolds, PTL

=============================================================================
