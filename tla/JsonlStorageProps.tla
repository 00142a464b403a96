------------------------- MODULE JsonlStorageProps -------------------------
(***************************************************************************)
(* What the JSONL storage promises: the publication protocol, recovery and *)
(* reclamation of docs/spec.md 11.3.                                       *)
(***************************************************************************)
EXTENDS JsonlStorage

WriteSet == [file : Files, op : Ops, seq : Nat, by : Nat, ord : Nat]
MarkerSet == [seq : Nat, by : Nat, writes : Seq(WriteSet)]
Contents(lines) == [there : BOOLEAN, lines : Seq(lines), torn : BOOLEAN]
Statuses == Creates \cup {"none", "live", "end", "retired"}
Steps == {"open", "append", "flush", "publish", "authorize", "replace", "flushTemp",
          "rename", "list", "read", "tails", "closed", "lost", "corrupt"}

(* The types of the files and of the process, which keeps nothing of a     *)
(* commit, a replacement or a recovery once it has ended, whichever way    *)
(* that was (storage.ts:278-307, 508-533).                                 *)
TypeOK ==
  /\ fsync \in BOOLEAN /\ tidy \in BOOLEAN /\ faults \in 0..MaxFaults
  /\ tried \in 0..MaxCommits /\ acked \subseteq 1..tried
  /\ disk[Main] \in Contents(MarkerSet)
  /\ \A f \in Files : disk[f] \in Contents(WriteSet)
  /\ \A f \in Files \cup {Main} : past[f] # {} <=> fsync
  /\ fsync => \A f \in Files \cup {Main} : disk[f] \in past[f] \/ pc = "lost"
  /\ temps \subseteq Files /\ rest \subseteq Files /\ DOMAIN plan \subseteq Files
  /\ \A f \in DOMAIN plan : plan[f] \in Seq(WriteSet)
  /\ pc \in Steps /\ batch \in MarkerSet
  /\ mem \in [Files -> [st : Statuses, revs : Seq(WriteSet)]]
  /\ pc \in {"open", "closed", "lost", "list", "read"} =>
       batch = NoMarker /\ rest = {} /\ plan = NoPlan /\ target = Main
  /\ pc \in {"flushTemp", "rename"} => target \in DOMAIN plan /\ target \in temps

(* The files can always be read again: wherever the process dies, an       *)
(* operation fails or, with fsync, the host loses power, in whatever order *)
(* that happens and though sequence numbers are given again, the next open *)
(* never rejects with a JsonlCorruptionError.  So a marker that survives   *)
(* has its records, and a replaced or removed sidecar has the marker that  *)
(* allows it (spec.md:5432-5440, storage.ts:291-302, 508-515).             *)
NeverCorrupt == pc # "corrupt"

(* Without a power loss, a commit that returned is in main.jsonl for good, *)
(* also if a later one was torn and cut off (storage.ts:798-804).          *)
AckedSurvives ==
  ~fsync => acked \subseteq {disk[Main].lines[k].by : k \in DOMAIN disk[Main].lines}

(* Unless a file operation failed since it was opened, an open storage has *)
(* no superfluous record: nothing of ended tasks and of retired documents  *)
(* without history, and of a live document what memory holds.  Commits     *)
(* plan this from memory and recovery from the files, and both must find   *)
(* the same (storage.ts:451-494, 717-759).                                 *)
NothingLeaks ==
  pc = "open" /\ tidy =>
    /\ temps = {}
    /\ \A t \in Tasks : mem[t].st = "end" => disk[t].lines = <<>>
    /\ \A d \in Docs : mem[d] = [st |-> "retired", revs |-> <<>>] => disk[d].lines = <<>>
    /\ \A d \in Docs : mem[d].st \in Creates => disk[d].lines = mem[d].revs

(* Reads are served by an open storage, and by one that is committing.     *)
Serving == pc = "open" \/ batch # NoMarker

StateOf(log) == Replay(Nothing, WritesOf(log))

(* The storage is an atomic store: reads see the replayed log of markers,  *)
(* a commit enters it at once and whole, one that failed did or did not,   *)
(* and with fsync a power loss takes away only the last ones.  Replay of   *)
(* what reclamation has left must give the state that was committed        *)
(* (spec.md:5423-5451).                                                    *)
Atomic == INSTANCE AtomicStore WITH
  log <- disk[Main].lines, up <- Serving,
  store <- IF Serving THEN mem ELSE Nothing,
  lossy <- fsync

ImplementsAtomicStore == Atomic!Spec

=============================================================================
