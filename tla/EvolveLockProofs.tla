--------------------------- MODULE EvolveLockProofs ---------------------------
(***************************************************************************)
(* For any number of processes, whatever they run: the types, and the two  *)
(* promises of data/evolve.lock. The promises are inductive only together: *)
(* a holder's file is what stops the next process at its check, and that   *)
(* no second process is past its check is what leaves the file alone.      *)
(***************************************************************************)
EXTENDS EvolveLockProps, TLAPS

\* Past the check of acquire_lock, and not yet at its unlink's end.
Past(p) == pc[p] = "write" \/ Holds(p)

Alone(p) == \A q \in Procs : Past(q) => q = p

FileOf(p) ==
  /\ present /\ ~aged
  /\ IF pc[p] = "fill" THEN p \in fds /\ owner = Nobody ELSE owner = p

(***************************************************************************)
(* Without a race, whoever has passed its check is alone, and the file of  *)
(* a holder stands: open in its write_text, or filled with its pid.        *)
(***************************************************************************)
LockInv ==
  ~raced => \A p \in Procs : /\ Past(p) => Alone(p)
                             /\ Holds(p) => FileOf(p)

(***************************************************************************)
(* The programs outside the protocol never touch the lock file.            *)
(***************************************************************************)
OutsideInv ==
  \A p \in Procs :
    Program[p] = "outside" => pc[p] \in {"check", "body", "close"} \cup Gone

IInv == TypeOK /\ OutsideInv /\ LockInv

-----------------------------------------------------------------------------
USE DEF Gone, Holding, Labels, Goto, file, look

(* The initial state is typed. *)
LEMMA InitTypeOK == Init => TypeOK
BY NobodyAssumption DEF Init, TypeOK, Waits

(* A step of a process keeps the types; in particular DuckDB admits one. *)
LEMMA StepTypeOK ==
  ASSUME TypeOK, NEW p \in Procs, Step(p) \/ GiveUp(p) \/ Crash(p) \/ RecyclePid(p)
  PROVE  TypeOK'
<1>1. CASE StopWaiting(p)  BY <1>1 DEF TypeOK, StopWaiting
<1>2. CASE PassCheck(p)    BY <1>2 DEF TypeOK, PassCheck, Contended, Outdated
<1>3. CASE Truncate(p)     BY <1>3 DEF TypeOK, Truncate
<1>4. CASE Fill(p)         BY <1>4 DEF TypeOK, Fill
<1>5. CASE OpenDB(p)       BY <1>5 DEF TypeOK, OpenDB
<1>6. CASE OpenRefused(p)  BY <1>6 DEF TypeOK, OpenRefused
<1>7. CASE EndBody(p)      BY <1>7 DEF TypeOK, EndBody
<1>8. CASE FailBody(p)     BY <1>8 DEF TypeOK, FailBody
<1>9. CASE CloseDB(p)      BY <1>9 DEF TypeOK, CloseDB
<1>10. CASE Remove(p)      BY <1>10 DEF TypeOK, Remove
<1>11. CASE RemoveRefused(p) BY <1>11 DEF TypeOK, RemoveRefused
<1>12. CASE Exit(p)        BY <1>12 DEF TypeOK, Exit
<1>13. CASE Refused(p)     BY <1>13 DEF TypeOK, Refused
<1>14. CASE Crash(p)       BY <1>14 DEF TypeOK, Crash
<1>15. CASE RecyclePid(p)  BY <1>15 DEF TypeOK, RecyclePid
<1>16. CASE Read(p)        BY <1>16 DEF TypeOK, Read
<1>17. CASE Poll(p)        BY <1>17 DEF TypeOK, Poll
<1>18. CASE GiveUp(p)      BY <1>18 DEF TypeOK, GiveUp
<1> QED BY <1>1, <1>2, <1>3, <1>4, <1>5, <1>6, <1>7, <1>8, <1>9, <1>10, <1>11,
           <1>12, <1>13, <1>14, <1>15, <1>16, <1>17, <1>18 DEF Step

LEMMA NextTypeOK == TypeOK /\ [Next]_vars => TypeOK'
<1> SUFFICES ASSUME TypeOK, [Next]_vars PROVE TypeOK'
  OBVIOUS
<1>1. CASE Age              BY <1>1 DEF TypeOK, Age, Overrun
<1>2. CASE UNCHANGED vars   BY <1>2 DEF TypeOK, vars
<1> QED BY <1>1, <1>2, StepTypeOK DEF Next, AllGone

(* The types of the lock protocol, and that DuckDB has one connection. *)
THEOREM Typing == Spec => []TypeOK
BY InitTypeOK, NextTypeOK, PTL DEF Spec

-----------------------------------------------------------------------------
(* The programs outside the protocol stay outside it. *)
LEMMA NextOutsideInv == TypeOK /\ OutsideInv /\ [Next]_vars => OutsideInv'
<1> SUFFICES ASSUME TypeOK, OutsideInv, [Next]_vars,
                    NEW p \in Procs, Program[p] = "outside"
             PROVE  pc'[p] \in {"check", "body", "close"} \cup Gone
  BY DEF OutsideInv
<1> USE DEF TypeOK, OutsideInv
<1>1. CASE Age \/ UNCHANGED vars
  BY <1>1 DEF Age, vars
<1>2. ASSUME NEW q \in Procs, Step(q)
      PROVE  pc'[p] \in {"check", "body", "close"} \cup Gone
  BY <1>2 DEF Step, Read, StopWaiting, PassCheck, Poll, Refused, Truncate, Fill, OpenDB, OpenRefused,
              EndBody, FailBody, CloseDB, Remove, RemoveRefused, Exit
<1>3. ASSUME NEW q \in Procs, GiveUp(q) \/ Crash(q) \/ RecyclePid(q)
      PROVE  pc'[p] \in {"check", "body", "close"} \cup Gone
  BY <1>3 DEF GiveUp, Crash, RecyclePid
<1> QED BY <1>1, <1>2, <1>3 DEF Next, AllGone

(* A process that passes its check while another holds the lock needs a race:
   the holder's file is active at sight; the holder is alive when it is asked
   for; and a pid that is not the holder's was read too long ago. *)
LEMMA HolderBlocks ==
  ASSUME IInv, ~raced, NEW p \in Procs, NEW q \in Procs, q # p,
         Past(q), FreeVerdict(p), ~Contended(p), ~Outdated(p)
  PROVE  FALSE
<1>1. Holds(q) /\ pc[q] # "fill"
  BY DEF Contended, Past, Holds
<1>2. present /\ ~aged /\ owner = q
  BY <1>1 DEF IInv, LockInv, FileOf
<1>3. CASE pc[p] = "check"
  BY <1>2, <1>3, NobodyAssumption DEF FreeVerdict
<1>4. CASE pc[p] = "ask" /\ seen[p] = q
  <2>1. pid_alive(q)
    BY <1>1 DEF pid_alive, Holds
  <2> QED BY <1>2, <1>4, <2>1 DEF FreeVerdict
<1>5. CASE pc[p] = "ask" /\ seen[p] # q
  BY <1>1, <1>2, <1>5 DEF Outdated
<1> QED BY <1>3, <1>4, <1>5 DEF FreeVerdict

(* The steps that take the lock. *)
LEMMA TakeLockInv ==
  ASSUME IInv, ~raced', NEW p \in Procs,
         PassCheck(p) \/ Truncate(p) \/ Fill(p)
  PROVE  LockInv'
<1> USE DEF IInv, TypeOK, LockInv, OutsideInv, Past, Holds
<1>1. CASE PassCheck(p)
  <2>1. \A q \in Procs : Past(q) => q = p
    BY <1>1, HolderBlocks DEF PassCheck
  <2> QED BY <1>1, <2>1 DEF PassCheck, Alone, FileOf
<1>2. CASE Truncate(p)
  BY <1>2 DEF Truncate, Alone, FileOf
<1>3. CASE Fill(p)
  BY <1>3 DEF Fill, Alone, FileOf
<1> QED BY <1>1, <1>2, <1>3

(* The steps of a process that neither take the lock nor remove its file. *)
LEMMA WorkLockInv ==
  ASSUME IInv, ~raced', NEW p \in Procs,
         \/ Read(p) \/ StopWaiting(p) \/ Poll(p) \/ Refused(p) \/ GiveUp(p)
         \/ OpenDB(p) \/ OpenRefused(p) \/ EndBody(p) \/ FailBody(p) \/ CloseDB(p)
  PROVE  LockInv'
<1> USE DEF IInv, TypeOK, LockInv, OutsideInv, Past, Holds, Alone, FileOf
<1>1. CASE StopWaiting(p)  BY <1>1 DEF StopWaiting, FreeVerdict
<1>2. CASE Refused(p)      BY <1>2 DEF Refused, ActiveVerdict
<1>3. CASE OpenDB(p)       BY <1>3 DEF OpenDB
<1>4. CASE OpenRefused(p)  BY <1>4 DEF OpenRefused
<1>5. CASE EndBody(p)      BY <1>5 DEF EndBody
<1>6. CASE FailBody(p)     BY <1>6 DEF FailBody
<1>7. CASE CloseDB(p)      BY <1>7 DEF CloseDB
<1>8. CASE Read(p)         BY <1>8 DEF Read
<1>9. CASE Poll(p)         BY <1>9 DEF Poll, ActiveVerdict
<1>10. CASE GiveUp(p)      BY <1>10 DEF GiveUp, ActiveVerdict
<1> QED BY <1>1, <1>2, <1>3, <1>4, <1>5, <1>6, <1>7, <1>8, <1>9, <1>10

(* The steps that give the lock back, lose it or leave it behind. *)
LEMMA LeaveLockInv ==
  ASSUME IInv, ~raced', NEW p \in Procs,
         Remove(p) \/ RemoveRefused(p) \/ Exit(p) \/ Crash(p) \/ RecyclePid(p)
  PROVE  LockInv'
<1> USE DEF IInv, TypeOK, LockInv, OutsideInv, Past, Holds, Alone, FileOf
<1>1. CASE Remove(p)        BY <1>1 DEF Remove
<1>2. CASE RemoveRefused(p) BY <1>2 DEF RemoveRefused
<1>3. CASE Exit(p)          BY <1>3 DEF Exit
<1>4. CASE Crash(p)         BY <1>4 DEF Crash
<1>5. CASE RecyclePid(p)    BY <1>5 DEF RecyclePid
<1> QED BY <1>1, <1>2, <1>3, <1>4, <1>5

(* The file of a holder does not turn stale without a race. *)
LEMMA AgeLockInv == ASSUME IInv, ~raced', Age PROVE LockInv'
<1>1. ~raced /\ ~Overrun
  BY DEF Age
<1>2. \A p \in Procs : ~Holds(p)
  <2> SUFFICES ASSUME NEW p \in Procs, Holds(p) PROVE FALSE
    OBVIOUS
  <2>1. FileOf(p)
    BY <1>1 DEF IInv, LockInv
  <2> QED BY <1>1, <2>1 DEF FileOf, Overrun, Age
<1> QED BY <1>1, <1>2 DEF Age, IInv, LockInv, Alone, Past, Holds

LEMMA InitIInv == Init => IInv
BY InitTypeOK DEF Init, IInv, LockInv, OutsideInv, Past, Holds, Alone, FileOf

LEMMA NextIInv == IInv /\ [Next]_vars => IInv'
<1> SUFFICES ASSUME IInv, [Next]_vars PROVE LockInv'
  BY NextTypeOK, NextOutsideInv DEF IInv
<1>1. CASE raced'
  BY <1>1 DEF LockInv
<1>2. CASE ~raced' /\ Age
  BY <1>2, AgeLockInv
<1>3. CASE ~raced' /\ UNCHANGED vars
  BY <1>3 DEF vars, IInv, LockInv, Past, Holds, Alone, FileOf
<1>4. ASSUME NEW p \in Procs, ~raced', Step(p) \/ GiveUp(p) \/ Crash(p) \/ RecyclePid(p)
      PROVE  LockInv'
  BY <1>4, TakeLockInv, WorkLockInv, LeaveLockInv DEF Step
<1> QED BY <1>1, <1>2, <1>3, <1>4 DEF Next, AllGone

(* Two processes hold the lock only after a contended check, a verdict on a
   replaced content or an overrun, for any number of processes, crashes and
   recycled pids. *)
THEOREM LockExcludes == Spec => []OneHolder
<1>1. IInv => OneHolder
  BY DEF IInv, LockInv, OneHolder, Alone, Past
<1> QED BY <1>1, InitIInv, NextIInv, PTL DEF Spec

(* Until one of these nobody overwrites or removes the file of a holder. *)
THEOREM LockFileStands == Spec => []HolderKeepsFile
<1>1. IInv => HolderKeepsFile
  BY DEF IInv, LockInv, HolderKeepsFile, FileOf
<1> QED BY <1>1, InitIInv, NextIInv, PTL DEF Spec

===============================================================================
