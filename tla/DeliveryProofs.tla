--------------------------- MODULE DeliveryProofs ---------------------------
(***************************************************************************)
(* Theorems about Delivery, for every set of jobs, workers and operators   *)
(* and every bound.  The argument is one inductive invariant, the Ledger:  *)
(* what runners hold is logged, is held once and was not yet carried out   *)
(* while it may still be; counts selected earlier are never ahead of the   *)
(* row.  Three arguments rest on it: what the status of a job says of its  *)
(* attempts (Statuses), what a second message of the job was paid with     *)
(* (Accounted), and that every step is one of AttemptLedger (Implements).  *)
(***************************************************************************)
EXTENDS Delivery, TLAPS, FiniteSetTheorems

Working == {"gate", "exec", "wire", "record"}

(* A runner holds an attempt exactly while it works on one.                *)
HoldsWhileWorking ==
  \A w \in Workers : held[w] # NoTarget <=> pc[w] \in Working

(* A runner that records has an answer.                                    *)
RecordsAnAnswer ==
  \A w \in Workers : pc[w] = "record" => outcome[w] \in Outcome

(* What a runner holds is in the attempt log.                              *)
HeldIsLogged == \A w \in Workers : held[w] # NoTarget => held[w] \in rows

Typed == TypeOK /\ HoldsWhileWorking /\ RecordsAnAnswer /\ HeldIsLogged

-----------------------------------------------------------------------------
(* Type correctness.                                                       *)

LEMMA StatusAfterType ==
  ASSUME NEW r \in Outcome, NEW no \in Nat
  PROVE  StatusAfter(r, no) \in Status
  BY DEF StatusAfter, Status

LEMMA InitTyped == Init => Typed
<1> SUFFICES ASSUME Init PROVE Typed
  OBVIOUS
<1>1. TypeOK
  BY ConstantsAssumption
     DEF Init, TypeOK, NoCandidates, Idle, Loc, Status, Sources
<1>2. HoldsWhileWorking /\ RecordsAnAnswer /\ HeldIsLogged
  BY DEF Init, HoldsWhileWorking, RecordsAnAnswer, HeldIsLogged, Working
<1> QED BY <1>1, <1>2 DEF Typed

(* What a working runner holds.                                            *)
LEMMA HeldType ==
  ASSUME Typed, NEW w \in Workers, pc[w] \in Working
  PROVE  /\ held[w] \in Attempt
         /\ held[w][1] \in Jobs
         /\ held[w][2] \in Nat
         /\ held[w] \in rows
  BY DEF Typed, TypeOK, HoldsWhileWorking, HeldIsLogged, Attempt

(* Every write of a job row leaves the row well typed.                     *)
JobRowOK == /\ status \in [Jobs -> Status \cup {"absent"}]
            /\ tries   \in [Jobs -> Nat]
            /\ backoff \subseteq Jobs
            /\ flooded \subseteq Jobs
            /\ aged    \subseteq Jobs

LEMMA WriteJobTyped ==
  ASSUME TypeOK, NEW j \in Jobs, NEW st \in Status, NEW wait, NEW flood,
         WriteJob(j, st, wait, flood)
  PROVE  JobRowOK'
  BY DEF TypeOK, WriteJob, JobRowOK

LEMMA TransitionTyped ==
  ASSUME TypeOK, NEW j \in Jobs, NEW src, NEW dst \in Status, NEW wait,
         Transition(j, src, dst, wait)
  PROVE  JobRowOK'
<1>1. CASE status[j] = src
  BY <1>1, WriteJobTyped DEF Transition
<1>2. CASE status[j] # src
  BY <1>2 DEF Transition, TypeOK, JobRowOK, jobRow
<1> QED BY <1>1, <1>2

LEMMA RunnerTyped ==
  ASSUME Typed, NEW w \in Workers, RunnerStep(w)
  PROVE  TypeOK'
<1> USE ConstantsAssumption DEF TypeOK, Goto, jobRow, logRows, Loc
<1>0. TypeOK
  BY DEF Typed
<1>1. CASE BeginRound(w)
  BY <1>0, <1>1 DEF BeginRound
<1>2. CASE ReclaimStale(w)
  <2>1. status' \in [Jobs -> Status \cup {"absent"}]
    BY <1>0, <1>2 DEF ReclaimStale, Status
  <2>2. open' \subseteq rows /\ aged' \subseteq Jobs
    BY <1>0, <1>2 DEF ReclaimStale
  <2>3. reopened' \in [Jobs -> Nat]
    BY <1>0, <1>2 DEF ReclaimStale
  <2> QED BY <1>0, <1>2, <2>1, <2>2, <2>3 DEF ReclaimStale
<1>3. CASE SelectReady(w)
  BY <1>0, <1>3 DEF SelectReady, Due
<1>4. CASE TryClaim(w)
  <2>1. PICK j \in Jobs : /\ IsFirst(j, DOMAIN seen[w])
                          /\ (Claim(w, j) \/ ClaimFails(w, j) \/ LoseRace(w, j))
    BY <1>4 DEF TryClaim
  <2>2. j \in DOMAIN seen[w] /\ seen[w][j] \in Nat
    BY <1>0, <2>1 DEF IsFirst
  <2>3. CASE Claim(w, j)
    <3>1. <<j, seen[w][j] + 1>> \in Attempt
      BY <2>2 DEF Attempt
    <3>2. JobRowOK'
      BY <1>0, <2>2, <2>3 DEF Claim, JobRowOK, Status
    <3>3. /\ rows' \subseteq Attempt
          /\ open' \subseteq rows'
          /\ won' \subseteq rows'
      BY <1>0, <2>3, <3>1 DEF Claim, LogAttempt
    <3>4. /\ pc' \in [Workers -> Loc]
          /\ held' \in [Workers -> Attempt \cup {NoTarget}]
      BY <1>0, <2>3, <3>1 DEF Claim
    <3>5. /\ DOMAIN seen' = Workers
          /\ \A v \in Workers : /\ DOMAIN seen'[v] \subseteq Jobs
                                /\ seen'[v] \in [DOMAIN seen'[v] -> Nat]
      BY <1>0, <2>3 DEF Claim, NoCandidates
    <3> QED BY <1>0, <1>4, <3>2, <3>3, <3>4, <3>5 DEF TryClaim, JobRowOK
  <2>4. CASE ClaimFails(w, j)
    BY <1>0, <1>4, <2>4 DEF TryClaim, ClaimFails, NoCandidates
  <2>5. CASE LoseRace(w, j)
    BY <1>0, <1>4, <2>5 DEF TryClaim, LoseRace
  <2> QED BY <2>1, <2>3, <2>4, <2>5
<1>5. CASE Gate(w)
  <2>1. held[w] \in Attempt /\ held[w][1] \in Jobs
    BY <1>5, HeldType DEF Gate, Working
  <2>2. PICK next \in Loc : pc' = [pc EXCEPT ![w] = next]
    BY <1>5 DEF Gate, Admit, Bounce
  <2>3. held' = held \/ held' = [held EXCEPT ![w] = NoTarget]
    BY <1>5 DEF Gate, Admit, Bounce
  <2>4. JobRowOK'
    BY <1>0, <1>5, <2>1, TransitionTyped DEF Gate, Admit, Bounce, Status
  <2> QED BY <1>0, <1>5, <2>1, <2>2, <2>3, <2>4 DEF Gate, JobRowOK
<1>6. CASE Prepare(w)
  BY <1>0, <1>6 DEF Prepare, Unperformed, Outcome, Failure
<1>7. CASE Perform(w)
  <2>1. held[w] \in Attempt
    BY <1>7, HeldType DEF Perform, Working
  <2> QED BY <1>0, <1>7, <2>1 DEF Perform, Outcome, Failure
<1>8. CASE Fail(w)
  BY <1>0, <1>8 DEF Fail, Outcome
<1>9. CASE Record(w)
  <2>1. /\ held[w] \in Attempt
        /\ held[w][1] \in Jobs
        /\ held[w][2] \in Nat
        /\ held[w] \in rows
    BY <1>9, HeldType DEF Record, Working
  <2>2. StatusAfter(outcome[w], held[w][2]) \in Status
    BY <1>9, <2>1, StatusAfterType DEF Record, Typed, RecordsAnAnswer
  <2>3. CASE Recordable(held[w][1])
    <3>1. RecordResult(held[w], outcome[w])
      BY <1>9, <2>3 DEF Record
    <3>2. JobRowOK'
      BY <1>0, <2>1, <2>2, <3>1, WriteJobTyped DEF RecordResult
    <3>3. map' \in [Sources -> Attempt \cup {NoTarget}]
      BY <1>0, <3>1, <2>1 DEF RecordResult
    <3>4. rows' = rows /\ open' \subseteq rows
      BY <1>0, <3>1 DEF RecordResult, FinishAttempt
    <3>5. won' \subseteq rows
      BY <1>0, <2>1, <3>1 DEF RecordResult, FinishAttempt
    <3> QED BY <1>0, <1>9, <2>1, <3>2, <3>3, <3>4, <3>5 DEF Record, JobRowOK
  <2>4. CASE ~Recordable(held[w][1])
    BY <1>0, <1>9, <2>4 DEF Record
  <2> QED BY <2>3, <2>4
<1> QED
  BY <1>1, <1>2, <1>3, <1>4, <1>5, <1>6, <1>7, <1>8, <1>9 DEF RunnerStep

LEMMA HostTyped ==
  ASSUME Typed, NEW w \in Workers, HostStep(w)
  PROVE  TypeOK'
<1> USE ConstantsAssumption DEF TypeOK, jobRow, logRows, Loc
<1>0. TypeOK
  BY DEF Typed
<1>1. CASE Attach(w)
  BY <1>0, <1>1 DEF Attach, Goto
<1>2. CASE Release(w)
  BY <1>0, <1>2 DEF Release
<1>3. CASE Crash(w)
  BY <1>0, <1>3 DEF Crash, Forget, NoCandidates
<1>4. CASE StorageError(w)
  BY <1>0, <1>4 DEF StorageError, Forget, NoCandidates
<1>5. ASSUME NEW j \in Jobs, HostCancel(w, j) PROVE TypeOK'
  <2>1. JobRowOK'
    BY <1>0, <1>5, TransitionTyped DEF HostCancel, Status
  <2> QED BY <1>0, <1>5, <2>1 DEF HostCancel, JobRowOK, runner
<1> QED
  BY <1>1, <1>2, <1>3, <1>4, <1>5 DEF HostStep

LEMMA PlatformTyped ==
  ASSUME Typed, NEW o \in Operators, PlatformStep(o)
  PROVE  TypeOK'
<1> USE ConstantsAssumption DEF TypeOK, jobRow, logRows, runner, Loc
<1>0. TypeOK
  BY DEF Typed
<1>1. ASSUME NEW j \in Jobs, AskRetry(o, j) PROVE TypeOK'
  BY <1>0, <1>1 DEF AskRetry
<1>2. ASSUME NEW j \in Jobs, AskCancel(o, j) PROVE TypeOK'
  BY <1>0, <1>2 DEF AskCancel
<1>3. CASE WriteRetry(o)
  <2>1. request[o].job \in Jobs
    BY <1>0, <1>3 DEF WriteRetry, Idle
  <2>2. JobRowOK'
    BY <1>0, <1>3, <2>1 DEF WriteRetry, WriteJob, JobRowOK, Status
  <2>3. reopened' \in [Jobs -> Nat]
    <3>1. PICK j \in Jobs : reopened' = [reopened EXCEPT ![j] = @ + 1]
      BY <1>3, <2>1 DEF WriteRetry
    <3>2. reopened \in [Jobs -> Nat]
      BY <1>0
    <3> QED BY <3>1, <3>2
  <2> QED BY <1>0, <1>3, <2>2, <2>3 DEF WriteRetry, JobRowOK
<1>4. CASE WriteCancel(o)
  <2>1. request[o].job \in Jobs
    BY <1>0, <1>4 DEF WriteCancel, Idle
  <2>2. JobRowOK'
    BY <1>0, <1>4, <2>1, WriteJobTyped DEF WriteCancel, Status
  <2> QED BY <1>0, <1>4, <2>2 DEF WriteCancel, JobRowOK
<1> QED
  BY <1>1, <1>2, <1>3, <1>4 DEF PlatformStep

LEMMA JobTyped ==
  ASSUME Typed, NEW j \in Jobs, JobStep(j)
  PROVE  TypeOK'
<1> USE ConstantsAssumption DEF TypeOK, jobRow, logRows, runner, Loc
<1>0. TypeOK
  BY DEF Typed
<1>1. CASE CreateJob(j)
  <2>1. JobRowOK'
    BY <1>0, <1>1, WriteJobTyped DEF CreateJob, Status
  <2> QED BY <1>0, <1>1, <2>1 DEF CreateJob, JobRowOK
<1>2. CASE BackoffEnds(j)
  BY <1>0, <1>2 DEF BackoffEnds
<1>3. CASE FloodEnds(j)
  BY <1>0, <1>3 DEF FloodEnds
<1>4. CASE GrowsOld(j)
  BY <1>0, <1>4 DEF GrowsOld
<1> QED
  BY <1>1, <1>2, <1>3, <1>4 DEF JobStep

LEMMA TypeOKStep == Typed /\ [Next]_vars => TypeOK'
<1> SUFFICES ASSUME Typed, [Next]_vars PROVE TypeOK'
  OBVIOUS
<1>1. CASE UNCHANGED vars
  BY <1>1 DEF Typed, TypeOK, vars, jobRow, logRows, runner
<1>2. CASE Next
  BY <1>2, RunnerTyped, HostTyped, PlatformTyped, JobTyped DEF Next
<1> QED BY <1>1, <1>2

-----------------------------------------------------------------------------
(* The ledger of attempts.                                                 *)

(* The counts claim_next selected are not ahead of attempt_count.          *)
CandidatesAreOld ==
  \A w \in Workers : \A j \in DOMAIN seen[w] : seen[w][j] <= tries[j]

(* A success about to be recorded is one.                                  *)
ReportsAreReal ==
  \A w \in Workers : pc[w] = "record" /\ outcome[w] = "succeeded"
                      => held[w] \in acted \/ Kind[held[w][1]] = "delete"

Ledger ==
  /\ Typed
  /\ CandidatesAreOld
  /\ LogIsGapless
  /\ AttemptHasOneOwner
  /\ AttemptActsOnce
  /\ EffectIsLogged
  /\ ReportsAreReal
  /\ SuccessIsReal
  /\ MapNamesRealMessage

LEMMA InitLedger == Init => Ledger
<1> SUFFICES ASSUME Init PROVE Ledger
  OBVIOUS
<1>1. Typed /\ TypeOK
  BY InitTyped DEF Typed
<1>2. CandidatesAreOld
  BY DEF Init, CandidatesAreOld, NoCandidates
<1>3. LogIsGapless
  BY <1>1 DEF Init, LogIsGapless
<1>4. AttemptHasOneOwner /\ AttemptActsOnce /\ EffectIsLogged
  BY DEF Init, AttemptHasOneOwner, AttemptActsOnce, EffectIsLogged
<1>5. ReportsAreReal /\ SuccessIsReal /\ MapNamesRealMessage
  BY DEF Init, ReportsAreReal, SuccessIsReal, MapNamesRealMessage
<1> QED BY <1>1, <1>2, <1>3, <1>4, <1>5 DEF Ledger

(* The conditional update and uq_attempt_no together: a claim only ever     *)
(* succeeds on a count that is still current.                               *)
LEMMA ClaimExtendsLog ==
  ASSUME Ledger, NEW w \in Workers, NEW j \in DOMAIN seen[w], Claim(w, j)
  PROVE  /\ j \in Jobs
         /\ seen[w][j] = tries[j]
         /\ tries' = [tries EXCEPT ![j] = tries[j] + 1]
         /\ rows' = rows \cup {<<j, tries[j] + 1>>}
<1>1. /\ j \in Jobs /\ tries[j] \in Nat /\ seen[w][j] \in Nat
      /\ seen[w][j] <= tries[j]
  BY DEF Ledger, Typed, TypeOK, CandidatesAreOld
<1>2. <<j, seen[w][j] + 1>> \notin {j} \X (1..tries[j])
  <2>1. <<j, seen[w][j] + 1>> \notin {a \in rows : a[1] = j}
    BY DEF Claim, Fresh
  <2> QED BY <1>1, <2>1 DEF Ledger, LogIsGapless
<1>3. seen[w][j] + 1 \notin 1..tries[j]
  BY <1>2
<1>4. seen[w][j] = tries[j]
  BY <1>1, <1>3
<1> QED BY <1>1, <1>4 DEF Claim, LogAttempt

(* Most steps are quiet: the log, the counts, the effects and the map stay, *)
(* and each runner stays as it is, or works on nothing any more, or goes on *)
(* with the attempt it holds.                                               *)
Stays(v) == /\ pc'[v] = pc[v] /\ held'[v] = held[v]
            /\ outcome'[v] = outcome[v] /\ seen'[v] = seen[v]

Rests(v) == /\ pc'[v] \notin Working /\ held'[v] = NoTarget
            /\ \A j \in DOMAIN seen'[v] : seen'[v][j] <= tries[j]

GoesOn(v) == /\ pc[v] \in {"gate", "exec", "wire"}
             /\ pc'[v] \in {"exec", "wire", "record"}
             /\ held'[v] = held[v] /\ seen'[v] = seen[v]
             /\ pc'[v] = "record" =>
                  /\ outcome'[v] \in Outcome
                  /\ outcome'[v] = "succeeded" => Kind[held[v][1]] = "delete"

Quiet == /\ UNCHANGED <<tries, rows, won, acted, map>>
         /\ \A v \in Workers : Stays(v) \/ Rests(v) \/ GoesOn(v)

LEMMA QuietKeepsLedger ==
  ASSUME Ledger, TypeOK', Quiet
  PROVE  Ledger'
<1> USE DEF Quiet, Stays, Rests, GoesOn
<1>1. HoldsWhileWorking' /\ HeldIsLogged'
  BY DEF Ledger, Typed, HoldsWhileWorking, HeldIsLogged, Working
<1>2. RecordsAnAnswer'
  BY DEF Ledger, Typed, RecordsAnAnswer, Working
<1>3. CandidatesAreOld'
  BY DEF Ledger, CandidatesAreOld
<1>4. LogIsGapless'
  BY DEF Ledger, LogIsGapless
<1>5. AttemptHasOneOwner'
  BY DEF Ledger, AttemptHasOneOwner
<1>6. AttemptActsOnce' /\ EffectIsLogged'
  BY DEF Ledger, AttemptActsOnce, EffectIsLogged, Working
<1>7. ReportsAreReal'
  BY DEF Ledger, ReportsAreReal, Working
<1>8. SuccessIsReal' /\ MapNamesRealMessage'
  BY DEF Ledger, SuccessIsReal, MapNamesRealMessage
<1> QED
  BY <1>1, <1>2, <1>3, <1>4, <1>5, <1>6, <1>7, <1>8 DEF Ledger, Typed

(* A claim takes a number nobody holds and Telegram has not seen.           *)
LEMMA ClaimKeepsLedger ==
  ASSUME Ledger, TypeOK', NEW w \in Workers, NEW j \in DOMAIN seen[w],
         pc[w] = "claim", Claim(w, j), UNCHANGED <<map, outcome, acted>>
  PROVE  Ledger'
<1> DEFINE a == <<j, tries[j] + 1>>
<1>1. /\ j \in Jobs
      /\ seen[w][j] = tries[j]
      /\ tries' = [tries EXCEPT ![j] = tries[j] + 1]
      /\ rows' = rows \cup {a}
      /\ won' = won
  BY ClaimExtendsLog DEF Claim, LogAttempt
<1>2. /\ pc' = [pc EXCEPT ![w] = "gate"]
      /\ held' = [held EXCEPT ![w] = a]
      /\ seen' = [seen EXCEPT ![w] = NoCandidates]
  BY <1>1 DEF Claim
<1>3. /\ TypeOK /\ DOMAIN seen = Workers /\ DOMAIN held = Workers
      /\ DOMAIN pc = Workers /\ tries[j] \in Nat
      /\ \A k \in Jobs : tries[k] \in Nat
  BY <1>1 DEF Ledger, Typed, TypeOK
<1>4. a \notin rows
  BY <1>1 DEF Claim, Fresh
<1>5. a \in Attempt /\ a # NoTarget /\ a[1] = j
  BY <1>1, <1>3, ConstantsAssumption DEF Attempt
<1> HIDE DEF a
<1>6. HoldsWhileWorking' /\ HeldIsLogged'
  BY <1>1, <1>2, <1>3, <1>5
     DEF Ledger, Typed, HoldsWhileWorking, HeldIsLogged, Working
<1>7. RecordsAnAnswer' /\ ReportsAreReal'
  BY <1>2, <1>3 DEF Ledger, Typed, RecordsAnAnswer, ReportsAreReal
<1>8. CandidatesAreOld'
  <2> SUFFICES ASSUME NEW v \in Workers, NEW k \in DOMAIN seen'[v]
               PROVE  seen'[v][k] <= tries'[k]
    BY DEF CandidatesAreOld
  <2>1. v # w
    BY <1>2, <1>3 DEF NoCandidates
  <2>2. /\ seen'[v] = seen[v] /\ k \in Jobs
        /\ seen[v][k] \in Nat /\ seen[v][k] <= tries[k]
    BY <1>2, <1>3, <2>1 DEF Ledger, CandidatesAreOld, TypeOK
  <2>3. tries'[k] \in Nat /\ tries[k] <= tries'[k]
    BY <1>1, <1>3, <2>2 DEF TypeOK
  <2> QED BY <1>3, <2>2, <2>3
<1>9. LogIsGapless'
  <2> SUFFICES ASSUME NEW k \in Jobs
               PROVE  {b \in rows' : b[1] = k} = {k} \X (1..tries'[k])
    BY DEF LogIsGapless
  <2>1. {b \in rows : b[1] = k} = {k} \X (1..tries[k])
    BY DEF Ledger, LogIsGapless
  <2>2. CASE k = j
    <3>0. tries[k] \in Nat /\ tries'[k] = tries[k] + 1 /\ a = <<k, tries[k] + 1>>
      BY <1>1, <1>3, <2>2 DEF TypeOK, a
    <3>1. {b \in rows' : b[1] = k} = {b \in rows : b[1] = k} \cup {a}
      BY <1>1, <1>5, <2>2
    <3>2. 1..tries'[k] = (1..tries[k]) \cup {tries[k] + 1}
      BY <3>0
    <3>3. {k} \X (1..tries'[k]) = ({k} \X (1..tries[k])) \cup {a}
      BY <3>0, <3>2
    <3> QED BY <2>1, <3>1, <3>3
  <2>3. CASE k # j
    <3>1. tries'[k] = tries[k]
      BY <1>1, <1>3, <2>3 DEF TypeOK
    <3>2. {b \in rows' : b[1] = k} = {b \in rows : b[1] = k}
      BY <1>1, <1>5, <2>3
    <3> QED BY <2>1, <3>1, <3>2
  <2> QED BY <2>2, <2>3
<1>10. AttemptHasOneOwner'
  BY <1>2, <1>3, <1>4 DEF Ledger, Typed, HeldIsLogged, AttemptHasOneOwner
<1>11. AttemptActsOnce' /\ EffectIsLogged'
  BY <1>1, <1>2, <1>3, <1>4 DEF Ledger, AttemptActsOnce, EffectIsLogged
<1>12. SuccessIsReal' /\ MapNamesRealMessage'
  BY <1>1 DEF Ledger, SuccessIsReal, MapNamesRealMessage
<1> QED
  BY <1>6, <1>7, <1>8, <1>9, <1>10, <1>11, <1>12 DEF Ledger, Typed

(* Telegram carries out the attempt of one runner, its only owner.          *)
LEMMA PerformKeepsLedger ==
  ASSUME Ledger, TypeOK', NEW w \in Workers, Perform(w)
  PROVE  Ledger'
<1>1. /\ pc[w] = "wire"
      /\ pc' = [pc EXCEPT ![w] = "record"]
      /\ acted' = acted \cup {held[w]}
      /\ outcome' = [outcome EXCEPT ![w] = outcome'[w]]
      /\ outcome'[w] \in Outcome
      /\ UNCHANGED <<tries, rows, won, map, seen, held>>
  BY DEF Perform, Goto, jobRow, logRows, Outcome, Failure, Ledger, Typed, TypeOK
<1>2. DOMAIN pc = Workers /\ DOMAIN outcome = Workers
  BY DEF Ledger, Typed, TypeOK
<1>3. held[w] # NoTarget /\ held[w] \in rows
  BY <1>1, HeldType DEF Ledger, Typed, HoldsWhileWorking, Working
<1>4. HoldsWhileWorking' /\ HeldIsLogged'
  BY <1>1, <1>2 DEF Ledger, Typed, HoldsWhileWorking, HeldIsLogged, Working
<1>5. RecordsAnAnswer' /\ ReportsAreReal'
  BY <1>1, <1>2 DEF Ledger, Typed, RecordsAnAnswer, ReportsAreReal
<1>6. CandidatesAreOld' /\ LogIsGapless'
  BY <1>1 DEF Ledger, CandidatesAreOld, LogIsGapless
<1>7. AttemptHasOneOwner' /\ EffectIsLogged'
  BY <1>1, <1>3 DEF Ledger, AttemptHasOneOwner, EffectIsLogged
<1>8. AttemptActsOnce'
  <2> SUFFICES ASSUME NEW v \in Workers, pc'[v] \in {"gate", "exec", "wire"}
               PROVE  held'[v] \notin acted'
    BY DEF AttemptActsOnce
  <2>1. v # w /\ pc[v] = pc'[v]
    BY <1>1, <1>2
  <2>2. held[v] # NoTarget
    BY <2>1 DEF Ledger, Typed, HoldsWhileWorking, Working
  <2>3. held[v] # held[w] /\ held[v] \notin acted
    BY <2>1, <2>2 DEF Ledger, AttemptHasOneOwner, AttemptActsOnce
  <2> QED BY <1>1, <2>3
<1>9. SuccessIsReal' /\ MapNamesRealMessage'
  BY <1>1 DEF Ledger, SuccessIsReal, MapNamesRealMessage
<1> QED
  BY <1>4, <1>5, <1>6, <1>7, <1>8, <1>9 DEF Ledger, Typed

(* A result is recorded for the attempt that brought it.                    *)
LEMMA RecordKeepsLedger ==
  ASSUME Ledger, TypeOK', NEW w \in Workers, Record(w)
  PROVE  Ledger'
<1>1. /\ pc[w] = "record"
      /\ \A v \in Workers : Stays(v) \/ (v = w /\ Rests(v))
      /\ UNCHANGED <<rows, acted, tries, seen>>
  BY DEF Record, Goto, jobRow, logRows, Stays, Rests, Working, Ledger, Typed,
         TypeOK, CandidatesAreOld, RecordResult, WriteJob, FinishAttempt
<1>2. /\ held[w] \in Attempt /\ held[w] \in rows
      /\ outcome[w] = "succeeded" =>
           held[w] \in acted \/ Kind[held[w][1]] = "delete"
  BY <1>1, HeldType DEF Ledger, Typed, ReportsAreReal, Working
<1>3. won' \subseteq won \cup
        (IF outcome[w] = "succeeded" THEN {held[w]} ELSE {})
  BY DEF Record, RecordResult, FinishAttempt, logRows
<1>4. SuccessIsReal'
  BY <1>1, <1>2, <1>3 DEF Ledger, SuccessIsReal
<1>5. MapNamesRealMessage'
  <2>1. CASE map' = map
    BY <1>1, <2>1 DEF Ledger, MapNamesRealMessage
  <2>2. CASE map' # map
    <3>1. /\ outcome[w] = "succeeded"
          /\ Kind[held[w][1]] = "send"
          /\ map' = [map EXCEPT ![Source[held[w][1]]] = held[w]]
      BY <2>2 DEF Record, RecordResult, MapsResult
    <3>2. held[w] \in acted
      BY <1>2, <3>1
    <3>3. DOMAIN map = Sources
      BY DEF Ledger, Typed, TypeOK
    <3> QED BY <1>1, <3>1, <3>2, <3>3 DEF Ledger, MapNamesRealMessage
  <2> QED BY <2>1, <2>2
<1>6. HoldsWhileWorking' /\ HeldIsLogged' /\ RecordsAnAnswer'
  BY <1>1 DEF Stays, Rests, Ledger, Typed, HoldsWhileWorking, HeldIsLogged,
              RecordsAnAnswer, Working
<1>7. CandidatesAreOld' /\ LogIsGapless' /\ EffectIsLogged'
  BY <1>1 DEF Ledger, CandidatesAreOld, LogIsGapless, EffectIsLogged
<1>8. AttemptHasOneOwner' /\ AttemptActsOnce' /\ ReportsAreReal'
  BY <1>1 DEF Stays, Rests, Ledger, AttemptHasOneOwner, AttemptActsOnce,
              ReportsAreReal, Working
<1> QED
  BY <1>4, <1>5, <1>6, <1>7, <1>8 DEF Ledger, Typed

(* There are no others: a step is quiet, or a claim, or the transport      *)
(* carries out what a runner holds, or an answer is recorded.               *)
Claims(w, j) == pc[w] = "claim" /\ Claim(w, j) /\ UNCHANGED <<map, outcome, acted>>

LEMMA RunnerKinds ==
  ASSUME Ledger, NEW w \in Workers, RunnerStep(w)
  PROVE  \/ Quiet
         \/ \E j \in DOMAIN seen[w] : Claims(w, j)
         \/ Perform(w) \/ Record(w)
<1>0. /\ DOMAIN pc = Workers /\ DOMAIN held = Workers
      /\ DOMAIN outcome = Workers /\ DOMAIN seen = Workers
      /\ \A v \in Workers : held[v] # NoTarget <=> pc[v] \in Working
      /\ \A v \in Workers : \A j \in DOMAIN seen[v] : seen[v][j] <= tries[j]
      /\ \A j \in Jobs : tries[j] \in Nat
  BY DEF Ledger, Typed, TypeOK, HoldsWhileWorking, CandidatesAreOld
<1> USE DEF Quiet, Stays, Rests, GoesOn, Goto, jobRow, logRows, Working
<1>1. CASE BeginRound(w)
  BY <1>0, <1>1 DEF BeginRound
<1>2. CASE ReclaimStale(w)
  BY <1>0, <1>2 DEF ReclaimStale
<1>3. CASE SelectReady(w)
  BY <1>0, <1>3 DEF SelectReady, Due
<1>4. CASE TryClaim(w)
  <2>1. PICK j \in DOMAIN seen[w] :
               Claim(w, j) \/ ClaimFails(w, j) \/ LoseRace(w, j)
    BY <1>4 DEF TryClaim, IsFirst
  <2>2. pc[w] = "claim" /\ UNCHANGED <<map, outcome, acted>>
    BY <1>4 DEF TryClaim
  <2>3. CASE Claim(w, j)
    BY <2>2, <2>3 DEF Claims
  <2>4. CASE ClaimFails(w, j)
    BY <1>0, <2>2, <2>4 DEF ClaimFails, NoCandidates
  <2>5. CASE LoseRace(w, j)
    BY <1>0, <2>2, <2>5 DEF LoseRace
  <2> QED BY <2>1, <2>3, <2>4, <2>5
<1>5. CASE Gate(w)
  <2>1. UNCHANGED <<tries, rows, won, acted, map, seen, outcome>>
    BY <1>5 DEF Gate, Admit, Bounce, Transition, WriteJob
  <2>2. CASE Admit(w)
    BY <1>0, <1>5, <2>1, <2>2 DEF Gate, Admit
  <2>3. ASSUME NEW dst, NEW wait, NEW next \in {"halted", "reclaim"},
               Bounce(w, dst, wait, next)
        PROVE  Quiet
    BY <1>0, <2>1, <2>3 DEF Bounce
  <2> QED BY <1>5, <2>2, <2>3 DEF Gate
<1>6. CASE Prepare(w)
  BY <1>0, <1>6 DEF Prepare, Unperformed, Outcome, Failure
<1>7. CASE Fail(w)
  BY <1>0, <1>7 DEF Fail, Outcome, Failure
<1> QED
  BY <1>1, <1>2, <1>3, <1>4, <1>5, <1>6, <1>7 DEF RunnerStep

LEMMA OthersAreQuiet ==
  ASSUME Ledger,
         \/ \E w \in Workers : HostStep(w)
         \/ \E o \in Operators : PlatformStep(o)
         \/ \E j \in Jobs : JobStep(j)
         \/ UNCHANGED vars
  PROVE  Quiet
<1>0. /\ DOMAIN pc = Workers /\ DOMAIN held = Workers
      /\ DOMAIN outcome = Workers /\ DOMAIN seen = Workers
      /\ \A v \in Workers : held[v] # NoTarget <=> pc[v] \in Working
      /\ \A v \in Workers : \A j \in DOMAIN seen[v] : seen[v][j] <= tries[j]
  BY DEF Ledger, Typed, TypeOK, HoldsWhileWorking, CandidatesAreOld
<1> USE DEF Quiet, Stays, Rests, Working, jobRow, logRows, runner
<1>1. ASSUME NEW w \in Workers, HostStep(w) PROVE Quiet
  <2>1. CASE Attach(w)
    BY <1>0, <2>1 DEF Attach, Goto
  <2>2. CASE Release(w)
    BY <1>0, <2>2 DEF Release
  <2>3. CASE Crash(w) \/ StorageError(w)
    BY <1>0, <2>3 DEF Crash, StorageError, Forget, NoCandidates
  <2>4. ASSUME NEW j \in Jobs, HostCancel(w, j) PROVE Quiet
    BY <2>4 DEF HostCancel, Transition, WriteJob
  <2> QED BY <1>1, <2>1, <2>2, <2>3, <2>4 DEF HostStep
<1>2. ASSUME NEW o \in Operators, PlatformStep(o) PROVE Quiet
  BY <1>2 DEF PlatformStep, AskRetry, AskCancel, WriteRetry, WriteCancel,
              WriteJob
<1>3. ASSUME NEW j \in Jobs, JobStep(j) PROVE Quiet
  BY <1>3 DEF JobStep, CreateJob, WriteJob, BackoffEnds, FloodEnds, GrowsOld
<1>4. CASE UNCHANGED vars
  BY <1>4 DEF vars
<1> QED BY <1>1, <1>2, <1>3, <1>4

LEMMA StepKinds ==
  ASSUME Ledger, [Next]_vars
  PROVE  \/ Quiet
         \/ \E w \in Workers : \E j \in DOMAIN seen[w] : Claims(w, j)
         \/ \E w \in Workers : Perform(w) \/ Record(w)
<1>1. CASE \E w \in Workers : RunnerStep(w)
  BY <1>1, RunnerKinds
<1>2. CASE ~ \E w \in Workers : RunnerStep(w)
  BY <1>2, OthersAreQuiet DEF Next
<1> QED BY <1>1, <1>2

LEMMA LedgerStep == Ledger /\ [Next]_vars => Ledger'
<1> SUFFICES ASSUME Ledger, [Next]_vars PROVE Ledger'
  OBVIOUS
<1>1. TypeOK'
  BY TypeOKStep DEF Ledger
<1> QED
  BY <1>1, StepKinds, QuietKeepsLedger, ClaimKeepsLedger, PerformKeepsLedger,
     RecordKeepsLedger DEF Claims

(* A count only grows, and a mapped source keeps its target.                *)
LEMMA CountStep ==
  ASSUME Ledger, [Next]_vars, NEW k \in Jobs
  PROVE  tries'[k] \in {tries[k], tries[k] + 1}
<1>1. CASE tries' = tries
  BY <1>1
<1>2. ASSUME NEW w \in Workers, NEW j \in DOMAIN seen[w], Claims(w, j)
      PROVE  tries'[k] \in {tries[k], tries[k] + 1}
  BY <1>2, ClaimExtendsLog DEF Claims, Ledger, Typed, TypeOK
<1>3. ASSUME NEW w \in Workers, Perform(w) \/ Record(w) PROVE tries' = tries
  BY <1>3 DEF Perform, Record, RecordResult, WriteJob, jobRow
<1> QED BY <1>1, <1>2, <1>3, StepKinds DEF Quiet

LEMMA MapStep ==
  ASSUME Ledger, [Next]_vars, NEW s \in Sources, map[s] # NoTarget
  PROVE  map'[s] = map[s]
<1>1. CASE map' = map
  BY <1>1
<1>2. ASSUME NEW w \in Workers, RecordResult(held[w], outcome[w])
      PROVE  map'[s] = map[s]
  BY <1>2 DEF RecordResult, MapsResult, Target, Ledger, Typed, TypeOK
<1>3. ASSUME NEW w \in Workers, Perform(w) \/ Record(w)
      PROVE  map' = map \/ RecordResult(held[w], outcome[w])
  BY <1>3 DEF Perform, Record
<1> QED BY <1>1, <1>2, <1>3, StepKinds DEF Quiet, Claims

(* Successes are never taken back.                                          *)
LEMMA WinsStay ==
  ASSUME Ledger, [Next]_vars
  PROVE  won \subseteq won'
<1>1. ASSUME NEW w \in Workers, Perform(w) \/ Record(w) PROVE won \subseteq won'
  BY <1>1 DEF Perform, Record, RecordResult, FinishAttempt, logRows
<1>2. ASSUME NEW w \in Workers, NEW j \in DOMAIN seen[w], Claims(w, j)
      PROVE  won' = won
  BY <1>2 DEF Claims, Claim, LogAttempt
<1> QED BY <1>1, <1>2, StepKinds DEF Quiet

-----------------------------------------------------------------------------
(* Statuses.                                                               *)

(* Every way a job's status changes: it is created, a runner claims it,    *)
(* gates it or records an answer of it, a host cancels or reclaims it, or  *)
(* the platform overwrites it.                                             *)
Answers(w, j) ==
  /\ pc[w] = "record" /\ held[w][1] = j /\ status[j] = "sending"
  /\ RecordResult(held[w], outcome[w])

Overwrites(o, j) ==
  /\ request[o].job = j /\ request'[o] = Idle
  /\ \/ /\ request[o].op = "retry" /\ status'[j] = "ready"
        /\ reopened'[j] = reopened[j] + 1
     \/ request[o].op = "cancel" /\ status'[j] = "cancelled"

Gates(w, j) ==
  /\ pc[w] = "gate" /\ held[w][1] = j /\ status[j] = "leased"
  /\ \/ status'[j] = "sending"
     \/ status'[j] \in {"ready", "blocked"} /\ held'[w] = NoTarget

Moves(j) ==
  \/ status[j] = "absent" /\ status'[j] \in {"ready", "waiting_approval"}
  \/ status[j] = "ready"  /\ status'[j] = "leased"
  \/ \E w \in Workers : Gates(w, j)
  \/ status[j] \in {"ready", "retry_wait", "leased"} /\ status'[j] = "cancelled"
  \/ /\ j \in Stale /\ status'[j] = "ready"
     /\ reopened'[j] = reopened[j] + 1
  \/ \E w \in Workers : Answers(w, j)
  \/ \E o \in Operators : Overwrites(o, j)

LEMMA StatusMoves ==
  ASSUME Ledger, [Next]_vars, NEW j \in Jobs, status'[j] # status[j]
  PROVE  Moves(j)
<1>0. TypeOK
  BY DEF Ledger, Typed
<1> USE <1>0 DEF TypeOK, jobRow, logRows, runner
<1>1. ASSUME NEW w \in Workers, RunnerStep(w) PROVE Moves(j)
  <2>1. CASE ReclaimStale(w)
    BY <2>1 DEF ReclaimStale, Moves
  <2>2. CASE TryClaim(w)
    BY <2>2 DEF TryClaim, Claim, ClaimFails, LoseRace, Moves
  <2>3. CASE Gate(w)
    BY <2>3 DEF Gate, Admit, Bounce, Transition, WriteJob, Gates, Moves
  <2>4. CASE Record(w)
    <3>1. held[w][1] = j /\ RecordResult(held[w], outcome[w])
      BY <2>4 DEF Record, RecordResult, WriteJob
    <3> QED BY <2>4, <3>1 DEF Record, Goto, Recordable, Answers, Moves
  <2> QED BY <1>1, <2>1, <2>2, <2>3, <2>4 DEF RunnerStep, BeginRound,
             SelectReady, Prepare, Perform, Fail
<1>2. ASSUME NEW w \in Workers, HostStep(w) PROVE Moves(j)
  BY <1>2 DEF HostStep, Attach, Release, Crash, StorageError, Forget,
              HostCancel, Transition, WriteJob, Moves
<1>3. ASSUME NEW o \in Operators, PlatformStep(o) PROVE Moves(j)
  <2>1. CASE WriteRetry(o)
    BY <2>1 DEF WriteRetry, WriteJob, Overwrites, Moves
  <2>2. CASE WriteCancel(o)
    BY <2>2 DEF WriteCancel, WriteJob, Overwrites, Moves
  <2> QED BY <1>3, <2>1, <2>2 DEF PlatformStep, AskRetry, AskCancel
<1>4. ASSUME NEW k \in Jobs, JobStep(k) PROVE Moves(j)
  BY <1>4 DEF JobStep, CreateJob, WriteJob, BackoffEnds, FloodEnds, GrowsOld,
              Moves
<1>5. CASE UNCHANGED vars
  BY <1>5 DEF vars
<1> QED BY <1>1, <1>2, <1>3, <1>4, <1>5 DEF Next

(* What an answer makes of its job.                                         *)
LEMMA AnswerWrites ==
  ASSUME Ledger, NEW w \in Workers, NEW j \in Jobs, Answers(w, j)
  PROVE  /\ held[w] \in Attempt /\ held[w] \in rows
         /\ outcome[w] \in Outcome
         /\ status'[j] = StatusAfter(outcome[w], held[w][2])
<1>1. pc[w] \in Working /\ pc[w] = "record" /\ held[w][1] = j
  BY DEF Answers, Working
<1>2. held[w] \in Attempt /\ held[w] \in rows
  BY <1>1, HeldType DEF Ledger
<1>3. outcome[w] \in Outcome
  BY <1>1 DEF Ledger, Typed, RecordsAnAnswer
<1>4. status' = [status EXCEPT ![j] = StatusAfter(outcome[w], held[w][2])]
  BY <1>1 DEF Answers, RecordResult, WriteJob
<1> QED BY <1>2, <1>3, <1>4 DEF Ledger, Typed, TypeOK

(* What the statuses say is true of the log and the map.                    *)
Statuses == SucceededHasAttempt /\ SucceededIsMapped /\ GivesUpLate

LEMMA InitStatuses == Init => Statuses
  BY DEF Init, Statuses, SucceededHasAttempt, SucceededIsMapped, GivesUpLate

LEMMA StatusesStep == Ledger /\ Statuses /\ [Next]_vars => Statuses'
<1> SUFFICES ASSUME Ledger, Statuses, [Next]_vars PROVE Statuses'
  OBVIOUS
<1>1. ASSUME NEW j \in Jobs, status'[j] = "succeeded"
      PROVE  \E a \in won' : a[1] = j
  <2>1. CASE status[j] = "succeeded"
    BY <2>1, WinsStay DEF Statuses, SucceededHasAttempt
  <2>2. CASE status[j] # "succeeded"
    <3>1. PICK w \in Workers : Answers(w, j)
      BY <1>1, <2>2, StatusMoves DEF Moves, Gates, Overwrites
    <3>2. outcome[w] = "succeeded"
      BY <1>1, <3>1, AnswerWrites DEF StatusAfter
    <3>3. held[w] \in won' /\ held[w][1] = j
      BY <3>1, <3>2 DEF Answers, RecordResult, FinishAttempt
    <3> QED BY <3>3
  <2> QED BY <2>1, <2>2
<1>2. ASSUME NEW j \in Jobs, status'[j] = "succeeded", Kind[j] = "send"
      PROVE  map'[Source[j]] # NoTarget
  <2>0. Source[j] \in Sources
    BY DEF Sources
  <2>1. CASE map[Source[j]] # NoTarget
    BY <2>0, <2>1, MapStep
  <2>2. CASE map[Source[j]] = NoTarget
    <3>1. status[j] # "succeeded"
      BY <1>2, <2>2 DEF Statuses, SucceededIsMapped
    <3>2. PICK w \in Workers : Answers(w, j)
      BY <1>2, <3>1, StatusMoves DEF Moves, Gates, Overwrites
    <3>3. outcome[w] = "succeeded" /\ held[w] \in Attempt
      BY <1>2, <3>2, AnswerWrites DEF StatusAfter
    <3>4. map' = [map EXCEPT ![Source[j]] = held[w]]
      BY <1>2, <2>2, <3>2, <3>3 DEF Answers, RecordResult, MapsResult, Target
    <3>5. map'[Source[j]] = held[w]
      BY <2>0, <3>4 DEF Ledger, Typed, TypeOK
    <3> QED BY <3>3, <3>5, ConstantsAssumption DEF Attempt
  <2> QED BY <2>1, <2>2
<1>3. ASSUME NEW j \in Jobs, status'[j] = "dead_letter"
      PROVE  tries'[j] >= MaxAttempts
  <2>0. /\ tries[j] \in Nat /\ MaxAttempts \in Nat
        /\ tries'[j] \in {tries[j], tries[j] + 1}
    BY CountStep, MaxAttemptsAssumption DEF Ledger, Typed, TypeOK
  <2>1. tries[j] >= MaxAttempts
    <3>1. CASE status[j] = "dead_letter"
      BY <3>1 DEF Statuses, GivesUpLate
    <3>2. CASE status[j] # "dead_letter"
      <4>1. PICK w \in Workers : Answers(w, j)
        BY <1>3, <3>2, StatusMoves DEF Moves, Gates, Overwrites
      <4>2. /\ held[w] \in Attempt /\ held[w][1] = j
            /\ held[w] \in {a \in rows : a[1] = j}
        BY <4>1, AnswerWrites DEF Answers
      <4>3. ~RetryLeft(held[w][2])
        BY <1>3, <4>1, AnswerWrites DEF StatusAfter, Outcome, Failure
      <4>4. held[w] \in {j} \X (1..tries[j])
        BY <4>2 DEF Ledger, LogIsGapless
      <4>5. held[w][2] \in Nat /\ held[w][2] <= tries[j]
        BY <2>0, <4>4
      <4> QED BY <2>0, <4>3, <4>5 DEF RetryLeft
    <3> QED BY <3>1, <3>2
  <2> QED BY <2>0, <2>1
<1> QED BY <1>1, <1>2, <1>3
        DEF Statuses, SucceededHasAttempt, SucceededIsMapped, GivesUpLate

(* An answer is an edge of the table.                                       *)
LEMMA AnswerIsEdge ==
  ASSUME Ledger, NEW w \in Workers, NEW j \in Jobs, Answers(w, j)
  PROVE  CanTransition(status[j], status'[j])
<1>1. status[j] = "sending"
  BY DEF Answers
<1>2. status'[j] \in {"succeeded", "retry_wait", "blocked", "failed_permanent",
                      "dead_letter", "uncertain"}
  BY AnswerWrites DEF StatusAfter
<1> QED BY <1>1, <1>2 DEF CanTransition, Edges

(* Only a pending retry takes a job out of `uncertain` other than by       *)
(* cancelling it.                                                          *)
LEMMA UncertainMoves ==
  ASSUME Ledger, [Next]_vars, NEW j \in Jobs, status[j] = "uncertain",
         status'[j] \notin {"uncertain", "cancelled"}
  PROVE  \E o \in Operators : request[o].job = j /\ request[o].op = "retry"
<1>1. Moves(j)
  BY StatusMoves
<1> QED BY <1>1 DEF Moves, Gates, Stale, Answers, Overwrites

-----------------------------------------------------------------------------
(* Duplicates.  A job is carried out once per time it could be claimed: an *)
(* attempt is spent when Telegram carried it out, or a runner is still     *)
(* about to ask for it, and a job that can be claimed will spend one more. *)
(* A claim turns the second into the first, a bounced runner the first     *)
(* into the second, and only a reclaim or a retry adds to the sum.         *)
Sending   == {"gate", "exec", "wire"}
Claimable == {"absent", "ready"}

Pursued(a) == \E w \in Workers : pc[w] \in Sending /\ held[w] = a
Spent(j)   == {a \in rows : a[1] = j /\ (a \in acted \/ Pursued(a))}
ToSpend(j) == IF status[j] \in Claimable THEN 1 ELSE 0

Accounted ==
  \A j \in Jobs : Cardinality(Spent(j)) + ToSpend(j) <= 1 + reopened[j]

LEMMA SpentIsFinite ==
  ASSUME Ledger, NEW j \in Jobs
  PROVE  /\ IsFiniteSet(Spent(j))
         /\ Cardinality(Spent(j)) \in Nat
<1>1. tries[j] \in Nat
  BY DEF Ledger, Typed, TypeOK
<1>2. IsFiniteSet({j} \X (1..tries[j]))
  <2>1. IsFiniteSet({j})
    BY FS_Singleton
  <2>2. IsFiniteSet(1..tries[j])
    BY <1>1, FS_Interval
  <2> QED BY <2>1, <2>2, FS_Product
<1>3. Spent(j) \subseteq {j} \X (1..tries[j])
  BY DEF Spent, Ledger, LogIsGapless
<1>4. IsFiniteSet(Spent(j))
  BY <1>2, <1>3, FS_Subset
<1> QED BY <1>4, FS_CardinalityType

LEMMA InitAccounted == Init => Accounted
<1> SUFFICES ASSUME Init, NEW j \in Jobs
             PROVE  Cardinality(Spent(j)) + ToSpend(j) <= 1 + reopened[j]
  BY DEF Accounted
<1>1. Spent(j) = {}
  BY DEF Init, Spent
<1>2. Cardinality(Spent(j)) = 0
  BY <1>1, FS_EmptySet
<1>3. ToSpend(j) = 1 /\ reopened[j] = 0
  BY DEF Init, ToSpend, Claimable
<1> QED BY <1>2, <1>3

(* Reclaims and retries are counted.                                       *)
LEMMA ReopenedStep ==
  ASSUME Ledger, [Next]_vars, NEW j \in Jobs
  PROVE  reopened'[j] \in {reopened[j], reopened[j] + 1}
<1>0. reopened \in [Jobs -> Nat]
  BY DEF Ledger, Typed, TypeOK
<1>1. ASSUME NEW w \in Workers, RunnerStep(w)
      PROVE  reopened'[j] \in {reopened[j], reopened[j] + 1}
  BY <1>0, <1>1 DEF RunnerStep, BeginRound, ReclaimStale, SelectReady, TryClaim,
              Gate, Prepare, Perform, Fail, Record
<1>2. ASSUME NEW w \in Workers, HostStep(w) PROVE reopened' = reopened
  BY <1>2 DEF HostStep, Attach, Release, Crash, StorageError, Forget, HostCancel
<1>3. ASSUME NEW o \in Operators, PlatformStep(o)
      PROVE  reopened'[j] \in {reopened[j], reopened[j] + 1}
  BY <1>0, <1>3 DEF PlatformStep, AskRetry, AskCancel, WriteRetry, WriteCancel
<1>4. ASSUME NEW k \in Jobs, JobStep(k) PROVE reopened' = reopened
  BY <1>4 DEF JobStep, CreateJob, BackoffEnds, FloodEnds, GrowsOld
<1>5. CASE UNCHANGED vars
  BY <1>5 DEF vars
<1> QED BY <1>1, <1>2, <1>3, <1>4, <1>5 DEF Next

(* No step but a claim adds to what is spent.                              *)
LEMMA QuietSpends ==
  ASSUME Ledger, Quiet, NEW j \in Jobs
  PROVE  Spent(j)' \subseteq Spent(j)
<1> SUFFICES ASSUME NEW a \in rows, Pursued(a)' PROVE Pursued(a) \/ a = NoTarget
  BY ConstantsAssumption DEF Quiet, Spent, Ledger, Typed, TypeOK, Attempt
<1> QED BY DEF Quiet, Stays, Rests, GoesOn, Pursued, Sending, Working

LEMMA PerformSpends ==
  ASSUME Ledger, NEW w \in Workers, Perform(w), NEW j \in Jobs
  PROVE  /\ Spent(j)' \subseteq Spent(j)
         /\ UNCHANGED <<status, reopened>>
<1>0. DOMAIN pc = Workers
  BY DEF Ledger, Typed, TypeOK
<1>1. /\ pc[w] = "wire" /\ pc' = [pc EXCEPT ![w] = "record"]
      /\ acted' = acted \cup {held[w]}
      /\ UNCHANGED <<rows, held, status, reopened>>
  BY DEF Perform, Goto, jobRow, logRows
<1>2. \A a : Pursued(a)' => Pursued(a)
  BY <1>0, <1>1 DEF Pursued, Sending
<1>3. Pursued(held[w])
  BY <1>1 DEF Pursued, Sending
<1> QED BY <1>1, <1>2, <1>3 DEF Spent

LEMMA RecordSpends ==
  ASSUME Ledger, NEW w \in Workers, Record(w), NEW j \in Jobs
  PROVE  /\ Spent(j)' \subseteq Spent(j)
         /\ reopened' = reopened
         /\ status'[j] \in Claimable => status[j] \in Claimable
<1>0. DOMAIN pc = Workers /\ DOMAIN held = Workers
  BY DEF Ledger, Typed, TypeOK
<1>1. /\ pc' = [pc EXCEPT ![w] = pc'[w]] /\ pc'[w] \notin Sending
      /\ held' = [held EXCEPT ![w] = NoTarget]
      /\ UNCHANGED <<rows, acted, reopened>>
  BY <1>0 DEF Record, Goto, Sending, logRows, RecordResult, FinishAttempt
<1>2. \A a : Pursued(a)' => Pursued(a)
  BY <1>0, <1>1 DEF Pursued
<1>3. Spent(j)' \subseteq Spent(j)
  BY <1>1, <1>2 DEF Spent
<1>4. ASSUME status'[j] \in Claimable, status'[j] # status[j] PROVE FALSE
  <2>1. RecordResult(held[w], outcome[w]) /\ held[w][1] = j
    BY <1>4 DEF Record, RecordResult, WriteJob, jobRow, Ledger, Typed, TypeOK
  <2>2. status'[j] = StatusAfter(outcome[w], held[w][2])
    BY <2>1 DEF RecordResult, WriteJob, Ledger, Typed, TypeOK
  <2> QED BY <1>4, <2>2 DEF StatusAfter, Claimable
<1> QED BY <1>1, <1>3, <1>4

(* A claim spends what was to be spent.                                    *)
LEMMA ClaimSpends ==
  ASSUME Ledger, NEW w \in Workers, NEW k \in DOMAIN seen[w], Claims(w, k),
         NEW j \in Jobs
  PROVE  /\ k \in Jobs
         /\ j # k => Spent(j)' \subseteq Spent(j) /\ status'[j] = status[j]
         /\ j = k => /\ \E a : Spent(j)' \subseteq Spent(j) \cup {a}
                     /\ status[j] = "ready" /\ status'[j] = "leased"
<1> DEFINE b == <<k, tries[k] + 1>>
<1>0. /\ DOMAIN pc = Workers /\ DOMAIN held = Workers
      /\ status \in [Jobs -> Status \cup {"absent"}] /\ rows \subseteq Attempt
  BY DEF Ledger, Typed, TypeOK
<1>1. /\ k \in Jobs /\ rows' = rows \cup {b} /\ b[1] = k
      /\ held' = [held EXCEPT ![w] = b]
      /\ pc[w] = "claim" /\ pc' = [pc EXCEPT ![w] = "gate"]
      /\ status[k] = "ready" /\ status' = [status EXCEPT ![k] = "leased"]
      /\ acted' = acted
  BY ClaimExtendsLog DEF Claims, Claim
<1> HIDE DEF b
<1>2. \A a : Pursued(a)' => Pursued(a) \/ a = b
  BY <1>0, <1>1 DEF Pursued
<1>3. Spent(j)' \subseteq Spent(j) \cup {b}
  BY <1>1, <1>2 DEF Spent
<1>4. j # k => b \notin Spent(j)'
  BY <1>1 DEF Spent
<1> QED BY <1>0, <1>1, <1>3, <1>4

(* A runner that puts its job back drops what it had spent.                *)
LEMMA BounceSpends ==
  ASSUME Ledger, Quiet, NEW j \in Jobs, NEW w \in Workers,
         pc[w] = "gate", held[w][1] = j, held'[w] = NoTarget
  PROVE  held[w] \in Spent(j) /\ Spent(j)' \subseteq Spent(j) \ {held[w]}
<1>1. held[w] \in rows /\ held[w] # NoTarget /\ held[w] \notin acted
  BY HeldType, ConstantsAssumption
     DEF Ledger, AttemptActsOnce, Working, Attempt
<1>2. held[w] \in Spent(j)
  BY <1>1 DEF Spent, Pursued, Sending
<1>3. ASSUME NEW v \in Workers, pc'[v] \in Sending, held'[v] = held[w]
      PROVE  FALSE
  <2>1. v # w /\ held[v] = held[w]
    BY <1>1, <1>3 DEF Quiet, Stays, Rests, GoesOn, Sending, Working
  <2> QED BY <1>1, <2>1 DEF Ledger, AttemptHasOneOwner
<1>4. held[w] \notin Spent(j)'
  BY <1>1, <1>3 DEF Spent, Pursued, Quiet
<1> QED BY <1>2, <1>4, QuietSpends

(* The balance of one job, from what a step does to the two sets.          *)
LEMMA Balance ==
  ASSUME Ledger, NEW j \in Jobs,
         Cardinality(Spent(j)) + ToSpend(j) <= 1 + reopened[j],
         reopened'[j] \in {reopened[j], reopened[j] + 1},
         \/ /\ Spent(j)' \subseteq Spent(j)
            /\ \/ status'[j] \in Claimable => status[j] \in Claimable
               \/ reopened'[j] = reopened[j] + 1
         \/ /\ \E a \in Spent(j) : Spent(j)' \subseteq Spent(j) \ {a}
         \/ /\ \E a : Spent(j)' \subseteq Spent(j) \cup {a}
            /\ status[j] \in Claimable /\ status'[j] \notin Claimable
  PROVE  Cardinality(Spent(j))' + ToSpend(j)' <= 1 + reopened'[j]
<1> DEFINE n == Cardinality(Spent(j))
           m == Cardinality(Spent(j)')
<1>1. /\ IsFiniteSet(Spent(j)) /\ n \in Nat /\ reopened[j] \in Nat
      /\ ToSpend(j) \in {0, 1} /\ ToSpend(j)' \in {0, 1}
  BY SpentIsFinite DEF Ledger, Typed, TypeOK, ToSpend
<1>2. CASE /\ Spent(j)' \subseteq Spent(j)
           /\ \/ status'[j] \in Claimable => status[j] \in Claimable
              \/ reopened'[j] = reopened[j] + 1
  <2>1. m <= n /\ m \in Nat
    BY <1>1, <1>2, FS_Subset, FS_CardinalityType
  <2>2. ToSpend(j)' <= ToSpend(j) \/ reopened'[j] = reopened[j] + 1
    BY <1>2 DEF ToSpend
  <2> QED BY <1>1, <2>1, <2>2
<1>3. ASSUME NEW a \in Spent(j), Spent(j)' \subseteq Spent(j) \ {a}
      PROVE  m + ToSpend(j)' <= 1 + reopened'[j]
  <2>1. IsFiniteSet(Spent(j) \ {a}) /\ Cardinality(Spent(j) \ {a}) = n - 1
    BY <1>1, FS_RemoveElement
  <2>2. m <= n - 1 /\ m \in Nat
    BY <1>3, <2>1, FS_Subset, FS_CardinalityType
  <2> QED BY <1>1, <2>2
<1>4. ASSUME NEW a, Spent(j)' \subseteq Spent(j) \cup {a},
             status[j] \in Claimable, status'[j] \notin Claimable
      PROVE  m + ToSpend(j)' <= 1 + reopened'[j]
  <2>0. /\ IsFiniteSet(Spent(j) \cup {a})
        /\ Cardinality(Spent(j) \cup {a}) =
             IF a \in Spent(j) THEN Cardinality(Spent(j))
                               ELSE Cardinality(Spent(j)) + 1
    BY <1>1, FS_AddElement
  <2>1. /\ IsFiniteSet(Spent(j) \cup {a})
        /\ Cardinality(Spent(j) \cup {a}) <= n + 1
        /\ Cardinality(Spent(j) \cup {a}) \in Nat
    BY <1>1, <2>0
  <2>2. m <= Cardinality(Spent(j) \cup {a}) /\ m \in Nat
    BY <1>4, <2>1, FS_Subset, FS_CardinalityType
  <2>3. ToSpend(j) = 1 /\ ToSpend(j)' = 0
    BY <1>4 DEF ToSpend
  <2> QED BY <1>1, <2>1, <2>2, <2>3
<1> QED BY <1>2, <1>3, <1>4

LEMMA AccountedStep == Ledger /\ Accounted /\ [Next]_vars => Accounted'
<1> SUFFICES ASSUME Ledger, Accounted, [Next]_vars, NEW j \in Jobs
             PROVE  Cardinality(Spent(j))' + ToSpend(j)' <= 1 + reopened'[j]
  BY DEF Accounted
<1>0. /\ reopened'[j] \in {reopened[j], reopened[j] + 1}
      /\ Cardinality(Spent(j)) + ToSpend(j) <= 1 + reopened[j]
  BY ReopenedStep DEF Accounted
<1>1. CASE Quiet
  <2>1. Spent(j)' \subseteq Spent(j)
    BY <1>1, QuietSpends
  <2>2. CASE status'[j] \in Claimable => status[j] \in Claimable
    BY <1>0, <2>1, <2>2, Balance
  <2>3. CASE status'[j] \in Claimable /\ status[j] \notin Claimable
    <3>1. \/ reopened'[j] = reopened[j] + 1
          \/ \E w \in Workers : /\ pc[w] = "gate" /\ held[w][1] = j
                                /\ held'[w] = NoTarget
          \/ \E w \in Workers : Answers(w, j)
      BY <2>3, StatusMoves DEF Moves, Gates, Claimable, Overwrites
    <3>2. ASSUME NEW w \in Workers, Answers(w, j) PROVE FALSE
      BY <2>3, <3>2, AnswerWrites DEF StatusAfter, Claimable
    <3>3. ASSUME NEW w \in Workers, pc[w] = "gate", held[w][1] = j,
                 held'[w] = NoTarget
          PROVE  \E a \in Spent(j) : Spent(j)' \subseteq Spent(j) \ {a}
      BY <1>1, <3>3, BounceSpends
    <3> QED BY <1>0, <2>1, <3>1, <3>2, <3>3, Balance
  <2> QED BY <2>2, <2>3
<1>2. ASSUME NEW w \in Workers, NEW k \in DOMAIN seen[w], Claims(w, k)
      PROVE  Cardinality(Spent(j))' + ToSpend(j)' <= 1 + reopened'[j]
  <2>1. CASE j = k
    BY <1>0, <1>2, <2>1, ClaimSpends, Balance DEF Claimable
  <2>2. CASE j # k
    BY <1>0, <1>2, <2>2, ClaimSpends, Balance
  <2> QED BY <2>1, <2>2
<1>3. ASSUME NEW w \in Workers, Perform(w)
      PROVE  Cardinality(Spent(j))' + ToSpend(j)' <= 1 + reopened'[j]
  BY <1>0, <1>3, PerformSpends, Balance
<1>4. ASSUME NEW w \in Workers, Record(w)
      PROVE  Cardinality(Spent(j))' + ToSpend(j)' <= 1 + reopened'[j]
  BY <1>0, <1>4, RecordSpends, Balance
<1> QED BY <1>1, <1>2, <1>3, <1>4, StepKinds

LEMMA AccountedBounds == Ledger /\ Accounted => DuplicatesAreAccounted
<1> SUFFICES ASSUME Ledger, Accounted, NEW j \in Jobs
             PROVE  Cardinality(Effects(j)) <= 1 + reopened[j]
  BY DEF DuplicatesAreAccounted
<1>1. Effects(j) \subseteq Spent(j)
  BY DEF Effects, Spent, Ledger, EffectIsLogged
<1>2. /\ Cardinality(Effects(j)) <= Cardinality(Spent(j))
      /\ Cardinality(Effects(j)) \in Nat /\ Cardinality(Spent(j)) \in Nat
  BY <1>1, SpentIsFinite, FS_Subset, FS_CardinalityType
<1>3. /\ Cardinality(Spent(j)) + ToSpend(j) <= 1 + reopened[j]
      /\ ToSpend(j) \in {0, 1} /\ reopened[j] \in Nat
  BY DEF Accounted, ToSpend, Ledger, Typed, TypeOK
<1> QED BY <1>2, <1>3

-----------------------------------------------------------------------------
(* Retries.  While one request is served at a time, the status a retry     *)
(* judged is the one it overwrites: nobody else moves a job that failed or *)
(* was given up.                                                           *)
OneRequest == \A o, p \in Operators : o = p

RetryStands ==
  \A o \in Operators : request[o].op = "retry"
                        => status[request[o].job] \in Retryable

LEMMA InitRetryStands == Init => RetryStands
  BY DEF Init, RetryStands, Idle

LEMMA RequestMoves ==
  ASSUME Ledger, [Next]_vars, NEW o \in Operators, request'[o].op = "retry"
  PROVE  \/ request'[o] = request[o]
         \/ /\ request'[o].job \in Jobs /\ status' = status
            /\ status[request'[o].job] \in Retryable
<1>0. request \in [Operators -> {Idle} \cup [op : {"retry", "cancel"}, job : Jobs]]
  BY DEF Ledger, Typed, TypeOK
<1>1. ASSUME NEW w \in Workers, RunnerStep(w) PROVE request' = request
  BY <1>1 DEF RunnerStep, BeginRound, ReclaimStale, SelectReady, TryClaim, Gate,
              Prepare, Perform, Fail, Record
<1>2. ASSUME NEW w \in Workers, HostStep(w) PROVE request' = request
  BY <1>2 DEF HostStep, Attach, Release, Crash, StorageError, Forget, HostCancel
<1>3. ASSUME NEW p \in Operators, PlatformStep(p)
      PROVE  \/ request'[o] = request[o]
             \/ /\ request'[o].job \in Jobs /\ status' = status
                /\ status[request'[o].job] \in Retryable
  <2>1. ASSUME NEW j \in Jobs, AskRetry(p, j), p = o
        PROVE  /\ request'[o].job = j /\ status' = status
               /\ status[j] \in Retryable
    BY <1>0, <2>1 DEF AskRetry, jobRow
  <2>2. ASSUME NEW j \in Jobs, AskCancel(p, j), p = o
        PROVE  request'[o].op = "cancel"
    BY <1>0, <2>2 DEF AskCancel
  <2>3. ASSUME WriteRetry(p) \/ WriteCancel(p), p = o
        PROVE  request'[o].op = "none"
    <3>1. request' = [request EXCEPT ![o] = Idle]
      BY <2>3 DEF WriteRetry, WriteCancel
    <3>2. request'[o] = Idle
      BY <1>0, <3>1
    <3> QED BY <3>2 DEF Idle
  <2>4. p # o => request'[o] = request[o]
    BY <1>0, <1>3 DEF PlatformStep, AskRetry, AskCancel, WriteRetry, WriteCancel
  <2> QED BY <1>3, <2>1, <2>2, <2>3, <2>4 DEF PlatformStep
<1>4. ASSUME NEW k \in Jobs, JobStep(k) PROVE request' = request
  BY <1>4 DEF JobStep, CreateJob, BackoffEnds, FloodEnds, GrowsOld
<1>5. CASE UNCHANGED vars
  BY <1>5 DEF vars
<1> QED BY <1>1, <1>2, <1>3, <1>4, <1>5 DEF Next

LEMMA RetryStandsStep ==
  ASSUME OneRequest
  PROVE  Ledger /\ RetryStands /\ [Next]_vars => RetryStands'
<1> SUFFICES ASSUME Ledger, RetryStands, [Next]_vars,
                    NEW o \in Operators, request'[o].op = "retry"
             PROVE  status'[request'[o].job] \in Retryable
  BY DEF RetryStands
<1>1. CASE status' = status /\ status[request'[o].job] \in Retryable
  BY <1>1
<1>2. CASE request'[o] = request[o]
  <2> DEFINE j == request[o].job
  <2>1. request[o] \in {Idle} \cup [op : {"retry", "cancel"}, job : Jobs]
    BY DEF Ledger, Typed, TypeOK
  <2>2. j \in Jobs /\ status[j] \in Retryable
    BY <1>2, <2>1 DEF RetryStands, Idle
  <2>3. CASE status'[j] # status[j]
    <3>1. Moves(j)
      BY <2>2, <2>3, StatusMoves
    <3>2. PICK p \in Operators : Overwrites(p, j)
      BY <2>2, <3>1 DEF Moves, Gates, Stale, Answers, Retryable
    <3>3. request'[o] = Idle
      BY <3>2 DEF Overwrites, OneRequest
    <3> QED BY <3>3 DEF Idle
  <2> QED BY <1>2, <2>2, <2>3
<1> QED BY <1>1, <1>2, RequestMoves

-----------------------------------------------------------------------------
(* The refinement of AttemptLedger.                                        *)

(* The mapped variables.                                                   *)
Book == <<tries, acted, won, map>>

LEMMA InitPromised == Init => Promise!Init
  BY DEF Init, Promise!Init, Sources

(* What a runner holds was opened.                                         *)
LEMMA HeldIsOpened ==
  ASSUME Ledger, NEW w \in Workers, pc[w] \in Working
  PROVE  held[w] \in Promise!Opened
<1>1. held[w] \in rows /\ held[w] \in Attempt /\ held[w][1] \in Jobs
  BY HeldType DEF Ledger
<1>2. held[w] \in {held[w][1]} \X (1..tries[held[w][1]])
  BY <1>1 DEF Ledger, LogIsGapless
<1> QED BY <1>1, <1>2 DEF Promise!Opened

LEMMA ClaimOpens ==
  ASSUME Ledger, NEW w \in Workers, NEW j \in DOMAIN seen[w], Claim(w, j),
         UNCHANGED <<acted, map>>
  PROVE  j \in Jobs /\ Promise!Open(j)
  BY ClaimExtendsLog DEF Claim, LogAttempt, Promise!Open

LEMMA PerformActs ==
  ASSUME Ledger, NEW w \in Workers, Perform(w)
  PROVE  Promise!Act(held[w])
<1>1. pc[w] = "wire" /\ held[w] \notin acted
  BY DEF Perform, Goto, Ledger, AttemptActsOnce
<1>2. acted' = acted \cup {held[w]} /\ UNCHANGED <<tries, won, map>>
  BY DEF Perform, jobRow, logRows
<1> QED BY <1>1, <1>2 DEF Promise!Act

LEMMA RecordWins ==
  ASSUME Ledger, NEW w \in Workers, Record(w)
  PROVE  Promise!Win(held[w]) \/ UNCHANGED Book
<1> DEFINE a == held[w]
<1>0. /\ pc[w] = "record" /\ a \in Attempt /\ a[1] \in Jobs
      /\ outcome[w] = "succeeded" => a \in acted \/ Kind[a[1]] = "delete"
  BY HeldType DEF Record, Goto, Ledger, ReportsAreReal, Working
<1>1. CASE ~Recordable(a[1])
  BY <1>1 DEF Record, Book, jobRow, logRows
<1>2. CASE RecordResult(a, outcome[w]) /\ outcome[w] # "succeeded"
  BY <1>2 DEF Record, RecordResult, WriteJob, FinishAttempt, MapsResult, Book
<1>3. CASE RecordResult(a, outcome[w]) /\ outcome[w] = "succeeded"
  <2>1. won' = won \cup {a} /\ UNCHANGED <<tries, acted>>
    BY <1>3 DEF Record, RecordResult, WriteJob, FinishAttempt
  <2>2. a[1] \in {j \in Jobs : Kind[j] = "delete"} \/ a \in acted
    BY <1>0, <1>3
  <2>3. map' = IF /\ a[1] \in {j \in Jobs : Kind[j] = "send"}
                  /\ map[Source[a[1]]] = NoTarget
                 THEN [map EXCEPT ![Source[a[1]]] = a] ELSE map
    BY <1>0, <1>3 DEF RecordResult, MapsResult, Target
  <2> QED BY <2>1, <2>2, <2>3 DEF Promise!Win
<1> QED BY <1>1, <1>2, <1>3 DEF Record

LEMMA StepPromised == Ledger /\ [Next]_vars => [Promise!Next]_(Promise!vars)
<1> SUFFICES ASSUME Ledger, [Next]_vars
             PROVE  Promise!Next \/ UNCHANGED Book
  BY DEF Promise!vars, Book
<1>1. ASSUME NEW w \in Workers, NEW j \in DOMAIN seen[w], Claims(w, j)
      PROVE  Promise!Next
  BY <1>1, ClaimOpens DEF Claims, Promise!Next
<1>2. ASSUME NEW w \in Workers, Perform(w)
      PROVE  Promise!Next
  BY <1>2, PerformActs, HeldIsOpened DEF Promise!Next, Perform, Goto, Working
<1>3. ASSUME NEW w \in Workers, Record(w)
      PROVE  Promise!Next \/ UNCHANGED Book
  BY <1>3, RecordWins, HeldIsOpened DEF Promise!Next, Record, Goto, Working
<1> QED BY <1>1, <1>2, <1>3, StepKinds DEF Quiet, Book

-----------------------------------------------------------------------------
(* The theorems.                                                           *)

(* The ledger holds in every reachable state.                              *)
THEOREM LedgerHolds == Spec => []Ledger
  BY InitLedger, LedgerStep, PTL DEF Spec

(* Type correctness: every handler leaves every row and every runner well  *)
(* typed.                                                                  *)
THEOREM TypeCorrect == Spec => []TypeOK
<1>1. Ledger => TypeOK
  BY DEF Ledger, Typed
<1> QED BY <1>1, LedgerHolds, PTL

(* claim_next: a job's attempt rows are numbered 1..attempt_count.         *)
THEOREM GaplessLog == Spec => []LogIsGapless
<1>1. Ledger => LogIsGapless
  BY DEF Ledger
<1> QED BY <1>1, LedgerHolds, PTL

(* claim_next: whatever is reclaimed, retried or claimed twice, an attempt *)
(* belongs to one runner.                                                  *)
THEOREM OneOwner == Spec => []AttemptHasOneOwner
<1>1. Ledger => AttemptHasOneOwner
  BY DEF Ledger
<1> QED BY <1>1, LedgerHolds, PTL

(* send_next: an attempt reaches Telegram at most once, and not before its *)
(* row is committed.                                                       *)
THEOREM ActsOnceAndLogged == Spec => [](AttemptActsOnce /\ EffectIsLogged)
<1>1. Ledger => AttemptActsOnce /\ EffectIsLogged
  BY DEF Ledger
<1> QED BY <1>1, LedgerHolds, PTL

(* record_result: no success is recorded that did not happen.              *)
THEOREM SuccessesAreReal == Spec => []SuccessIsReal
<1>1. Ledger => SuccessIsReal
  BY DEF Ledger
<1> QED BY <1>1, LedgerHolds, PTL

(* record_result: the map names only messages that copy jobs of that very  *)
(* source sent.                                                            *)
THEOREM TargetsAreReal == Spec => []MapNamesRealMessage
<1>1. Ledger => MapNamesRealMessage
  BY DEF Ledger
<1> QED BY <1>1, LedgerHolds, PTL

(* claim_next: the count written was read in an earlier statement, and yet *)
(* attempt_count never moves back.                                         *)
THEOREM CountsGrow == Spec => TriesOnlyGrow
<1>1. Ledger /\ [Next]_vars =>
        [\A j \in Jobs : tries'[j] \in {tries[j], tries[j] + 1}]_vars
  BY CountStep
<1> QED BY <1>1, LedgerHolds, PTL DEF Spec, TriesOnlyGrow

(* record_result: a source's first mapped message stays its target.        *)
THEOREM MapFinal == Spec => MapIsFinal
<1>1. Ledger /\ [Next]_vars =>
        [\A s \in Sources : map[s] # NoTarget => map'[s] = map[s]]_vars
  BY MapStep
<1> QED BY <1>1, LedgerHolds, PTL DEF Spec, MapIsFinal

(* send_next, _reclaim_stale_sending, retry: a job reaches Telegram at most *)
(* once more than it was made ready again; no twin, lost claim, bounce or  *)
(* crash adds a duplicate.                                                 *)
THEOREM DuplicatesBounded == Spec => []DuplicatesAreAccounted
<1>1. Spec => []Ledger
  BY LedgerHolds
<1>2. Spec => []Accounted
  BY <1>1, InitAccounted, AccountedStep, PTL DEF Spec
<1> QED BY <1>1, <1>2, AccountedBounds, PTL

(* record_result: the statuses agree with the log, the map and the budget. *)
LEMMA StatusesHold == Spec => []Statuses
<1>1. Spec => []Ledger
  BY LedgerHolds
<1> QED BY <1>1, InitStatuses, StatusesStep, PTL DEF Spec

(* record_result: a job reads 'succeeded' only if one of its attempts does. *)
THEOREM SuccessHasAttempt == Spec => []SucceededHasAttempt
<1>1. Statuses => SucceededHasAttempt
  BY DEF Statuses
<1> QED BY <1>1, StatusesHold, PTL

(* record_result: a copy that reads 'succeeded' has a target in the map.   *)
THEOREM SuccessIsMapped == Spec => []SucceededIsMapped
<1>1. Statuses => SucceededIsMapped
  BY DEF Statuses
<1> QED BY <1>1, StatusesHold, PTL

(* RetryPolicy: a job is given up only when its whole budget was claimed.  *)
THEOREM GivenUpLate == Spec => []GivesUpLate
<1>1. Statuses => GivesUpLate
  BY DEF Statuses
<1> QED BY <1>1, StatusesHold, PTL

(* can_transition: whoever writes a status, the change is an edge of the   *)
(* table, a reclaim, or the platform's.                                    *)
THEOREM EdgesOnly == Spec => ChangesAreEdges
<1>1. Ledger /\ [Next]_vars =>
        [\A j \in Jobs : status'[j] # status[j] =>
           \/ status[j] = "absent" /\ status'[j] \in {"ready", "waiting_approval"}
           \/ CanTransition(status[j], status'[j])
           \/ j \in Stale /\ status'[j] = "ready"
           \/ request' # request]_vars
  <2> SUFFICES ASSUME Ledger, [Next]_vars, NEW j \in Jobs,
                      status'[j] # status[j]
               PROVE  \/ /\ status[j] = "absent"
                         /\ status'[j] \in {"ready", "waiting_approval"}
                      \/ CanTransition(status[j], status'[j])
                      \/ j \in Stale /\ status'[j] = "ready"
                      \/ request' # request
    OBVIOUS
  <2>1. ASSUME \/ status[j] = "ready" /\ status'[j] = "leased"
               \/ \E w \in Workers : Gates(w, j)
               \/ /\ status[j] \in {"ready", "retry_wait", "leased"}
                  /\ status'[j] = "cancelled"
        PROVE  CanTransition(status[j], status'[j])
    BY <2>1 DEF Gates, CanTransition, Edges, Withdrawn
  <2>2. ASSUME NEW o \in Operators, Overwrites(o, j) PROVE request' # request
    BY <2>2 DEF Overwrites, Idle
  <2> QED BY <2>1, <2>2, AnswerIsEdge, StatusMoves DEF Moves
<1> QED BY <1>1, LedgerHolds, PTL DEF Spec, ChangesAreEdges

(* 8.4: no runner, host or reclaim touches a job of unknown result, however *)
(* many requests there are; only a retry that judged an earlier status can. *)
THEOREM OnlyRetriesRevive ==
  Spec => [][\A j \in Jobs :
               status[j] = "uncertain" /\ status'[j] \notin {"uncertain", "cancelled"}
                 => \E o \in Operators : request[o].job = j
                                         /\ request[o].op = "retry"]_vars
<1>1. Ledger /\ [Next]_vars =>
        [\A j \in Jobs :
           status[j] = "uncertain" /\ status'[j] \notin {"uncertain", "cancelled"}
             => \E o \in Operators : request[o].job = j
                                     /\ request[o].op = "retry"]_vars
  BY UncertainMoves
<1> QED BY <1>1, LedgerHolds, PTL DEF Spec

(* Hence, while the platform serves one request at a time, an uncertain    *)
(* job stays put until it is cancelled (retry and cancel read, judge and   *)
(* write: with two at a time this is false).                               *)
THEOREM UncertainStays ==
  ASSUME OneRequest
  PROVE  Spec => UncertainIsHeld
<1>1. Spec => []Ledger
  BY LedgerHolds
<1>2. Spec => []RetryStands
  BY <1>1, InitRetryStands, RetryStandsStep, PTL DEF Spec
<1>3. Ledger /\ RetryStands /\ [Next]_vars =>
        [\A j \in Jobs : status[j] = "uncertain"
                          => status'[j] \in {"uncertain", "cancelled"}]_vars
  BY UncertainMoves DEF RetryStands, Retryable
<1> QED BY <1>1, <1>2, <1>3, PTL DEF Spec, UncertainIsHeld

(* claim_next, the transport and record_result together keep the ledger:   *)
(* the delivery path implements its abstract specification.                *)
THEOREM Implements == Spec => KeepsTheLedger
<1>1. Spec => []Ledger
  BY LedgerHolds
<1> QED BY <1>1, InitPromised, StepPromised, PTL
        DEF Spec, KeepsTheLedger, Promise!Spec

=============================================================================
