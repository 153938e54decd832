----------------------------- MODULE AccountProofs -----------------------------
(***************************************************************************)
(* What Account keeps, whatever the packages, logins, requests and hosts:  *)
(* the types, the session of every account and the one account of every    *)
(* identity.                                                               *)
(***************************************************************************)
EXTENDS Account, TLAPS

(* The type invariant, in the parts the actions leave alone one by one.    *)
TableOK ==
  /\ row      \in [Rows -> {"none", "live", "deleted"}]
  /\ desired  \in [Rows -> {"running", "stopped"}]
  /\ observed \in [Rows -> Statuses]

ImportsOK ==
  /\ importing \in [Imports -> {"no", "checking", "planned", "over"}]
  /\ planned \in [Imports -> SUBSET Items]

LoginsOK ==
  /\ begun \subseteq Logins /\ pending \subseteq Logins
  /\ draft \subseteq Logins
  /\ completing \in [Completions -> {"no", "signing", "signed", "moved", "over"}]

ConsoleOK ==
  /\ cleaning \subseteq Rows /\ enabled \subseteq Rows
  /\ acts \in 0..MaxActs

HostsOK ==
  /\ listing \in [Hosts -> {Nobody} \cup (SUBSET Rows)]
  /\ todo \in [Hosts -> SUBSET Rows]
  /\ held \in [Hosts -> SUBSET Rows]
  /\ lease \in [Rows -> Hosts \cup {Nobody}]

FilesOK == files \subseteq Rows

FaultsOK == faults \in 0..MaxFaults

loginVars == <<begun, pending, draft, completing>>

LEMMA TypeParts ==
  /\ TypeOK <=> TableOK /\ ImportsOK /\ LoginsOK /\ ConsoleOK /\ HostsOK /\ FilesOK /\ FaultsOK
  /\ TypeOK' <=> /\ TableOK' /\ ImportsOK' /\ LoginsOK' /\ ConsoleOK'
                 /\ HostsOK' /\ FilesOK' /\ FaultsOK'
BY DEF TypeOK, TableOK, ImportsOK, LoginsOK, ConsoleOK, HostsOK, FilesOK, FaultsOK

(* A part nobody touches keeps its type.                                   *)
LEMMA PartsStay ==
  /\ TableOK /\ UNCHANGED table => TableOK'
  /\ ImportsOK /\ UNCHANGED <<importing, planned>> => ImportsOK'
  /\ LoginsOK /\ UNCHANGED loginVars => LoginsOK'
  /\ ConsoleOK /\ UNCHANGED console => ConsoleOK'
  /\ HostsOK /\ UNCHANGED hosts => HostsOK'
  /\ FilesOK /\ UNCHANGED files => FilesOK'
  /\ FaultsOK /\ UNCHANGED faults => FaultsOK'
BY DEF TableOK, ImportsOK, LoginsOK, ConsoleOK, HostsOK, FilesOK, FaultsOK,
       table, loginVars, console, hosts

(* The names of the rows.                                                  *)
LEMMA RowNames ==
  /\ Items \subseteq Rows
  /\ \A c \in Completions : <<c, 0>> \in Rows
BY DEF Rows

(* Accounts are created with a status of theirs.                           *)
LEMMA CreateTypes ==
  ASSUME TableOK, NEW new, Create(new)
  PROVE  TableOK'
<1>1. row' \in [Rows -> {"none", "live", "deleted"}]
  BY DEF TableOK, Create
<1>2. desired' \in [Rows -> {"running", "stopped"}]
  BY DEF TableOK, Create
<1>3. observed' \in [Rows -> Statuses]
  BY DEF TableOK, Create, Statuses
<1> QED BY <1>1, <1>2, <1>3 DEF TableOK

(* A report leaves a status, whatever it says.                             *)
LEMMA ReportTypes ==
  ASSUME TableOK, NEW r \in Rows, NEW status \in Statuses, Report(r, status)
  PROVE  TableOK'
BY DEF TableOK, Report

-----------------------------------------------------------------------------
LEMMA InitTypes == Init => TypeOK
BY ConstantsAssumption DEF Init, TypeOK, Statuses, ConstantsAssumption

(* The requests of the console and their subprocesses.                     *)
LEMMA ImportTypes ==
  ASSUME TypeOK, NEW q \in Imports,
         ImportBegins(q) \/ ImportPlans(q) \/ ImportCommits(q) \/ ImportFails(q)
  PROVE  TypeOK'
<1> USE TypeParts, PartsStay
<1>0. LoginsOK' /\ ConsoleOK' /\ HostsOK' /\ FaultsOK'
  BY DEF ImportBegins, ImportPlans, ImportCommits, ImportFails, LoginsStay, loginVars
<1>1. CASE ImportBegins(q)
  <2>1. ImportsOK' BY <1>1 DEF ImportBegins, ImportAt, ImportsOK
  <2> QED BY <1>0, <1>1, <2>1 DEF ImportBegins
<1>2. CASE ImportPlans(q)
  <2>1. ImportsOK' BY <1>2 DEF ImportPlans, ImportAt, ImportsOK
  <2>2. FilesOK' BY <1>2, RowNames DEF ImportPlans, FilesOK
  <2> QED BY <1>0, <1>2, <2>1, <2>2 DEF ImportPlans
<1>3. CASE ImportCommits(q)
  <2>1. ImportsOK' BY <1>3 DEF ImportCommits, ImportAt, ImportsOK
  <2>2. TableOK' BY <1>3, CreateTypes DEF ImportCommits
  <2> QED BY <1>0, <1>3, <2>1, <2>2 DEF ImportCommits
<1>4. CASE ImportFails(q)
  <2>1. ImportsOK' BY <1>4 DEF ImportFails, ImportAt, ImportsOK
  <2> QED BY <1>0, <1>4, <2>1 DEF ImportFails
<1> QED BY <1>1, <1>2, <1>3, <1>4

LEMMA LoginTypes ==
  ASSUME TypeOK, NEW l \in Logins, LoginStarts(l)
  PROVE  TypeOK'
<1> USE TypeParts, PartsStay
<1>1. LoginsOK' BY DEF LoginStarts, Purge, LoginsOK
<1> QED BY <1>1 DEF LoginStarts

LEMMA CompletionTypes ==
  ASSUME TypeOK, NEW c \in Completions, CompleteNext(c)
  PROVE  TypeOK'
<1> USE TypeParts, PartsStay
<1>a. For[c] \in Logins BY ConstantsAssumption DEF ConstantsAssumption
<1>0. ImportsOK' /\ ConsoleOK' /\ HostsOK' /\ FaultsOK'
  BY DEF CompleteNext, CompleteBegins, SignsIn, FindsAccount, MovesFile,
         CompleteCommits, CompleteFails, Elsewhere
<1>1. CASE CompleteBegins(c)
  <2>1. LoginsOK'
    BY <1>1 DEF CompleteBegins, Purge, CompletionAt, Elsewhere, LoginsOK
  <2> QED BY <1>0, <1>1, <2>1 DEF CompleteBegins
<1>2. CASE SignsIn(c)
  <2>1. LoginsOK'
    BY <1>a, <1>2 DEF SignsIn, CompletionAt, Elsewhere, LoginsOK
  <2> QED BY <1>0, <1>2, <2>1 DEF SignsIn
<1>3. CASE FindsAccount(c)
  <2>1. LoginsOK'
    BY <1>3 DEF FindsAccount, CompletionAt, Elsewhere, LoginsOK
  <2> QED BY <1>0, <1>3, <2>1 DEF FindsAccount
<1>4. CASE MovesFile(c)
  <2>1. LoginsOK'
    BY <1>4 DEF MovesFile, CompletionAt, Elsewhere, LoginsOK
  <2>2. FilesOK' BY <1>4, RowNames DEF MovesFile, FilesOK
  <2> QED BY <1>0, <1>4, <2>1, <2>2 DEF MovesFile
<1>5. CASE CompleteCommits(c)
  <2>1. LoginsOK'
    BY <1>5 DEF CompleteCommits, CompletionAt, Elsewhere, LoginsOK
  <2>2. TableOK' BY <1>5, CreateTypes DEF CompleteCommits
  <2> QED BY <1>0, <1>5, <2>1, <2>2 DEF CompleteCommits
<1>6. CASE CompleteFails(c)
  <2>1. LoginsOK'
    BY <1>6 DEF CompleteFails, CompletionAt, Elsewhere, LoginsOK
  <2> QED BY <1>0, <1>6, <2>1 DEF CompleteFails
<1> QED BY <1>1, <1>2, <1>3, <1>4, <1>5, <1>6 DEF CompleteNext

LEMMA ConsoleTypes ==
  ASSUME TypeOK,
         \/ \E r \in Rows : Update(r, "running") \/ Update(r, "stopped") \/ Delete(r)
         \/ DeleteFrozenReads \/ DeleteFrozenWrites
  PROVE  TypeOK'
<1> USE TypeParts, PartsStay
<1>1. ASSUME NEW r \in Rows, NEW to \in {"running", "stopped"}, Update(r, to)
      PROVE  TypeOK'
  <2>1. TableOK' BY <1>1 DEF Update, TableOK
  <2>2. ConsoleOK'
    BY <1>1, ConstantsAssumption DEF Update, Act, ConsoleOK, ConstantsAssumption
  <2> QED BY <1>1, <2>1, <2>2 DEF Update, requests, loginVars
<1>2. ASSUME NEW r \in Rows, Delete(r)
      PROVE  TypeOK'
  <2>1. TableOK' BY <1>2 DEF Delete, TableOK
  <2>2. ConsoleOK'
    BY <1>2, ConstantsAssumption DEF Delete, Act, ConsoleOK, ConstantsAssumption
  <2> QED BY <1>2, <2>1, <2>2 DEF Delete, requests, loginVars
<1>3. CASE DeleteFrozenReads
  <2>1. ConsoleOK'
    BY <1>3, ConstantsAssumption DEF DeleteFrozenReads, Act, ConsoleOK, ConstantsAssumption
  <2> QED BY <1>3, <2>1 DEF DeleteFrozenReads, requests, loginVars
<1>4. CASE DeleteFrozenWrites
  <2>1. TableOK' BY <1>4 DEF DeleteFrozenWrites, TableOK
  <2>2. ConsoleOK' BY <1>4 DEF DeleteFrozenWrites, ConsoleOK
  <2> QED BY <1>4, <2>1, <2>2 DEF DeleteFrozenWrites, requests, loginVars
<1> QED BY <1>1, <1>2, <1>3, <1>4

(* The hosts.                                                              *)
LEMMA HostTypes ==
  ASSUME TypeOK, NEW h \in Hosts, HostNext(h)
  PROVE  TypeOK'
<1> USE TypeParts, PartsStay
<1>0. ImportsOK' /\ LoginsOK' /\ ConsoleOK' /\ FilesOK' /\ FaultsOK'
  BY DEF HostNext, Pull, EndReconcile, Release, Assign, HeldElsewhere, requests, loginVars
<1>1. CASE Pull(h)
  <2>1. HostsOK' BY <1>1 DEF Pull, HostsOK
  <2> QED BY <1>0, <1>1, <2>1 DEF Pull
<1>2. CASE EndReconcile(h)
  <2>1. HostsOK' BY <1>2 DEF EndReconcile, HostsOK
  <2> QED BY <1>0, <1>2, <2>1 DEF EndReconcile
<1>3. ASSUME NEW r \in Rows, Release(h, r)
      PROVE  TypeOK'
  <2>1. HostsOK' BY <1>3 DEF Release, HostsOK
  <2>2. TableOK' BY <1>3, ReportTypes DEF Release, Statuses
  <2> QED BY <1>0, <2>1, <2>2
<1>4. ASSUME NEW r \in Rows, Assign(h, r)
      PROVE  TypeOK'
  <2>1. listing' = listing /\ todo' \in [Hosts -> SUBSET Rows]
    BY <1>4 DEF Assign, MayAssign, HostsOK
  <2>2. held' \in [Hosts -> SUBSET Rows] BY <1>4 DEF Assign, HostsOK
  <2>3. lease' \in [Rows -> Hosts \cup {Nobody}] BY <1>4 DEF Assign, HostsOK
  <2>4. HostsOK' BY <2>1, <2>2, <2>3 DEF HostsOK
  <2>5. TableOK' BY <1>4, ReportTypes DEF Assign, Statuses
  <2> QED BY <1>0, <2>4, <2>5
<1>5. ASSUME NEW r \in Rows, HeldElsewhere(h, r)
      PROVE  TypeOK'
  <2>1. HostsOK' BY <1>5 DEF HeldElsewhere, MayAssign, HostsOK
  <2> QED BY <1>0, <1>5, <2>1 DEF HeldElsewhere
<1> QED BY <1>1, <1>2, <1>3, <1>4, <1>5 DEF HostNext

LEMMA FaultTypes ==
  ASSUME TypeOK,
         \/ \E h \in Hosts : Crash(h) \/ \E r \in Rows : FindsFrozen(h, r)
         \/ \E r \in Rows : LeaseExpires(r)
  PROVE  TypeOK'
<1> USE TypeParts, PartsStay
<1>1. ASSUME NEW h \in Hosts, Crash(h)
      PROVE  TypeOK'
  <2>1. HostsOK' BY <1>1 DEF Crash, HostsOK
  <2>2. FaultsOK'
    BY <1>1, ConstantsAssumption DEF Crash, Fault, FaultsOK, ConstantsAssumption
  <2> QED BY <1>1, <2>1, <2>2 DEF Crash, requests, loginVars
<1>2. ASSUME NEW h \in Hosts, NEW r \in Rows, FindsFrozen(h, r)
      PROVE  TypeOK'
  <2>1. TableOK' BY <1>2, ReportTypes DEF FindsFrozen, Statuses
  <2>2. FaultsOK'
    BY <1>2, ConstantsAssumption DEF FindsFrozen, Fault, FaultsOK, ConstantsAssumption
  <2> QED BY <1>2, <2>1, <2>2 DEF FindsFrozen, requests, loginVars
<1>3. ASSUME NEW r \in Rows, LeaseExpires(r)
      PROVE  TypeOK'
  <2>1. HostsOK' BY <1>3 DEF LeaseExpires, HostsOK
  <2> QED BY <1>3, <2>1 DEF LeaseExpires, requests, loginVars
<1> QED BY <1>1, <1>2, <1>3

(* Every variable keeps to its values.                                     *)
THEOREM TypeCorrect == Spec => []TypeOK
<1>1. TypeOK /\ [Next]_vars => TypeOK'
  <2> SUFFICES ASSUME TypeOK, [Next]_vars PROVE TypeOK' OBVIOUS
  <2>1. CASE UNCHANGED vars
    BY <2>1, TypeParts, PartsStay
       DEF vars, table, requests, console, hosts, loginVars
  <2>2. CASE Next
    BY <2>2, ImportTypes, LoginTypes, CompletionTypes, ConsoleTypes, HostTypes, FaultTypes
       DEF Next
  <2> QED BY <2>1, <2>2
<1> QED BY <1>1, InitTypes, PTL DEF Spec

-----------------------------------------------------------------------------
(* The files are there before the accounts: those an import has planned,   *)
(* and the one a completed login has moved.  No step takes one away.       *)
FilesFirst ==
  /\ RowHasSession
  /\ \A q \in Imports : importing[q] = "planned" => planned[q] \subseteq files
  /\ \A c \in Completions : completing[c] = "moved" => <<c, 0>> \in files

(* A step that makes no account and finishes no plan changes nothing.      *)
LEMMA FilesStay ==
  ASSUME FilesFirst, files \subseteq files',
         \A r \in Rows : row'[r] = "live" => row[r] = "live",
         \A q \in Imports : importing'[q] = "planned"
                              => importing[q] = "planned" /\ planned'[q] = planned[q],
         \A c \in Completions : completing'[c] = "moved" => completing[c] = "moved"
  PROVE  FilesFirst'
BY DEF FilesFirst, RowHasSession, Live

(* Only a creation makes a row live, and only the ones it is given.        *)
LEMMA CreateLives ==
  ASSUME NEW new, Create(new), NEW r \in Rows, row'[r] = "live"
  PROVE  row[r] = "live" \/ r \in new
BY DEF Create

LEMMA FilesFirstStep == TypeOK /\ FilesFirst /\ [Next]_vars => FilesFirst'
<1> SUFFICES ASSUME TypeOK, FilesFirst, [Next]_vars
             PROVE  FilesFirst'
  OBVIOUS
<1>t. TableOK /\ ImportsOK /\ LoginsOK BY TypeParts
<1>1. ASSUME NEW q \in Imports,
             ImportBegins(q) \/ ImportPlans(q) \/ ImportCommits(q) \/ ImportFails(q)
      PROVE  FilesFirst'
  <2>1. CASE ImportBegins(q) \/ ImportFails(q)
    BY <1>t, <2>1, FilesStay
       DEF ImportBegins, ImportFails, ImportAt, LoginsStay, ImportsOK, table
  <2>2. CASE ImportPlans(q)
    <3> DEFINE new == {r \in Items : r[1] = q /\ ~Exists(r)}
    <3>1. /\ importing' = [importing EXCEPT ![q] = "planned"]
          /\ planned' = [planned EXCEPT ![q] = new]
          /\ files' = files \cup new /\ row' = row /\ completing' = completing
      BY <2>2 DEF ImportPlans, ImportAt, LoginsStay, table
    <3> HIDE DEF new
    <3>2. RowHasSession' BY <3>1 DEF FilesFirst, RowHasSession, Live
    <3>3. \A p \in Imports : importing'[p] = "planned" => planned'[p] \subseteq files'
      BY <1>t, <3>1 DEF FilesFirst, ImportsOK
    <3> QED BY <3>1, <3>2, <3>3 DEF FilesFirst
  <2>3. CASE ImportCommits(q)
    <3>1. /\ importing' = [importing EXCEPT ![q] = "over"] /\ planned' = planned
          /\ files' = files /\ completing' = completing
          /\ planned[q] \subseteq files
      BY <2>3 DEF ImportCommits, ImportAt, LoginsStay, FilesFirst
    <3>2. RowHasSession'
      BY <2>3, <3>1, CreateLives DEF ImportCommits, FilesFirst, RowHasSession, Live
    <3>3. \A p \in Imports : importing'[p] = "planned" => planned'[p] \subseteq files'
      BY <1>t, <3>1 DEF FilesFirst, ImportsOK
    <3> QED BY <3>1, <3>2, <3>3 DEF FilesFirst
  <2> QED BY <1>1, <2>1, <2>2, <2>3
<1>2. ASSUME NEW c \in Completions, CompleteNext(c)
      PROVE  FilesFirst'
  <2>0. importing' = importing /\ planned' = planned
    BY <1>2 DEF CompleteNext, CompleteBegins, SignsIn, FindsAccount, MovesFile,
                CompleteCommits, CompleteFails, Elsewhere
  <2>1. CASE CompleteBegins(c) \/ SignsIn(c) \/ FindsAccount(c) \/ CompleteFails(c)
    <3>1. files' = files /\ row' = row
      BY <2>1 DEF CompleteBegins, SignsIn, FindsAccount, CompleteFails, table
    <3>2. \A d \in Completions : completing'[d] = "moved" => completing[d] = "moved"
      BY <1>t, <2>1 DEF CompleteBegins, SignsIn, FindsAccount, CompleteFails,
                        CompletionAt, LoginsOK
    <3> QED BY <2>0, <3>1, <3>2, FilesStay
  <2>2. CASE MovesFile(c)
    <3>1. /\ row' = row /\ files' = files \cup {<<c, 0>>}
          /\ completing' = [completing EXCEPT ![c] = "moved"]
      BY <2>2 DEF MovesFile, IsThere, CompletionAt, table
    <3>2. \A d \in Completions : completing'[d] = "moved" => <<d, 0>> \in files'
      BY <1>t, <3>1 DEF FilesFirst, LoginsOK
    <3> QED BY <2>0, <3>1, <3>2 DEF FilesFirst, RowHasSession, Live
  <2>3. CASE CompleteCommits(c)
    <3>1. /\ files' = files /\ <<c, 0>> \in files
          /\ completing' = [completing EXCEPT ![c] = "over"]
      BY <2>3 DEF CompleteCommits, CompletionAt, FilesFirst
    <3>2. RowHasSession'
      BY <2>3, <3>1, CreateLives DEF CompleteCommits, FilesFirst, RowHasSession, Live
    <3>3. \A d \in Completions : completing'[d] = "moved" => <<d, 0>> \in files'
      BY <1>t, <3>1 DEF FilesFirst, LoginsOK
    <3> QED BY <2>0, <3>1, <3>2, <3>3 DEF FilesFirst
  <2> QED BY <1>2, <2>1, <2>2, <2>3 DEF CompleteNext
<1>3. ASSUME NEW r \in Rows,
             Update(r, "running") \/ Update(r, "stopped") \/ Delete(r)
      PROVE  FilesFirst'
  BY <1>t, <1>3, FilesStay DEF Update, Delete, requests, TableOK
<1>4. CASE DeleteFrozenReads \/ DeleteFrozenWrites
  BY <1>t, <1>4, FilesStay DEF DeleteFrozenReads, DeleteFrozenWrites, requests, table, TableOK
<1>5. ASSUME files' = files, row' = row, importing' = importing,
             planned' = planned, completing' = completing
      PROVE  FilesFirst'
  BY <1>5, FilesStay
<1>6. ASSUME NEW l \in Logins, LoginStarts(l)
      PROVE  FilesFirst'
  BY <1>5, <1>6 DEF LoginStarts, table
<1>7. ASSUME NEW h \in Hosts, HostNext(h) \/ Crash(h)
      PROVE  FilesFirst'
  BY <1>5, <1>7 DEF HostNext, Pull, EndReconcile, Release, Assign, HeldElsewhere, Crash,
                    Report, table, requests
<1>8. ASSUME NEW h \in Hosts, NEW r \in Rows, FindsFrozen(h, r)
      PROVE  FilesFirst'
  BY <1>5, <1>8 DEF FindsFrozen, Report, table, requests
<1>9. ASSUME NEW r \in Rows, LeaseExpires(r)
      PROVE  FilesFirst'
  BY <1>5, <1>9 DEF LeaseExpires, table, requests
<1>10. CASE UNCHANGED vars
  BY <1>5, <1>10 DEF vars, table, requests
<1> QED BY <1>1, <1>2, <1>3, <1>4, <1>6, <1>7, <1>8, <1>9, <1>10 DEF Next

(* The session an account refers to is there, whatever sweeps the pending  *)
(* directory and however often a login is completed.                       *)
THEOREM SessionIsThere == Spec => []RowHasSession
<1>1. Init => FilesFirst BY DEF Init, FilesFirst, RowHasSession, Live
<1>2. FilesFirst => RowHasSession BY DEF FilesFirst
<1> QED BY <1>1, <1>2, FilesFirstStep, TypeCorrect, PTL DEF Spec

-----------------------------------------------------------------------------
(* The unique key lets a creation through only when each of its identities *)
(* is new, and new once.                                                   *)
LEMMA CreateUnique ==
  ASSUME IdentityIsUnique, NEW new, KeyFree(new), Create(new)
  PROVE  IdentityIsUnique'
<1> SUFFICES ASSUME NEW r \in Rows, NEW s \in Rows, row'[r] = "live", row'[s] = "live",
                    Who(r) = Who(s), Who(r) # Unknown
             PROVE  r = s
  BY DEF IdentityIsUnique, Live, Who
<1>1. (row[r] = "live" \/ r \in new) /\ (row[s] = "live" \/ s \in new)
  BY CreateLives
<1>2. CASE row[r] = "live" /\ row[s] = "live"
  BY <1>2 DEF IdentityIsUnique, Live
<1>3. CASE r \in new /\ s \in new
  BY <1>3 DEF KeyFree
<1>4. CASE row[r] = "live" /\ s \in new
  BY <1>4 DEF KeyFree, Exists, Live
<1>5. CASE row[s] = "live" /\ r \in new
  BY <1>5 DEF KeyFree, Exists, Live
<1> QED BY <1>1, <1>2, <1>3, <1>4, <1>5

LEMMA UniqueStays ==
  ASSUME IdentityIsUnique, \A r \in Rows : row'[r] = "live" => row[r] = "live"
  PROVE  IdentityIsUnique'
BY DEF IdentityIsUnique, Live, Who

LEMMA UniqueStep == TypeOK /\ IdentityIsUnique /\ [Next]_vars => IdentityIsUnique'
<1> SUFFICES ASSUME TypeOK, IdentityIsUnique, [Next]_vars
             PROVE  IdentityIsUnique'
  OBVIOUS
<1>t. TableOK BY TypeParts
<1>1. ASSUME NEW q \in Imports,
             ImportBegins(q) \/ ImportPlans(q) \/ ImportCommits(q) \/ ImportFails(q)
      PROVE  IdentityIsUnique'
  BY <1>1, UniqueStays, CreateUnique
     DEF ImportBegins, ImportPlans, ImportCommits, ImportFails, table
<1>2. ASSUME NEW c \in Completions, CompleteNext(c)
      PROVE  IdentityIsUnique'
  BY <1>2, UniqueStays, CreateUnique
     DEF CompleteNext, CompleteBegins, SignsIn, FindsAccount, MovesFile,
         CompleteCommits, CompleteFails, table
<1>3. ASSUME NEW r \in Rows,
             Update(r, "running") \/ Update(r, "stopped") \/ Delete(r)
      PROVE  IdentityIsUnique'
  BY <1>t, <1>3, UniqueStays DEF Update, Delete, TableOK
<1>4. CASE DeleteFrozenReads \/ DeleteFrozenWrites
  BY <1>t, <1>4, UniqueStays DEF DeleteFrozenReads, DeleteFrozenWrites, table, TableOK
<1>5. ASSUME row' = row PROVE IdentityIsUnique'
  BY <1>5, UniqueStays
<1>6. ASSUME NEW l \in Logins, LoginStarts(l)
      PROVE  IdentityIsUnique'
  BY <1>5, <1>6 DEF LoginStarts, table
<1>7. ASSUME NEW h \in Hosts, HostNext(h) \/ Crash(h)
      PROVE  IdentityIsUnique'
  BY <1>5, <1>7 DEF HostNext, Pull, EndReconcile, Release, Assign, HeldElsewhere, Crash,
                    Report, table
<1>8. ASSUME NEW h \in Hosts, NEW r \in Rows, FindsFrozen(h, r)
      PROVE  IdentityIsUnique'
  BY <1>5, <1>8 DEF FindsFrozen, Report
<1>9. ASSUME NEW r \in Rows, LeaseExpires(r)
      PROVE  IdentityIsUnique'
  BY <1>5, <1>9 DEF LeaseExpires, table
<1>10. CASE UNCHANGED vars
  BY <1>5, <1>10 DEF vars, table
<1> QED BY <1>1, <1>2, <1>3, <1>4, <1>6, <1>7, <1>8, <1>9, <1>10 DEF Next

(* One live account for each Telegram identity, whatever packages and      *)
(* logins bring it in at once.                                             *)
THEOREM IdentityStaysUnique == Spec => []IdentityIsUnique
<1>1. Init => IdentityIsUnique BY DEF Init, IdentityIsUnique, Live
<1> QED BY <1>1, UniqueStep, TypeCorrect, PTL DEF Spec
=============================================================================
