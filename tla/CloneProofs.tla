----------------------------- MODULE CloneProofs -----------------------------
(***************************************************************************)
(* Theorems about Clone, for any number of workers, accounts, messages and *)
(* rules: an action is planned once, and a copy is the listener's.  Both   *)
(* follow the rows of the inbox, which are one per event, into the drains  *)
(* that read them and the jobs planned from them.                          *)
(***************************************************************************)
EXTENDS Clone, TLAPS

(* uq_event_inbox_dedup: an event has one row, and so one receiver.        *)
RowsAreUnique == \A x, y \in inbox : x.src = y.src /\ x.rev = y.rev => x = y

(* A job is planned from a row of the account its rule listens to.         *)
HasRow(rule, src, rev) ==
  \E row \in inbox : row.src = src /\ row.rev = rev /\ row.acct = Listen[rule]

JobsHaveRows == \A j \in jobs : HasRow(j.rule, j.src, j.rev)
CopiesHaveRows == \A k \in copies : HasRow(k[1], k[2], 1)

Planned == RowsAreUnique /\ JobsHaveRows /\ CopiesHaveRows /\ JobsAreUnique

IInv == TypeOK /\ Planned

-----------------------------------------------------------------------------
(* Types.                                                                  *)

LEMMA InitTyped == Init => TypeOK
<1> SUFFICES ASSUME Init PROVE TypeOK
  OBVIOUS
<1>1. Idle \in Round
  BY DEF Idle, Round
<1>2. /\ drain \in [Workers -> [Accounts -> Round]]
      /\ \A w \in Workers, a \in Accounts : drain[w][a] = Idle
  BY <1>1 DEF Init
<1>3. map \in [Rules \X Sources -> Accounts \cup {Nobody}]
  BY DEF Init
<1>4. latest \in [Sources -> Revisions \cup {0}]
  BY DEF Init
<1> QED BY <1>2, <1>3, <1>4 DEF Init, TypeOK, Idle

(* What one step does to the drains: those of one runner, or of one host.  *)
LEMMA DrainTyped ==
  ASSUME TypeOK, NEW w \in Workers, NEW a \in Accounts, NEW d \in Round,
         d.rows \subseteq inbox, d.at # "idle" => a \in host[w],
         drain' = [drain EXCEPT ![w][a] = d],
         UNCHANGED <<inbox, hosts>>
  PROVE  /\ drain' \in [Workers -> [Accounts -> Round]]
         /\ \A v \in Workers :
              /\ cached'[v] \subseteq host'[v]
              /\ \A b \in Accounts : /\ drain'[v][b].rows \subseteq inbox'
                                     /\ drain'[v][b].at # "idle" => b \in host'[v]
<1>1. drain' \in [Workers -> [Accounts -> Round]]
  BY DEF TypeOK
<1>2. \A v \in Workers, b \in Accounts :
        drain'[v][b] = IF v = w /\ b = a THEN d ELSE drain[v][b]
  BY DEF TypeOK
<1> QED BY <1>1, <1>2 DEF TypeOK, hosts

LEMMA StepTyped == ASSUME TypeOK, [Next]_vars PROVE TypeOK'
<1> USE ConstantsAssumption
<1>1. ASSUME NEW m \in Messages, NEW rev \in Revisions, Post(m, rev) PROVE TypeOK'
  <2>1. posted' \subseteq Events
    BY <1>1 DEF Post, TypeOK, Events
  <2>2. updates' \subseteq Workers \X Accounts \X Events
    BY <1>1 DEF Post, TypeOK, Events
  <2> QED BY <1>1, <2>1, <2>2 DEF Post, TypeOK, hosts, target
<1>2. ASSUME NEW m \in Messages, NEW rev \in Revisions, NEW w \in Workers,
             NEW a \in Accounts, ReadSource(w, a, m, rev)
      PROVE  TypeOK'
  <2>1. SourceOf(a, m) \in Sources
    BY DEF Sources
  <2>2. reading' \subseteq Reader
    BY <1>2, <2>1 DEF ReadSource, TypeOK, Reader
  <2> QED BY <1>2, <2>2 DEF ReadSource, TypeOK, hosts, target
<1>3. ASSUME NEW r \in reading, Ingest(r) PROVE TypeOK'
  <2>1. r \in Reader /\ SourceOf(r.acct, r.msg) \in Sources
    BY DEF TypeOK, Reader, Sources
  <2>2. handled' \subseteq Accounts \X Events
    BY <1>3, <2>1 DEF Ingest, TypeOK, Reader, Events
  <2>3. /\ latest' \in [Sources -> Revisions \cup {0}]
        /\ tomb' \subseteq Sources /\ inbox' \subseteq InboxRow /\ inbox \subseteq inbox'
    BY <1>3, <2>1 DEF Ingest, TypeOK, Reader, InboxRow
  <2> QED BY <1>3, <2>2, <2>3 DEF Ingest, TypeOK, hosts, target
<1>4. ASSUME NEW r \in reading, IngestFails(r) PROVE TypeOK'
  BY <1>4 DEF IngestFails, Move, TypeOK, hosts, target
<1>5. ASSUME NEW w \in Workers, Crash(w) PROVE TypeOK'
  <2>1. Idle \in Round
    BY DEF Idle, Round
  <2>2. /\ drain' \in [Workers -> [Accounts -> Round]]
        /\ \A v \in Workers, b \in Accounts :
             drain'[v][b] = IF v = w THEN Idle ELSE drain[v][b]
    BY <1>5, <2>1 DEF Crash, TypeOK
  <2>3. /\ host' \in [Workers -> SUBSET Accounts] /\ cached' \in [Workers -> SUBSET Accounts]
        /\ \A v \in Workers : /\ host'[v] = IF v = w THEN {} ELSE host[v]
                              /\ cached'[v] = IF v = w THEN {} ELSE cached[v]
    BY <1>5 DEF Crash, TypeOK
  <2> QED BY <1>5, <2>2, <2>3 DEF Crash, Move, TypeOK, Idle, target
<1>6. ASSUME NEW w \in Workers, NEW a \in Accounts, Assign(w, a) PROVE TypeOK'
  <2>1. /\ host' \in [Workers -> SUBSET Accounts] /\ cached' \in [Workers -> SUBSET Accounts]
        /\ \A v \in Workers : cached'[v] \subseteq host'[v] /\ host[v] \subseteq host'[v]
    BY <1>6 DEF Assign, TypeOK
  <2> QED BY <1>6, <2>1 DEF Assign, Move, TypeOK, ingest, target
<1>7. ASSUME NEW w \in Workers, NEW a \in Accounts, RefreshRules(w, a) PROVE TypeOK'
  <2>1. /\ cached' \in [Workers -> SUBSET Accounts]
        /\ \A v \in Workers : cached'[v] \subseteq host[v]
    BY <1>7 DEF RefreshRules, TypeOK
  <2> QED BY <1>7, <2>1 DEF RefreshRules, TypeOK, ingest, target
<1>8. ASSUME NEW w \in Workers, NEW a \in Accounts, Release(w, a) PROVE TypeOK'
  <2>1. /\ host' \in [Workers -> SUBSET Accounts] /\ cached' \in [Workers -> SUBSET Accounts]
        /\ \A v \in Workers : /\ cached'[v] \subseteq host'[v]
                              /\ v # w => host'[v] = host[v]
    BY <1>8 DEF Release, TypeOK
  <2>2. \A b \in Accounts : drain[w][b].at = "idle"
    BY <1>8 DEF Release, BetweenRounds, Idle
  <2> QED BY <1>8, <2>1, <2>2 DEF Release, Move, TypeOK, target
<1>9. ASSUME NEW w \in Workers, NEW a \in Accounts, NextUnprocessed(w, a) PROVE TypeOK'
  <2>1. PICK rows \in SUBSET Unprocessed :
          drain' = [drain EXCEPT ![w][a] = [at |-> "select", rows |-> rows, view |-> {}]]
    BY <1>9 DEF NextUnprocessed
  <2> DEFINE d == [at |-> "select", rows |-> rows, view |-> {}]
  <2>2. d \in Round /\ d.rows \subseteq inbox
    BY DEF TypeOK, Unprocessed, Round
  <2> HIDE DEF d
  <2>3. UNCHANGED <<inbox, hosts>> /\ a \in host[w]
    BY <1>9 DEF NextUnprocessed
  <2>4. drain' = [drain EXCEPT ![w][a] = d]
    BY <2>1 DEF d
  <2> QED BY <1>9, <2>2, <2>3, <2>4, DrainTyped DEF NextUnprocessed, TypeOK, ingest, hosts, target
<1>10. ASSUME NEW w \in Workers, NEW a \in Accounts, LookupMany(w, a) PROVE TypeOK'
  <2> DEFINE rows == drain[w][a].rows
             d == [at |-> "lookup", rows |-> rows, view |-> View(rows)]
  <2>1. rows \subseteq inbox /\ inbox \subseteq InboxRow
    BY DEF TypeOK
  <2>2. View(rows) \subseteq Rules \X Sources \X (Accounts \cup {Nobody})
    <3>1. \A r \in Rules, s \in Sources : map[<<r, s>>] \in Accounts \cup {Nobody}
      BY DEF TypeOK
    <3>2. \A row \in rows : row.src \in Sources
      BY <2>1 DEF InboxRow
    <3> HIDE DEF rows
    <3> SUFFICES ASSUME NEW t \in View(rows)
                 PROVE  t \in Rules \X Sources \X (Accounts \cup {Nobody})
      OBVIOUS
    <3>3. PICK r \in Rules, row \in rows : t = <<r, row.src, map[<<r, row.src>>]>>
      BY DEF View
    <3> QED BY <3>1, <3>2, <3>3
  <2>3. d \in Round
    BY <2>1, <2>2 DEF Round
  <2>4. d.rows \subseteq inbox /\ drain' = [drain EXCEPT ![w][a] = d]
    BY <1>10, <2>1 DEF LookupMany, TypeOK
  <2> HIDE DEF d
  <2>5. UNCHANGED <<inbox, hosts>> /\ a \in host[w]
    BY <1>10 DEF LookupMany, TypeOK
  <2> QED BY <1>10, <2>3, <2>4, <2>5, DrainTyped DEF LookupMany, TypeOK, ingest, hosts, target
<1>11. ASSUME NEW w \in Workers, NEW a \in Accounts, DrainToJobs(w, a) PROVE TypeOK'
  <2> DEFINE rows == drain[w][a].rows
  <2>1. Idle \in Round /\ Idle.rows \subseteq inbox /\ Idle.at = "idle"
    BY DEF Idle, Round
  <2>2. UNCHANGED <<inbox, hosts>> /\ drain' = [drain EXCEPT ![w][a] = Idle]
    BY <1>11 DEF DrainToJobs
  <2>3. rows \subseteq inbox /\ inbox \subseteq InboxRow
    BY DEF TypeOK
  <2>4. jobs' \subseteq Job /\ jobs \subseteq jobs' /\ processed' \subseteq inbox
    BY <1>11, <2>3 DEF DrainToJobs, NewJobs, Marked, TypeOK, Job, InboxRow
  <2>5. UNCHANGED <<posted, ingest, target, moves>>
    BY <1>11 DEF DrainToJobs
  <2> QED BY <2>1, <2>2, <2>4, <2>5, DrainTyped DEF TypeOK, ingest, hosts, target
<1>12. ASSUME NEW w \in Workers, NEW a \in Accounts, DrainFails(w, a) PROVE TypeOK'
  <2>1. Idle \in Round /\ Idle.rows \subseteq inbox /\ Idle.at = "idle"
    BY DEF Idle, Round
  <2> QED BY <1>12, <2>1, DrainTyped DEF DrainFails, Move, TypeOK, ingest, hosts, target
<1>13. ASSUME NEW j \in jobs, Deliver(j) PROVE TypeOK'
  <2>1. j \in Job /\ <<j.rule, j.src>> \in Rules \X Sources /\ j.sender \in Accounts
    BY DEF TypeOK, Job
  <2> DEFINE k == <<j.rule, j.src>>
  <2>2. map' \in [Rules \X Sources -> Accounts \cup {Nobody}]
    <3>1. map' = map \/ map' = [map EXCEPT ![k] = IF @ = Nobody THEN j.sender ELSE @]
      BY <1>13 DEF Deliver
    <3> HIDE DEF k
    <3> QED BY <2>1, <3>1 DEF TypeOK
  <2> QED BY <1>13, <2>1, <2>2 DEF Deliver, TypeOK, ingest, hosts
<1>14. ASSUME NEW j \in jobs, GiveUp(j) PROVE TypeOK'
  BY <1>14 DEF GiveUp, TypeOK, ingest, hosts
<1>15. ASSUME UNCHANGED vars PROVE TypeOK'
  BY <1>15 DEF vars, TypeOK, ingest, hosts, target
<1> QED
  BY <1>1, <1>2, <1>3, <1>4, <1>5, <1>6, <1>7, <1>8, <1>9, <1>10, <1>11, <1>12,
     <1>13, <1>14, <1>15 DEF Next, Update, Hosting, Drain

-----------------------------------------------------------------------------
(* From rows to jobs to copies.                                            *)

(* The unique key of the inbox is what keeps the rows apart.               *)
LEMMA IngestKeepsRows ==
  ASSUME TypeOK, RowsAreUnique, NEW r \in reading, Ingest(r)
  PROVE  RowsAreUnique' /\ inbox \subseteq inbox'
<1> DEFINE s == SourceOf(r.acct, r.msg)
           new == [src |-> s, rev |-> r.rev, acct |-> r.acct]
<1>1. CASE Refused(s, r)
  BY <1>1 DEF Ingest, RowsAreUnique
<1>2. CASE ~Refused(s, r)
  <2>1. inbox' = inbox \cup {new}
    BY <1>2 DEF Ingest
  <2>2. \A x \in inbox : ~(x.src = new.src /\ x.rev = new.rev)
    BY <1>2 DEF Refused
  <2> HIDE DEF new
  <2> QED BY <2>1, <2>2 DEF RowsAreUnique
<1> QED BY <1>1, <1>2

(* What a drain plans: at most one job for an action, from the listener's   *)
(* row.  Two rows of one action would be one row.                          *)
LEMMA PlansAreUnique ==
  ASSUME TypeOK, Planned, NEW w \in Workers, NEW a \in Accounts, DrainToJobs(w, a)
  PROVE  JobsHaveRows' /\ JobsAreUnique'
<1> DEFINE rows  == drain[w][a].rows
           plans == {p \in Rules \X rows :
                       /\ p[2].acct \in cached[w]
                       /\ MatchesRule(p[1], p[2]) /\ Wants(p[1], p[2])}
           planned(sender) ==
             {[rule |-> p[1], src |-> p[2].src, rev |-> p[2].rev,
               sender |-> sender[p]] : p \in plans}
<1>1. PICK sender \in [plans -> Accounts] : jobs' = jobs \cup NewJobs(planned(sender))
  BY DEF DrainToJobs
<1>2. rows \subseteq inbox /\ inbox' = inbox
  BY DEF TypeOK, DrainToJobs
<1>3. ASSUME NEW j \in planned(sender)
      PROVE  \E p \in plans : /\ j = [rule |-> p[1], src |-> p[2].src,
                                       rev |-> p[2].rev, sender |-> sender[p]]
                               /\ p[1] \in Rules /\ p[2] \in inbox
                               /\ p[2].acct = Listen[p[1]]
                               /\ p = <<p[1], p[2]>>
  BY <1>2, <1>3 DEF MatchesRule
<1> HIDE DEF plans
<1>4. ASSUME NEW j \in planned(sender) PROVE HasRow(j.rule, j.src, j.rev)
  <2>1. PICK p \in plans : /\ j = [rule |-> p[1], src |-> p[2].src,
                                    rev |-> p[2].rev, sender |-> sender[p]]
                            /\ p[2] \in inbox /\ p[2].acct = Listen[p[1]]
    BY <1>3
  <2> QED BY <2>1 DEF HasRow
<1>5. ASSUME NEW j \in planned(sender), NEW k \in planned(sender), SameAction(j, k)
      PROVE  j = k
  <2>1. PICK p \in plans : /\ j = [rule |-> p[1], src |-> p[2].src,
                                    rev |-> p[2].rev, sender |-> sender[p]]
                            /\ p[2] \in inbox /\ p = <<p[1], p[2]>>
    BY <1>3
  <2>2. PICK q \in plans : /\ k = [rule |-> q[1], src |-> q[2].src,
                                    rev |-> q[2].rev, sender |-> sender[q]]
                            /\ q[2] \in inbox /\ q = <<q[1], q[2]>>
    BY <1>3
  <2>3. p[1] = q[1] /\ p[2].src = q[2].src /\ p[2].rev = q[2].rev
    BY <1>5, <2>1, <2>2 DEF SameAction
  <2>4. p[2] = q[2]
    BY <2>1, <2>2, <2>3 DEF Planned, RowsAreUnique
  <2>5. p = q
    BY <2>1, <2>2, <2>3, <2>4
  <2> QED BY <2>1, <2>2, <2>5
<1> HIDE DEF planned
<1>6. JobsHaveRows'
  BY <1>1, <1>2, <1>4 DEF NewJobs, Planned, JobsHaveRows, HasRow
<1>7. JobsAreUnique'
  BY <1>1, <1>5 DEF NewJobs, Planned, JobsAreUnique, SameAction
<1> QED BY <1>6, <1>7

LEMMA StepPlanned == ASSUME TypeOK, Planned, [Next]_vars PROVE Planned'
<1>1. ASSUME inbox \subseteq inbox', RowsAreUnique', UNCHANGED <<jobs, copies>>
      PROVE  Planned'
  BY <1>1 DEF Planned, JobsHaveRows, CopiesHaveRows, HasRow, JobsAreUnique, SameAction
<1>2. ASSUME UNCHANGED <<inbox, jobs, copies>> PROVE Planned'
  BY <1>1, <1>2 DEF Planned, RowsAreUnique
<1>3. ASSUME NEW m \in Messages, NEW rev \in Revisions, Post(m, rev) PROVE Planned'
  BY <1>2, <1>3 DEF Post, target
<1>4. ASSUME NEW m \in Messages, NEW rev \in Revisions, NEW w \in Workers,
             NEW a \in Accounts, ReadSource(w, a, m, rev)
      PROVE  Planned'
  BY <1>2, <1>4 DEF ReadSource, target
<1>5. ASSUME NEW r \in reading, Ingest(r) PROVE Planned'
  BY <1>1, <1>5, IngestKeepsRows DEF Planned, Ingest, target
<1>6. ASSUME NEW r \in reading, IngestFails(r) PROVE Planned'
  BY <1>2, <1>6 DEF IngestFails, target
<1>7. ASSUME NEW w \in Workers, Hosting(w) PROVE Planned'
  BY <1>2, <1>7 DEF Hosting, Crash, Assign, RefreshRules, Release, target
<1>8. ASSUME NEW w \in Workers, NEW a \in Accounts,
             NextUnprocessed(w, a) \/ LookupMany(w, a) \/ DrainFails(w, a)
      PROVE  Planned'
  BY <1>2, <1>8 DEF NextUnprocessed, LookupMany, DrainFails, target
<1>9. ASSUME NEW w \in Workers, NEW a \in Accounts, DrainToJobs(w, a) PROVE Planned'
  <2>1. UNCHANGED <<inbox, copies>>
    BY <1>9 DEF DrainToJobs, target
  <2> QED BY <1>9, <2>1, PlansAreUnique
          DEF Planned, RowsAreUnique, CopiesHaveRows, HasRow
<1>10. ASSUME NEW j \in jobs, Deliver(j) PROVE Planned'
  <2>1. UNCHANGED <<inbox, jobs>>
    BY <1>10 DEF Deliver
  <2>2. \A k \in copies' : k \in copies \/ (k = <<j.rule, j.src>> /\ j.rev = 1)
    BY <1>10 DEF Deliver
  <2>3. CopiesHaveRows'
    BY <2>1, <2>2 DEF Planned, JobsHaveRows, CopiesHaveRows, HasRow
  <2> QED BY <2>1, <2>3 DEF Planned, RowsAreUnique, JobsHaveRows, HasRow,
                            JobsAreUnique, SameAction
<1>11. ASSUME NEW j \in jobs, GiveUp(j) PROVE Planned'
  BY <1>2, <1>11 DEF GiveUp
<1>12. ASSUME UNCHANGED vars PROVE Planned'
  BY <1>2, <1>12 DEF vars, target
<1> QED
  BY <1>3, <1>4, <1>5, <1>6, <1>7, <1>8, <1>9, <1>10, <1>11, <1>12
     DEF Next, Update, Drain

-----------------------------------------------------------------------------
(* What a drain leaves unplanned.                                          *)

HasJob(r, row) == \E j \in jobs : j.rule = r /\ j.src = row.src /\ j.rev = row.rev

(* No job is ever taken back.                                              *)
LEMMA JobsStay == ASSUME [Next]_vars PROVE jobs \subseteq jobs'
<1>1. ASSUME NEW w \in Workers, Hosting(w) PROVE jobs' = jobs
  BY <1>1 DEF Hosting, Crash, Assign, RefreshRules, Release
<1>2. CASE Update
  BY <1>2 DEF Update, Post, ReadSource, Ingest, IngestFails
<1>3. ASSUME NEW w \in Workers, NEW a \in Accounts, Drain(w, a) \/ DrainFails(w, a)
      PROVE  jobs \subseteq jobs'
  BY <1>3 DEF Drain, NextUnprocessed, LookupMany, DrainToJobs, DrainFails
<1>4. ASSUME NEW j \in jobs, Deliver(j) \/ GiveUp(j) PROVE jobs' = jobs
  BY <1>4 DEF Deliver, GiveUp
<1>5. CASE UNCHANGED vars
  BY <1>5 DEF vars
<1> QED BY <1>1, <1>2, <1>3, <1>4, <1>5 DEF Next

(* Rows are marked by drains alone.                                        *)
LEMMA OnlyDrainsMark ==
  ASSUME [Next]_vars, NEW row \in processed', row \notin processed
  PROVE  \E w \in Workers, a \in Accounts :
            DrainToJobs(w, a) /\ row \in drain[w][a].rows
<1>1. ASSUME NEW w \in Workers, Hosting(w) PROVE processed' = processed
  BY <1>1 DEF Hosting, Crash, Assign, RefreshRules, Release
<1>2. ASSUME Update PROVE processed' = processed
  BY <1>2 DEF Update, Post, ReadSource, Ingest, IngestFails
<1>3. ASSUME NEW w \in Workers, NEW a \in Accounts, Drain(w, a) \/ DrainFails(w, a),
             ~DrainToJobs(w, a)
      PROVE  processed' = processed
  BY <1>3 DEF Drain, NextUnprocessed, LookupMany, DrainFails
<1>4. ASSUME NEW w \in Workers, NEW a \in Accounts, DrainToJobs(w, a)
      PROVE  row \in drain[w][a].rows
  BY <1>4 DEF DrainToJobs, Marked
<1>5. ASSUME NEW j \in jobs, Deliver(j) \/ GiveUp(j) PROVE processed' = processed
  BY <1>5 DEF Deliver, GiveUp
<1>6. ASSUME UNCHANGED vars PROVE processed' = processed
  BY <1>6 DEF vars
<1> QED BY <1>1, <1>2, <1>3, <1>4, <1>5, <1>6 DEF Next

(* A drain whose host holds the rules of the row's account plans it for     *)
(* every rule that wants it, or finds it planned: the conflict is the row's *)
(* alone, and takes no other job with it.                                  *)
LEMMA KnownRowsArePlanned ==
  ASSUME NEW w \in Workers, NEW a \in Accounts, DrainToJobs(w, a),
         NEW row \in drain[w][a].rows, row.acct \in cached[w],
         NEW r \in Rules, MatchesRule(r, row), Wants(r, row)
  PROVE  HasJob(r, row)'
<1> DEFINE rows  == drain[w][a].rows
           plans == {p \in Rules \X rows :
                       /\ p[2].acct \in cached[w]
                       /\ MatchesRule(p[1], p[2]) /\ Wants(p[1], p[2])}
           planned(sender) ==
             {[rule |-> p[1], src |-> p[2].src, rev |-> p[2].rev,
               sender |-> sender[p]] : p \in plans}
<1>1. PICK sender \in [plans -> Accounts] : jobs' = jobs \cup NewJobs(planned(sender))
  BY DEF DrainToJobs
<1>2. <<r, row>> \in plans
  OBVIOUS
<1> DEFINE p0 == <<r, row>>
           j  == [rule |-> p0[1], src |-> p0[2].src, rev |-> p0[2].rev,
                  sender |-> sender[p0]]
<1> HIDE DEF plans
<1>3. j \in planned(sender)
  <2>1. p0 \in plans
    BY <1>2
  <2> HIDE DEF p0
  <2> QED BY <2>1
<1>4. j.rule = r /\ j.src = row.src /\ j.rev = row.rev
  OBVIOUS
<1> HIDE DEF planned, j
<1>5. CASE j \in NewJobs(planned(sender))
  BY <1>1, <1>4, <1>5 DEF HasJob
<1>6. CASE j \notin NewJobs(planned(sender))
  <2>1. PICK k \in jobs : SameAction(j, k)
    BY <1>3, <1>6 DEF NewJobs
  <2> QED BY <1>1, <1>4, <2>1 DEF HasJob, SameAction
<1> QED BY <1>5, <1>6

(* A host that does not hold the rules of the row's account drains it.      *)
TakenByStranger(row) ==
  \E w \in Workers, a \in Accounts :
    row \in drain[w][a].rows /\ row.acct \notin cached[w]

MarkedIsPlanned(row) ==
  \A r \in Rules :
    MatchesRule(r, row) /\ Wants(r, row) => HasJob(r, row)' \/ TakenByStranger(row)

(* With one host, every row in the tables came from an account it hosts.   *)
Homely(w) ==
  /\ \A u \in updates : u[2] \in host[w]
  /\ \A x \in reading : x.acct \in host[w]
  /\ \A row \in inbox : row.acct \in host[w]

LEMMA HomelyStep ==
  ASSUME TypeOK, NEW w, Workers = {w}, Homely(w), [Next]_vars,
         host[w] \subseteq host'[w]
  PROVE  Homely(w)'
<1>1. ASSUME NEW m \in Messages, NEW rev \in Revisions, Post(m, rev) PROVE Homely(w)'
  <2>1. \A u \in updates' : u \in updates \/ u[2] \in host[w]
    BY <1>1 DEF Post
  <2> QED BY <1>1, <2>1 DEF Post, Homely, hosts
<1>2. ASSUME NEW m \in Messages, NEW rev \in Revisions, NEW v \in Workers,
             NEW a \in Accounts, ReadSource(v, a, m, rev)
      PROVE  Homely(w)'
  <2>1. a \in host[w]
    BY <1>2 DEF ReadSource, Homely
  <2>2. \A x \in reading' : x \in reading \/ x.acct = a
    BY <1>2 DEF ReadSource
  <2> QED BY <1>2, <2>1, <2>2 DEF ReadSource, Homely, hosts
<1>3. ASSUME NEW x \in reading, Ingest(x) PROVE Homely(w)'
  <2>1. \A row \in inbox' : row \in inbox \/ row.acct = x.acct
    BY <1>3 DEF Ingest
  <2> QED BY <1>3, <2>1 DEF Ingest, Homely, hosts
<1>4. ASSUME NEW x \in reading, IngestFails(x) PROVE Homely(w)'
  BY <1>4 DEF IngestFails, Homely, hosts
<1>5. ASSUME NEW v \in Workers, Hosting(v) PROVE Homely(w)'
  BY <1>5 DEF Hosting, Crash, Assign, RefreshRules, Release, Homely, ingest
<1>6. ASSUME NEW v \in Workers, NEW a \in Accounts, Drain(v, a) \/ DrainFails(v, a)
      PROVE  Homely(w)'
  BY <1>6 DEF Drain, NextUnprocessed, LookupMany, DrainToJobs, DrainFails, Homely,
              ingest, hosts
<1>7. ASSUME NEW j \in jobs, Deliver(j) \/ GiveUp(j) PROVE Homely(w)'
  BY <1>7 DEF Deliver, GiveUp, Homely, ingest, hosts
<1>8. CASE UNCHANGED vars
  BY <1>8 DEF vars, Homely, ingest, hosts
<1> QED BY <1>1, <1>2, <1>3, <1>4, <1>5, <1>6, <1>7, <1>8 DEF Next, Update

LEMMA EventsPlannedStep ==
  ASSUME TypeOK, NEW w, Workers = {w}, Homely(w), host[w] \subseteq cached[w],
         EventIsPlanned, [Next]_vars
  PROVE  EventIsPlanned'
<1> SUFFICES ASSUME NEW row \in processed', NEW r \in Rules,
                    MatchesRule(r, row), Wants(r, row)
             PROVE  HasJob(r, row)'
  BY DEF EventIsPlanned, HasJob, MatchesRule, Wants
<1>1. CASE row \in processed
  BY <1>1, JobsStay DEF EventIsPlanned, HasJob
<1>2. CASE row \notin processed
  <2>1. PICK v \in Workers, a \in Accounts :
               DrainToJobs(v, a) /\ row \in drain[v][a].rows
    BY <1>2, OnlyDrainsMark
  <2>2. row \in inbox
    BY <2>1 DEF TypeOK
  <2>3. row.acct \in cached[v]
    BY <2>2 DEF Homely
  <2> QED BY <2>1, <2>3, KnownRowsArePlanned
<1> QED BY <1>1, <1>2

-----------------------------------------------------------------------------
(* Theorems.                                                               *)

(* The tables and the hosts' memory stay within their types, for any       *)
(* number of workers, accounts, messages and rules.                        *)
THEOREM TypeCorrect == Spec => []TypeOK
<1>1. Init => TypeOK
  BY InitTyped
<1>2. TypeOK /\ [Next]_vars => TypeOK'
  BY StepTyped
<1> QED BY <1>1, <1>2, PTL DEF Spec

LEMMA Invariant == Spec => []IInv
<1>1. Init => IInv
  BY InitTyped DEF IInv, Init, Planned, RowsAreUnique, JobsHaveRows, CopiesHaveRows,
                   JobsAreUnique
<1>2. IInv /\ [Next]_vars => IInv'
  BY StepTyped, StepPlanned DEF IInv
<1> QED BY <1>1, <1>2, PTL DEF Spec

(* However many drains take a row, on however many workers and after any   *)
(* crash, an action of a rule on a source is planned once.                 *)
THEOREM UniqueJobs == Spec => []JobsAreUnique
<1>1. IInv => JobsAreUnique
  BY DEF IInv, Planned
<1> QED BY <1>1, Invariant, PTL

(* A copy that stands in a target was received by its rule's listener.     *)
THEOREM CopiesAreReceived == Spec => []CopiesAreTheListeners
<1>1. IInv => CopiesAreTheListeners
  BY DEF IInv, Planned, CopiesHaveRows, HasRow, CopiesAreTheListeners
<1> QED BY <1>1, Invariant, PTL

(* A received event is lost to a rule in one way only: the drain that marks *)
(* its row is of a host without the rules of the account that received it. *)
(* drain_to_jobs takes the rows of every account, next_unprocessed asks    *)
(* for no particular one.                                                  *)
THEOREM LostToStrangersOnly ==
  Spec => [][\A row \in processed' \ processed : MarkedIsPlanned(row)]_vars
<1>1. ASSUME [Next]_vars, NEW row \in processed' \ processed, NEW r \in Rules,
             MatchesRule(r, row), Wants(r, row)
      PROVE  HasJob(r, row)' \/ TakenByStranger(row)
  <2>1. PICK w \in Workers, a \in Accounts :
               DrainToJobs(w, a) /\ row \in drain[w][a].rows
    BY <1>1, OnlyDrainsMark
  <2>2. CASE row.acct \in cached[w]
    BY <1>1, <2>1, <2>2, KnownRowsArePlanned
  <2>3. CASE row.acct \notin cached[w]
    BY <2>1, <2>3 DEF TakenByStranger
  <2> QED BY <2>2, <2>3
<1>2. [Next]_vars => \A row \in processed' \ processed : MarkedIsPlanned(row)
  BY <1>1 DEF MarkedIsPlanned
<1> QED BY <1>2, PTL DEF Spec

(* One host that holds the rules of all its accounts and gives none of     *)
(* them up plans for whatever it received, however its runners' drains     *)
(* overlap or fail.  With a second host, or without the rules of one       *)
(* account for a minute, it does not (see LostToStrangersOnly).            *)
THEOREM OneHostPlans ==
  ASSUME NEW CONSTANT w, Workers = {w}
  PROVE  Spec /\ [](host[w] \subseteq cached[w])
              /\ [][host[w] \subseteq host'[w]]_vars => []EventIsPlanned
<1>1. Init => Homely(w) /\ EventIsPlanned
  BY DEF Init, Homely, EventIsPlanned
<1>2. /\ TypeOK /\ host[w] \subseteq cached[w] /\ Homely(w) /\ EventIsPlanned
      /\ [Next]_vars /\ [host[w] \subseteq host'[w]]_vars
      => (Homely(w) /\ EventIsPlanned)'
  <2> SUFFICES ASSUME TypeOK, host[w] \subseteq cached[w], Homely(w), EventIsPlanned,
                      [Next]_vars, [host[w] \subseteq host'[w]]_vars
               PROVE  Homely(w)' /\ EventIsPlanned'
    OBVIOUS
  <2>1. host[w] \subseteq host'[w]
    BY DEF vars, hosts
  <2> QED BY <2>1, HomelyStep, EventsPlannedStep
<1> QED BY <1>1, <1>2, TypeCorrect, PTL DEF Spec

=============================================================================
