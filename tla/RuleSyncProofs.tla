---------------------------- MODULE RuleSyncProofs ----------------------------
(***************************************************************************)
(* What RuleSync keeps, whatever the rules, the accounts and the hosts: a  *)
(* rule's current version is the number of its snapshots, and a snapshot   *)
(* is never published over.                                                *)
(***************************************************************************)
EXTENDS RuleSync, TLAPS, SequenceTheorems

(* The type invariant, in parts.                                           *)
PlatformOK ==
  /\ rule \in [Rules -> RuleRow]
  /\ versions \in [Rules -> Seq(Nat)]
  /\ publishing \in [Publishers -> Publish \cup {Nobody}]
  /\ failover \subseteq [rule : Rules, heir : Accounts]
  /\ changes \in 0..MaxChanges

CommandOK == command \in Seq(Reload) /\ Len(command) <= MaxCommands

HostsOK ==
  /\ hosted \in [Hosts -> SUBSET Accounts]
  /\ cache \in [Hosts -> [Accounts -> Held]]
  /\ disabled \in [Hosts -> SUBSET Rules]
  /\ seen \in [Hosts -> SUBSET Commands]
  /\ pulled \in [Hosts -> Answer \cup {Nobody}]
  /\ due \subseteq Hosts
  /\ round \in [Hosts -> SUBSET Accounts]

FaultsOK == faults \in 0..MaxFaults

LEMMA TypeParts ==
  /\ TypeOK <=> PlatformOK /\ CommandOK /\ HostsOK /\ FaultsOK
  /\ TypeOK' <=> PlatformOK' /\ CommandOK' /\ HostsOK' /\ FaultsOK'
BY DEF TypeOK, PlatformOK, CommandOK, HostsOK, FaultsOK

(* A part nobody touches keeps its type.                                   *)
LEMMA PartsStay ==
  /\ PlatformOK /\ UNCHANGED platform => PlatformOK'
  /\ CommandOK /\ UNCHANGED command => CommandOK'
  /\ HostsOK /\ UNCHANGED hostVars => HostsOK'
  /\ FaultsOK /\ UNCHANGED faults => FaultsOK'
BY DEF PlatformOK, CommandOK, HostsOK, FaultsOK, platform, hostVars

(* Versions are numbered one after the other, and a request that publishes *)
(* has a number that follows one there was when it looked.                 *)
Numbered ==
  /\ \A r \in Rules : /\ rule[r].current = Len(versions[r])
                      /\ rule[r].current <= changes
  /\ \A p \in Publishers : publishing[p] # Nobody =>
       /\ publishing[p].next <= Len(versions[publishing[p].rule]) + 1
       /\ publishing[p].next <= changes

IInv == TypeOK /\ Numbered

(* What SnapshotsStand says of a step.                                     *)
SnapshotStep ==
  \A r \in Rules : /\ DOMAIN versions[r] \subseteq DOMAIN versions'[r]
                   /\ \A n \in DOMAIN versions[r] : versions'[r][n] = versions[r][n]
                   /\ rule'[r].current = Len(versions'[r])

LEMMA RowFields ==
  ASSUME PlatformOK, NEW r \in Rules
  PROVE  /\ rule[r].account \in Accounts
         /\ rule[r].current \in Nat /\ rule[r].current <= MaxChanges
         /\ rule[r].draft \in Nat
BY ConstantsAssumption DEF PlatformOK, RuleRow, Versions, ConstantsAssumption

LEMMA RequestFields ==
  ASSUME PlatformOK, NEW p \in Publishers, publishing[p] # Nobody
  PROVE  /\ publishing[p].rule \in Rules
         /\ publishing[p].account \in Accounts
         /\ publishing[p].next \in Nat
         /\ publishing[p].draft \in Nat
BY DEF PlatformOK, Publish

LEMMA AnswerFields ==
  ASSUME HostsOK, NEW h \in Hosts, pulled[h] # Nobody
  PROVE  /\ pulled[h].account \in Accounts
         /\ pulled[h].rows \in Held
         /\ pulled[h].for \in Commands \cup {0}
BY DEF HostsOK, Answer

(* A change to one row leaves the others and the fields it does not name.  *)
LEMMA RowChanges ==
  ASSUME PlatformOK, NEW r \in Rules, NEW row \in RuleRow, rule' = [rule EXCEPT ![r] = row]
  PROVE  /\ rule' \in [Rules -> RuleRow]
         /\ rule'[r] = row
         /\ \A s \in Rules \ {r} : rule'[s] = rule[s]
BY DEF PlatformOK

LEMMA NotifyTypes ==
  ASSUME CommandOK, NEW a \in Accounts, Notify(a)
  PROVE  CommandOK'
<1>1. CASE command' = command
  BY <1>1 DEF CommandOK
<1>2. CASE Len(command) < MaxCommands
           /\ command' = Append(command, [account |-> a, status |-> "pending"])
  <2>1. [account |-> a, status |-> "pending"] \in Reload BY DEF Reload
  <2>2. command' \in Seq(Reload) /\ Len(command') = Len(command) + 1
    BY <1>2, <2>1, AppendProperties DEF CommandOK
  <2>3. Len(command) \in Nat BY LenProperties DEF CommandOK
  <2> QED BY <1>2, <2>2, <2>3, ConstantsAssumption DEF CommandOK, ConstantsAssumption
<1> QED BY <1>1, <1>2 DEF Notify

(* A command that is marked done stays where it is.                        *)
LEMMA DoneTypes ==
  ASSUME CommandOK, NEW c, command' = [command EXCEPT ![c].status = "done"]
  PROVE  CommandOK'
<1>1. Len(command) \in Nat /\ DOMAIN command = 1..Len(command)
      /\ command \in [1..Len(command) -> Reload]
  BY LenProperties DEF CommandOK
<1>2. CASE c \in 1..Len(command)
  <2>1. command[c] \in Reload BY <1>1, <1>2
  <2>2. [command[c] EXCEPT !.status = "done"] \in Reload BY <2>1 DEF Reload
  <2>3. command' = [command EXCEPT ![c] = [command[c] EXCEPT !.status = "done"]]
    BY <1>1, <1>2
  <2> QED BY <1>2, <2>2, <2>3, ExceptSeq DEF CommandOK
<1>3. CASE c \notin 1..Len(command)
  <2>1. command' = command BY <1>1, <1>3
  <2> QED BY <2>1 DEF CommandOK
<1> QED BY <1>2, <1>3

(* A snapshot written behind the last one extends the sequence.            *)
LEMMA SnapshotAppended ==
  ASSUME NEW seq \in Seq(Nat), NEW d \in Nat, NEW n, n = Len(seq) + 1
  PROVE  /\ Written(seq, n, d) \in Seq(Nat)
         /\ Len(Written(seq, n, d)) = n
         /\ DOMAIN seq \subseteq DOMAIN Written(seq, n, d)
         /\ \A i \in DOMAIN seq : Written(seq, n, d)[i] = seq[i]
<1> DEFINE new == Written(seq, n, d)
<1>1. Len(seq) \in Nat /\ DOMAIN seq = 1..Len(seq) /\ seq \in [1..Len(seq) -> Nat]
  BY LenProperties
<1>2. DOMAIN seq \cup {n} = 1..n
  BY <1>1
<1>3. new \in [1..n -> Nat]
  BY <1>1, <1>2 DEF Written
<1>4. new \in Seq(Nat)
  <2>1. n \in Nat BY <1>1
  <2>2. Seq(Nat) = UNION {[1..m -> Nat] : m \in Nat} BY SeqDef, Zenon
  <2> QED BY <1>3, <2>1, <2>2, Zenon
<1>5. Len(new) = n
  <2>1. Len(new) \in Nat /\ 1..Len(new) = 1..n
    BY <1>3, <1>4, LenProperties
  <2>2. Len(new) <= n
    <3> SUFFICES ASSUME Len(new) > n PROVE FALSE BY <1>1, <2>1
    <3>1. Len(new) \in 1..Len(new) BY <1>1, <2>1
    <3>2. Len(new) \in 1..n BY <2>1, <3>1, Zenon
    <3> QED BY <1>1, <2>1, <3>2
  <2>3. n <= Len(new)
    <3>1. n \in 1..n BY <1>1
    <3>2. n \in 1..Len(new) BY <2>1, <3>1, Zenon
    <3> QED BY <1>1, <2>1, <3>2
  <2> QED BY <1>1, <2>1, <2>2, <2>3
<1>6. \A i \in DOMAIN seq : new[i] = seq[i]
  BY <1>1 DEF Written
<1>7. DOMAIN seq \subseteq DOMAIN new
  BY <1>2, <1>3
<1> QED BY <1>4, <1>5, <1>6, <1>7

-----------------------------------------------------------------------------
LEMMA InitIInv == Init => IInv
<1> SUFFICES ASSUME Init PROVE IInv OBVIOUS
<1>1. PlatformOK
  BY ConstantsAssumption, EmptySeq
     DEF Init, PlatformOK, RuleRow, Versions, ConstantsAssumption
<1>2. CommandOK
  BY ConstantsAssumption, EmptySeq DEF Init, CommandOK, ConstantsAssumption
<1>3. HostsOK
  BY ConstantsAssumption
     DEF Init, HostsOK, Held, NoRules, Versions, ConstantsAssumption
<1>4. FaultsOK
  BY ConstantsAssumption DEF Init, FaultsOK, ConstantsAssumption
<1>5. Numbered
  BY EmptySeq DEF Init, Numbered
<1> QED BY <1>1, <1>2, <1>3, <1>4, <1>5, TypeParts DEF IInv

(* Numbers stay right while versions, numbers and requests do.             *)
LEMMA NumbersStay ==
  ASSUME IInv, PlatformOK', changes <= changes', UNCHANGED <<versions, publishing>>,
         \A r \in Rules : rule'[r].current = rule[r].current
  PROVE  Numbered'
<1>1. PlatformOK BY TypeParts DEF IInv
<1>2. changes \in Nat /\ changes' \in Nat
  BY <1>1, ConstantsAssumption DEF PlatformOK, ConstantsAssumption
<1>3. \A r \in Rules : /\ rule'[r].current = Len(versions'[r])
                       /\ rule'[r].current <= changes'
  BY <1>1, <1>2, RowFields DEF IInv, Numbered
<1>4. \A p \in Publishers : publishing'[p] # Nobody =>
       /\ publishing'[p].next <= Len(versions'[publishing'[p].rule]) + 1
       /\ publishing'[p].next <= changes'
  BY <1>1, <1>2, RequestFields DEF IInv, Numbered
<1> QED BY <1>3, <1>4 DEF Numbered

LEMMA ChangeTypes ==
  ASSUME PlatformOK, Change
  PROVE  changes' \in 0..MaxChanges /\ changes' = changes + 1 /\ changes \in Nat
BY ConstantsAssumption DEF PlatformOK, Change, ConstantsAssumption

LEMMA UpdateStep ==
  ASSUME IInv, NEW r \in Rules, Update(r) \/ Delete(r)
  PROVE  IInv' /\ UNCHANGED versions
<1>t. PlatformOK /\ CommandOK /\ HostsOK /\ FaultsOK BY TypeParts DEF IInv
<1>1. PICK row \in RuleRow : /\ rule' = [rule EXCEPT ![r] = row]
                             /\ row.current = rule[r].current
  <2>1. rule[r] \in RuleRow BY <1>t DEF PlatformOK
  <2>2. CASE Update(r)
    <3>1. PICK to \in {"on", "off"} :
            rule' = [rule EXCEPT ![r].draft = @ + 1, ![r].state = to]
      BY <2>2 DEF Update
    <3> DEFINE row == [rule[r] EXCEPT !.draft = @ + 1, !.state = to]
    <3>2. row \in RuleRow /\ row.current = rule[r].current
      <4>1. PICK old \in RuleRow : old = rule[r] BY <2>1
      <4>2. [old EXCEPT !.draft = @ + 1, !.state = to] \in RuleRow
        <5>1. old.draft + 1 \in Nat BY <4>1 DEF RuleRow
        <5>2. \A d \in Nat : [old EXCEPT !.draft = d, !.state = to] \in RuleRow
          BY <4>1 DEF RuleRow
        <5> QED BY <5>1, <5>2
      <4>3. [old EXCEPT !.draft = @ + 1, !.state = to].current = old.current
        BY <4>1 DEF RuleRow
      <4> QED BY <4>1, <4>2, <4>3
    <3>3. rule' = [rule EXCEPT ![r] = row]
      BY <1>t, <3>1 DEF PlatformOK
    <3> QED BY <3>2, <3>3
  <2>3. CASE Delete(r)
    <3> DEFINE row == [rule[r] EXCEPT !.state = "deleted"]
    <3>1. row \in RuleRow /\ row.current = rule[r].current
      BY <2>1 DEF RuleRow
    <3>2. rule' = [rule EXCEPT ![r] = row]
      BY <2>3 DEF Delete
    <3> QED BY <3>1, <3>2
  <2> QED BY <2>2, <2>3
<1>2. /\ UNCHANGED <<versions, publishing, failover, hostVars, faults>>
      /\ Change /\ Notify(rule[r].account)
  BY DEF Update, Delete
<1>3. /\ rule' \in [Rules -> RuleRow]
      /\ \A s \in Rules : rule'[s].current = rule[s].current
  BY <1>t, <1>1, RowChanges
<1>4. PlatformOK' BY <1>t, <1>2, <1>3, ChangeTypes DEF PlatformOK
<1>5. CommandOK' BY <1>t, <1>2, NotifyTypes, RowFields
<1>6. changes <= changes' BY <1>t, <1>2, ChangeTypes
<1> QED BY <1>t, <1>2, <1>3, <1>4, <1>5, <1>6, NumbersStay, TypeParts, PartsStay DEF IInv

LEMMA PublishReadsStep ==
  ASSUME IInv, NEW p \in Publishers, NEW r \in Rules, PublishReads(p, r)
  PROVE  IInv' /\ UNCHANGED <<versions, rule>>
<1>t. PlatformOK /\ CommandOK /\ HostsOK /\ FaultsOK BY TypeParts DEF IInv
<1> DEFINE q == [rule |-> r, account |-> rule[r].account, next |-> rule[r].current + 1,
                 draft |-> rule[r].draft]
<1>1. /\ publishing' = [publishing EXCEPT ![p] = q]
      /\ UNCHANGED <<rule, versions, failover, command, hostVars, faults>> /\ Change
  BY DEF PublishReads
<1>2. q \in Publish BY <1>t, RowFields DEF Publish
<1>3. q.rule = r /\ q.next = rule[r].current + 1 OBVIOUS
<1> HIDE DEF q
<1>4. PlatformOK' BY <1>t, <1>1, <1>2, ChangeTypes DEF PlatformOK
<1>5. changes' = changes + 1 /\ changes \in Nat BY <1>t, <1>1, ChangeTypes
<1>6. \A s \in Rules : /\ rule'[s].current = Len(versions'[s])
                       /\ rule'[s].current <= changes'
  BY <1>t, <1>1, <1>5, RowFields DEF IInv, Numbered
<1>7. \A o \in Publishers : publishing'[o] # Nobody =>
       /\ publishing'[o].next <= Len(versions'[publishing'[o].rule]) + 1
       /\ publishing'[o].next <= changes'
  <2> SUFFICES ASSUME NEW o \in Publishers, publishing'[o] # Nobody
               PROVE  /\ publishing'[o].next <= Len(versions[publishing'[o].rule]) + 1
                      /\ publishing'[o].next <= changes + 1
    BY <1>1, <1>5
  <2>1. CASE o = p
    <3>1. publishing'[o] = q BY <1>1, <2>1, <1>t DEF PlatformOK
    <3> QED BY <1>t, <1>3, <1>5, <3>1, RowFields DEF IInv, Numbered
  <2>2. CASE o # p
    <3>1. publishing'[o] = publishing[o] BY <1>1, <2>2, <1>t DEF PlatformOK
    <3> QED BY <1>t, <1>5, <3>1, RequestFields DEF IInv, Numbered
  <2> QED BY <2>1, <2>2
<1>8. Numbered' BY <1>6, <1>7 DEF Numbered
<1> QED BY <1>t, <1>1, <1>4, <1>8, TypeParts, PartsStay DEF IInv

(* The one step that writes a snapshot: it comes behind the last one.      *)
LEMMA PublishWritesStep ==
  ASSUME IInv, NEW p \in Publishers, PublishWrites(p)
  PROVE  IInv' /\ SnapshotStep
<1>t. PlatformOK /\ CommandOK /\ HostsOK /\ FaultsOK BY TypeParts DEF IInv
<1>1. PICK r \in Rules, n \in Nat, d \in Nat :
        /\ n = Len(versions[r]) + 1 /\ n <= changes
        /\ publishing[p].account \in Accounts
        /\ publishing' = [publishing EXCEPT ![p] = Nobody]
        /\ versions' = [versions EXCEPT ![r] = Written(versions[r], n, d)]
        /\ rule' = [rule EXCEPT ![r].current = n]
        /\ Notify(publishing[p].account)
        /\ UNCHANGED <<failover, changes, hostVars, faults>>
  <2>1. publishing[p] # Nobody BY DEF PublishWrites
  <2>2. /\ publishing[p].rule \in Rules /\ publishing[p].account \in Accounts
        /\ publishing[p].next \in Nat /\ publishing[p].draft \in Nat
    BY <1>t, <2>1, RequestFields
  <2>3. /\ publishing[p].next <= Len(versions[publishing[p].rule]) + 1
        /\ publishing[p].next <= changes
    BY <2>1 DEF IInv, Numbered
  <2>4. publishing[p].next > Len(versions[publishing[p].rule])
    BY DEF PublishWrites, VersionIsFree
  <2>5. Len(versions[publishing[p].rule]) \in Nat
    BY <1>t, <2>2, LenProperties DEF PlatformOK
  <2>6. publishing[p].next = Len(versions[publishing[p].rule]) + 1
    BY <2>2, <2>3, <2>4, <2>5
  <2>7. /\ publishing' = [publishing EXCEPT ![p] = Nobody]
        /\ versions' = [versions EXCEPT ![publishing[p].rule] =
             Written(versions[publishing[p].rule], publishing[p].next, publishing[p].draft)]
        /\ rule' = [rule EXCEPT ![publishing[p].rule].current = publishing[p].next]
        /\ Notify(publishing[p].account)
        /\ UNCHANGED <<failover, changes, hostVars, faults>>
    BY DEF PublishWrites
  <2> QED BY <2>2, <2>3, <2>6, <2>7
<1> DEFINE new == Written(versions[r], n, d)
<1>2. versions[r] \in Seq(Nat) BY <1>t DEF PlatformOK
<1>3. /\ new \in Seq(Nat) /\ Len(new) = n
      /\ DOMAIN versions[r] \subseteq DOMAIN new
      /\ \A i \in DOMAIN versions[r] : new[i] = versions[r][i]
  <2>1. n = Len(versions[r]) + 1 /\ d \in Nat BY <1>1
  <2>2. \A seq \in Seq(Nat) : n = Len(seq) + 1 =>
          /\ Written(seq, n, d) \in Seq(Nat) /\ Len(Written(seq, n, d)) = n
          /\ DOMAIN seq \subseteq DOMAIN Written(seq, n, d)
          /\ \A i \in DOMAIN seq : Written(seq, n, d)[i] = seq[i]
    BY <2>1, SnapshotAppended
  <2> QED BY <1>2, <2>1, <2>2, Zenon
<1>4. versions' = [versions EXCEPT ![r] = new] BY <1>1
<1> HIDE DEF new
<1>5. /\ versions' \in [Rules -> Seq(Nat)] /\ versions'[r] = new
      /\ \A s \in Rules \ {r} : versions'[s] = versions[s]
  BY <1>t, <1>3, <1>4 DEF PlatformOK
<1>6. changes \in Nat /\ changes <= MaxChanges
  BY <1>t, ConstantsAssumption DEF PlatformOK, ConstantsAssumption
<1>7. n \in Versions BY <1>1, <1>6, ConstantsAssumption DEF Versions, ConstantsAssumption
<1>8. /\ rule' \in [Rules -> RuleRow] /\ rule'[r].current = n
      /\ \A s \in Rules \ {r} : rule'[s] = rule[s]
  <2>1. PICK old \in RuleRow : old = rule[r] BY <1>t DEF PlatformOK
  <2>2. /\ [old EXCEPT !.current = n] \in RuleRow
        /\ [old EXCEPT !.current = n].current = n
    BY <1>7, <2>1 DEF RuleRow
  <2>3. rule' = [rule EXCEPT ![r] = [old EXCEPT !.current = n]]
    BY <1>1, <2>1
  <2> QED BY <1>t, <2>2, <2>3, RowChanges
<1>9. publishing' \in [Publishers -> Publish \cup {Nobody}]
  BY <1>t, <1>1 DEF PlatformOK
<1>10. PlatformOK' BY <1>t, <1>1, <1>5, <1>8, <1>9 DEF PlatformOK
<1>11. CommandOK' BY <1>t, <1>1, NotifyTypes
<1>12. \A s \in Rules : rule'[s].current = Len(versions'[s]) /\ rule'[s].current <= changes'
  BY <1>1, <1>3, <1>5, <1>8 DEF IInv, Numbered
<1>13. \A o \in Publishers : publishing'[o] # Nobody =>
         /\ publishing'[o].next <= Len(versions'[publishing'[o].rule]) + 1
         /\ publishing'[o].next <= changes'
  <2> SUFFICES ASSUME NEW o \in Publishers, publishing'[o] # Nobody
               PROVE  /\ publishing'[o].next <= Len(versions'[publishing'[o].rule]) + 1
                      /\ publishing'[o].next <= changes
    BY <1>1
  <2>1. publishing'[o] = publishing[o] BY <1>t, <1>1 DEF PlatformOK
  <2>2. /\ publishing[o].rule \in Rules /\ publishing[o].next \in Nat
        /\ publishing[o].next <= Len(versions[publishing[o].rule]) + 1
        /\ publishing[o].next <= changes
    BY <1>t, <2>1, RequestFields DEF IInv, Numbered
  <2>3. /\ Len(versions[r]) \in Nat
        /\ Len(versions'[r]) = Len(versions[r]) + 1
    BY <1>1, <1>2, <1>3, <1>5, LenProperties
  <2>4. CASE publishing[o].rule = r
    BY <2>1, <2>2, <2>3, <2>4
  <2>5. CASE publishing[o].rule # r
    BY <1>5, <2>1, <2>2, <2>5
  <2> QED BY <2>4, <2>5
<1>14. Numbered' BY <1>12, <1>13 DEF Numbered
<1>15. SnapshotStep BY <1>3, <1>5, <1>12 DEF SnapshotStep
<1> QED BY <1>t, <1>1, <1>10, <1>11, <1>14, <1>15, TypeParts, PartsStay DEF IInv

LEMMA PublishFailsStep ==
  ASSUME IInv, NEW p \in Publishers, PublishFails(p)
  PROVE  IInv' /\ UNCHANGED <<versions, rule>>
<1>t. PlatformOK /\ CommandOK /\ HostsOK /\ FaultsOK BY TypeParts DEF IInv
<1>1. /\ publishing' = [publishing EXCEPT ![p] = Nobody]
      /\ UNCHANGED <<rule, versions, failover, changes, command, hostVars, faults>>
  BY DEF PublishFails
<1>2. PlatformOK' BY <1>t, <1>1 DEF PlatformOK
<1>3. \A o \in Publishers : publishing'[o] # Nobody => publishing'[o] = publishing[o]
  BY <1>t, <1>1 DEF PlatformOK
<1>4. Numbered' BY <1>1, <1>3 DEF IInv, Numbered
<1> QED BY <1>t, <1>1, <1>2, <1>4, TypeParts, PartsStay DEF IInv

LEMMA FailoverReadsStep ==
  ASSUME IInv, NEW r \in Rules, NEW a \in Accounts, FailoverReads(r, a)
  PROVE  IInv' /\ UNCHANGED <<versions, rule>>
<1>t. PlatformOK /\ CommandOK /\ HostsOK /\ FaultsOK BY TypeParts DEF IInv
<1>1. /\ failover' = failover \cup {[rule |-> r, heir |-> a]} /\ Change
      /\ UNCHANGED <<rule, versions, publishing, command, hostVars, faults>>
  BY DEF FailoverReads
<1>2. changes' \in 0..MaxChanges /\ changes <= changes' BY <1>t, <1>1, ChangeTypes
<1>3. PlatformOK' BY <1>t, <1>1, <1>2 DEF PlatformOK
<1> QED BY <1>t, <1>1, <1>2, <1>3, NumbersStay, TypeParts, PartsStay DEF IInv

LEMMA FailoverEndsStep ==
  ASSUME IInv, NEW f \in failover, FailoverWrites(f) \/ FailoverFails(f)
  PROVE  IInv' /\ UNCHANGED versions
<1>t. PlatformOK /\ CommandOK /\ HostsOK /\ FaultsOK BY TypeParts DEF IInv
<1>1. f.rule \in Rules /\ f.heir \in Accounts BY <1>t DEF PlatformOK
<1>2. /\ failover' = failover \ {f}
      /\ UNCHANGED <<versions, publishing, changes, hostVars, faults>>
  BY DEF FailoverWrites, FailoverFails
<1>3. CASE FailoverWrites(f)
  <2>1. rule' = [rule EXCEPT ![f.rule].account = f.heir] /\ Notify(f.heir)
    BY <1>3 DEF FailoverWrites
  <2>2. PICK row \in RuleRow : /\ rule' = [rule EXCEPT ![f.rule] = row]
                               /\ row.current = rule[f.rule].current
    <3>1. PICK old \in RuleRow : old = rule[f.rule] BY <1>t, <1>1 DEF PlatformOK
    <3>2. PICK heir \in Accounts : heir = f.heir BY <1>1
    <3>3. /\ [old EXCEPT !.account = heir] \in RuleRow
          /\ [old EXCEPT !.account = heir].current = old.current
      BY <3>1 DEF RuleRow
    <3> QED BY <2>1, <3>1, <3>2, <3>3
  <2>3. /\ rule' \in [Rules -> RuleRow]
        /\ \A s \in Rules : rule'[s].current = rule[s].current
    BY <1>t, <1>1, <2>2, RowChanges
  <2>4. PlatformOK' BY <1>t, <1>2, <2>3 DEF PlatformOK
  <2>5. CommandOK' BY <1>t, <1>1, <2>1, NotifyTypes
  <2>6. changes <= changes'
    BY <1>t, <1>2, ConstantsAssumption DEF PlatformOK, ConstantsAssumption
  <2> QED BY <1>t, <1>2, <2>3, <2>4, <2>5, <2>6, NumbersStay, TypeParts, PartsStay DEF IInv
<1>4. CASE FailoverFails(f)
  <2>1. UNCHANGED <<rule, command>> BY <1>4 DEF FailoverFails
  <2>2. PlatformOK' BY <1>t, <1>2, <2>1 DEF PlatformOK
  <2>3. changes <= changes'
    BY <1>t, <1>2, ConstantsAssumption DEF PlatformOK, ConstantsAssumption
  <2> QED BY <1>t, <1>2, <2>1, <2>2, <2>3, NumbersStay, TypeParts, PartsStay DEF IInv
<1> QED BY <1>3, <1>4

-----------------------------------------------------------------------------
(* The hosts.  They leave the platform alone, and so the numbers.          *)
LEMMA NumbersLeftAlone ==
  ASSUME IInv, UNCHANGED platform
  PROVE  Numbered' /\ UNCHANGED <<versions, rule>>
BY DEF IInv, Numbered, platform

LEMMA PulledTypes ==
  ASSUME PlatformOK, HostsOK, NEW h \in Hosts, NEW a \in Accounts, NEW c \in Commands \cup {0},
         Pull(h, a, c)
  PROVE  pulled' \in [Hosts -> Answer \cup {Nobody}]
<1>1. Published(a) \in Held
  BY RowFields, ConstantsAssumption DEF Published, Held, Versions, ConstantsAssumption
<1>2. [account |-> a, rows |-> Published(a), for |-> c] \in Answer
  BY <1>1 DEF Answer
<1> QED BY <1>2 DEF Pull, HostsOK

LEMMA NoRulesHeld == NoRules \in Held
BY ConstantsAssumption DEF NoRules, Held, Versions, ConstantsAssumption

LEMMA FaultTypes ==
  ASSUME FaultsOK, Fault
  PROVE  FaultsOK'
BY ConstantsAssumption DEF FaultsOK, Fault, ConstantsAssumption

LEMMA AckTypes ==
  ASSUME CommandOK, FaultsOK, NEW c, Ack(c)
  PROVE  CommandOK' /\ FaultsOK'
<1>1. CASE UNCHANGED command /\ (UNCHANGED faults \/ Fault)
  BY <1>1, PartsStay, FaultTypes
<1>2. CASE command' = [command EXCEPT ![c].status = "done"] /\ UNCHANGED faults
  BY <1>2, DoneTypes, PartsStay
<1> QED BY <1>1, <1>2 DEF Ack

LEMMA HostTypes ==
  ASSUME IInv, NEW h \in Hosts,
         HostNext(h) \/ PullFails(h) \/ TimePasses(h)
  PROVE  PlatformOK' /\ CommandOK' /\ HostsOK' /\ FaultsOK' /\ UNCHANGED platform
<1>t. PlatformOK /\ CommandOK /\ HostsOK /\ FaultsOK BY TypeParts DEF IInv
<1> USE PartsStay
<1>1. ASSUME NEW a \in Accounts, Assign(h, a)
      PROVE  PlatformOK' /\ CommandOK' /\ HostsOK' /\ FaultsOK' /\ UNCHANGED platform
  <2>1. pulled' \in [Hosts -> Answer \cup {Nobody}]
    BY <1>t, <1>1, PulledTypes DEF Assign
  <2>2. HostsOK' BY <1>t, <1>1, <2>1 DEF Assign, HostsOK
  <2> QED BY <1>t, <1>1, <2>2 DEF Assign
<1>2. ASSUME NEW a \in Accounts, PullNext(h, a)
      PROVE  PlatformOK' /\ CommandOK' /\ HostsOK' /\ FaultsOK' /\ UNCHANGED platform
  <2>1. pulled' \in [Hosts -> Answer \cup {Nobody}]
    BY <1>t, <1>2, PulledTypes DEF PullNext
  <2>2. HostsOK' BY <1>t, <1>2, <2>1 DEF PullNext, HostsOK
  <2> QED BY <1>t, <1>2, <2>2 DEF PullNext
<1>3. ASSUME NEW c \in Commands, TakeCommand(h, c)
      PROVE  PlatformOK' /\ CommandOK' /\ HostsOK' /\ FaultsOK' /\ UNCHANGED platform
  <2>1. command[c].account \in Accounts
    BY <1>t, <1>3 DEF TakeCommand, HostsOK
  <2>2. pulled' \in [Hosts -> Answer \cup {Nobody}]
    BY <1>t, <1>3, <2>1, PulledTypes DEF TakeCommand
  <2>3. HostsOK' BY <1>t, <1>3, <2>2 DEF TakeCommand, HostsOK
  <2> QED BY <1>t, <1>3, <2>3 DEF TakeCommand
<1>4. CASE UseRules(h)
  <2>1. /\ pulled[h].account \in Accounts /\ pulled[h].rows \in Held
    BY <1>t, <1>4, AnswerFields DEF UseRules
  <2>2. cache' \in [Hosts -> [Accounts -> Held]]
    BY <1>t, <1>4, <2>1 DEF UseRules, CacheAfter, HostsOK
  <2>3. disabled' \in [Hosts -> SUBSET Rules]
    <3>1. DisabledAfter(h, pulled[h].account, pulled[h].rows) \subseteq Rules
      BY <1>t DEF DisabledAfter, Ids, HostsOK
    <3>2. disabled' = [disabled EXCEPT ![h] =
                         DisabledAfter(h, pulled[h].account, pulled[h].rows)]
      BY <1>4 DEF UseRules
    <3> QED BY <1>t, <3>1, <3>2 DEF HostsOK
  <2>4. HostsOK' BY <1>t, <1>4, <2>2, <2>3 DEF UseRules, HostsOK
  <2>5. CommandOK' /\ FaultsOK' BY <1>t, <1>4, AckTypes DEF UseRules
  <2> QED BY <1>t, <1>4, <2>4, <2>5 DEF UseRules
<1>5. CASE BeginRound(h)
  <2>1. HostsOK' BY <1>t, <1>5 DEF BeginRound, HostsOK
  <2> QED BY <1>t, <1>5, <2>1 DEF BeginRound
<1>6. CASE PullFails(h)
  <2>1. HostsOK' BY <1>t, <1>6 DEF PullFails, HostsOK
  <2>2. CommandOK' BY <1>t, <1>6, DoneTypes DEF PullFails
  <2>3. FaultsOK' BY <1>t, <1>6, FaultTypes DEF PullFails
  <2> QED BY <1>t, <1>6, <2>1, <2>2, <2>3 DEF PullFails
<1>7. CASE TimePasses(h)
  <2>1. HostsOK' BY <1>t, <1>7 DEF TimePasses, HostsOK
  <2> QED BY <1>t, <1>7, <2>1 DEF TimePasses
<1> QED BY <1>1, <1>2, <1>3, <1>4, <1>5, <1>6, <1>7 DEF HostNext

LEMMA ReleaseTypes ==
  ASSUME IInv, NEW h \in Hosts, Crash(h) \/ \E a \in Accounts : Release(h, a)
  PROVE  PlatformOK' /\ CommandOK' /\ HostsOK' /\ FaultsOK' /\ UNCHANGED platform
<1>t. PlatformOK /\ CommandOK /\ HostsOK /\ FaultsOK BY TypeParts DEF IInv
<1>1. ASSUME NEW a \in Accounts, Release(h, a)
      PROVE  PlatformOK' /\ CommandOK' /\ HostsOK' /\ FaultsOK' /\ UNCHANGED platform
  <2>1. cache' \in [Hosts -> [Accounts -> Held]]
    BY <1>t, <1>1, NoRulesHeld DEF Release, HostsOK
  <2>2. HostsOK' BY <1>t, <1>1, <2>1 DEF Release, HostsOK
  <2> QED BY <1>t, <1>1, <2>2, PartsStay, FaultTypes DEF Release
<1>2. CASE Crash(h)
  <2>1. [a \in Accounts |-> NoRules] \in [Accounts -> Held] BY NoRulesHeld
  <2>2. cache' \in [Hosts -> [Accounts -> Held]] BY <1>t, <1>2, <2>1 DEF Crash, HostsOK
  <2>3. HostsOK' BY <1>t, <1>2, <2>2 DEF Crash, HostsOK
  <2> QED BY <1>t, <1>2, <2>3, PartsStay, FaultTypes DEF Crash
<1> QED BY <1>1, <1>2

-----------------------------------------------------------------------------
(* A step that writes no snapshot keeps them and their count.              *)
LEMMA SnapshotsLeftAlone ==
  ASSUME IInv', UNCHANGED versions
  PROVE  SnapshotStep
BY DEF IInv, Numbered, SnapshotStep

LEMMA Step == IInv /\ [Next]_vars => IInv' /\ SnapshotStep
<1> SUFFICES ASSUME IInv, [Next]_vars PROVE IInv' /\ SnapshotStep OBVIOUS
<1>1. ASSUME NEW r \in Rules, Update(r) \/ Delete(r)
      PROVE  IInv' /\ SnapshotStep
  BY <1>1, UpdateStep, SnapshotsLeftAlone
<1>2. ASSUME NEW p \in Publishers, NEW r \in Rules, PublishReads(p, r)
      PROVE  IInv' /\ SnapshotStep
  BY <1>2, PublishReadsStep, SnapshotsLeftAlone
<1>3. ASSUME NEW p \in Publishers, PublishWrites(p) \/ PublishFails(p)
      PROVE  IInv' /\ SnapshotStep
  BY <1>3, PublishWritesStep, PublishFailsStep, SnapshotsLeftAlone
<1>4. ASSUME NEW r \in Rules, NEW a \in Accounts, FailoverReads(r, a)
      PROVE  IInv' /\ SnapshotStep
  BY <1>4, FailoverReadsStep, SnapshotsLeftAlone
<1>5. ASSUME NEW f \in failover, FailoverWrites(f) \/ FailoverFails(f)
      PROVE  IInv' /\ SnapshotStep
  BY <1>5, FailoverEndsStep, SnapshotsLeftAlone
<1>6. ASSUME NEW h \in Hosts, \/ HostNext(h) \/ PullFails(h) \/ TimePasses(h) \/ Crash(h)
                              \/ \E a \in Accounts : Release(h, a)
      PROVE  IInv' /\ SnapshotStep
  <2>1. PlatformOK' /\ CommandOK' /\ HostsOK' /\ FaultsOK' /\ UNCHANGED platform
    BY <1>6, HostTypes, ReleaseTypes
  <2> QED BY <2>1, NumbersLeftAlone, SnapshotsLeftAlone, TypeParts DEF IInv
<1>7. CASE UNCHANGED vars
  <2>1. UNCHANGED <<platform, command, hostVars, faults>> BY <1>7 DEF vars
  <2> QED BY <2>1, NumbersLeftAlone, SnapshotsLeftAlone, TypeParts, PartsStay DEF IInv
<1> QED BY <1>1, <1>2, <1>3, <1>4, <1>5, <1>6, <1>7 DEF Next

(* Every variable keeps to its values.                                     *)
THEOREM TypeCorrect == Spec => []TypeOK
<1>1. IInv => TypeOK BY DEF IInv
<1> QED BY <1>1, InitIInv, Step, PTL DEF Spec

(* Published snapshots stand, and the current version is the last of them, *)
(* however many requests publish at once.                                  *)
THEOREM SnapshotsNeverChange == Spec => SnapshotsStand
<1>1. IInv /\ [Next]_vars => [SnapshotStep]_vars BY Step
<1>2. Spec => [][SnapshotStep]_vars BY <1>1, InitIInv, Step, PTL DEF Spec
<1> QED BY <1>2 DEF SnapshotsStand, SnapshotStep
=============================================================================
