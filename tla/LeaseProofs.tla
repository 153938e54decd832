----------------------------- MODULE LeaseProofs -----------------------------
(***************************************************************************)
(* Theorems about Lease, for every set of accounts and workers and every   *)
(* bound: the generation of a lease fences its hosts off from each other.  *)
(* The invariant follows a generation from the row that was read, over the *)
(* row that was won, to the account hosted under it.                       *)
(***************************************************************************)
EXTENDS Lease, TLAPS

(* Runners run in the round of a tick only.                                *)
RunsInRound == \A w \in Workers : pc[w] # "round" => running[w] = {}

(* A row has a generation and a generation has a row, in the table and in  *)
(* the hands of whoever read or won it.                                    *)
Numbered ==
  /\ \A a \in Accounts : owner[a] = Nobody <=> gen[a] = 0
  /\ \A w \in Workers : /\ pc[w] = "acquire" /\ row[w].by # Nobody => row[w].gen # 0
                        /\ pc[w] = "connect" => row[w].by = w /\ row[w].gen # 0

Typed == TypeOK /\ RunsInRound /\ Numbered

-----------------------------------------------------------------------------
(* Type correctness.                                                       *)

LEMMA InitTyped == Init => Typed
  BY ConstantsAssumption
     DEF Init, Typed, TypeOK, RunsInRound, Numbered, Loc, NoRow, LeaseRow, Hosted

(* What a step of worker w must leave behind for its own part of the state *)
(* when it touches nobody else's.                                          *)
LEMMA ReleaseTyped ==
  ASSUME Typed, NEW w \in Workers, NEW a \in Accounts, pc[w] # "round",
         Release(w, a)
  PROVE  /\ host' \in [Workers -> [Accounts -> Nat]]
         /\ beating' \in [Workers -> SUBSET Accounts]
         /\ halted' \in [Workers -> SUBSET Accounts]
         /\ \A v \in Workers : /\ beating'[v] \subseteq Hosted(v)'
                               /\ busy[v] \subseteq running[v]
                               /\ running[v] \subseteq Hosted(v)'
                               /\ halted'[v] \subseteq Hosted(v)'
<1>1. running[w] = {}
  BY DEF Typed, RunsInRound
<1>2. host' \in [Workers -> [Accounts -> Nat]]
  BY DEF Release, Typed, TypeOK
<1>3. \A v \in Workers : Hosted(v)' = IF v = w THEN Hosted(v) \ {a} ELSE Hosted(v)
  BY <1>2 DEF Release, Typed, TypeOK, Hosted
<1> QED BY <1>1, <1>2, <1>3 DEF Release, Typed, TypeOK

LEMMA RowFields ==
  ASSUME TypeOK, NEW w \in Workers
  PROVE  /\ row[w].acct \in Accounts \cup {Nobody}
         /\ row[w].by \in Workers \cup {Nobody}
         /\ row[w].gen \in Nat
         /\ pc[w] \in {"acquire", "connect"} => row[w].acct \in Accounts
  BY DEF TypeOK, LeaseRow

LEMMA AdvanceTyped ==
  ASSUME Typed, NEW w \in Workers, NextAccount(w)
  PROVE  /\ pc'  \in [Workers -> Loc]
         /\ add' \in [Workers -> SUBSET Accounts]
         /\ row' \in [Workers -> LeaseRow]
         /\ pc'[w] = "assign"
         /\ \A v \in Workers \ {w} :
              pc'[v] = pc[v] /\ add'[v] = add[v] /\ row'[v] = row[v]
<1>1. NoRow \in LeaseRow
  BY DEF NoRow, LeaseRow
<1>2. row \in [Workers -> LeaseRow]
  BY DEF Typed, TypeOK
<1>3. row' \in [Workers -> LeaseRow]
  BY <1>1, <1>2 DEF NextAccount
<1> QED BY <1>2, <1>3 DEF NextAccount, Typed, TypeOK, Loc

LEMMA AdvanceNumbered ==
  ASSUME Typed, NEW w \in Workers, NextAccount(w), UNCHANGED lease
  PROVE  Numbered'
<1>1. /\ pc'[w] = "assign"
      /\ \A v \in Workers \ {w} : pc'[v] = pc[v] /\ row'[v] = row[v]
  BY AdvanceTyped
<1> QED BY <1>1 DEF Typed, Numbered, lease

LEMMA WonTyped ==
  ASSUME Typed, NEW w \in Workers, NEW g \in Nat \ {0}, pc[w] = "acquire", Won(w, g),
         UNCHANGED <<drop, hosted, lost, work, faults>>
  PROVE  Typed'
<1>1. PICK a \in Accounts : a = row[w].acct /\ a \in add[w]
  BY RowFields DEF Typed, TypeOK
<1>2. [acct |-> a, by |-> w, gen |-> g] \in LeaseRow
  BY DEF LeaseRow
<1>3. /\ owner' = [owner EXCEPT ![a] = w]
      /\ gen'   = [gen   EXCEPT ![a] = g]
      /\ live'  = live \cup {a}
      /\ pc'    = [pc    EXCEPT ![w] = "connect"]
      /\ row'   = [row   EXCEPT ![w] = [acct |-> a, by |-> w, gen |-> g]]
      /\ add' = add
  BY <1>1 DEF Won
<1>4. row' \in [Workers -> LeaseRow]
  BY <1>2, <1>3 DEF Typed, TypeOK
<1>5. \A v \in Workers : pc'[v] \in {"acquire", "connect"} => row'[v].acct \in add'[v]
  BY <1>1, <1>3 DEF Typed, TypeOK
<1>6. \A v \in Workers : Hosted(v)' = Hosted(v)
  BY DEF hosted, Hosted
<1>7. Numbered'
  BY <1>1, <1>3, ConstantsAssumption DEF Typed, TypeOK, Numbered
<1> QED BY <1>3, <1>4, <1>5, <1>6, <1>7
        DEF Typed, TypeOK, RunsInRound, Loc, hosted, work

LEMMA ReadTyped ==
  ASSUME Typed, NEW w \in Workers, ReadLease(w)
  PROVE  Typed'
<1> USE DEF Typed
<1>1. PICK a \in add[w] :
        /\ pc[w] = "assign"
        /\ IF Contended(w, a)
             THEN /\ add' = [add EXCEPT ![w] = @ \ {a}]
                  /\ UNCHANGED <<pc, row>>
             ELSE /\ pc'  = [pc  EXCEPT ![w] = "acquire"]
                  /\ row' = [row EXCEPT ![w] = [acct |-> a, by |-> owner[a],
                                                gen |-> gen[a]]]
                  /\ UNCHANGED add
  BY DEF ReadLease
<1>2. a \in Accounts
  BY <1>1 DEF TypeOK
<1>3. [acct |-> a, by |-> owner[a], gen |-> gen[a]] \in LeaseRow
  BY <1>2 DEF LeaseRow, TypeOK
<1>4. /\ UNCHANGED <<lease, drop, hosted, lost, work, faults>>
      /\ \A v \in Workers : Hosted(v)' = Hosted(v)
  BY DEF ReadLease, hosted, Hosted
<1>5. CASE Contended(w, a)
  <2>1. add' = [add EXCEPT ![w] = @ \ {a}] /\ UNCHANGED <<pc, row>>
    BY <1>1, <1>5
  <2> QED BY <1>1, <1>4, <2>1 DEF TypeOK, RunsInRound, Numbered, lease, hosted, work
<1>6. CASE ~Contended(w, a)
  <2>1. /\ pc'  = [pc  EXCEPT ![w] = "acquire"]
        /\ row' = [row EXCEPT ![w] = [acct |-> a, by |-> owner[a], gen |-> gen[a]]]
        /\ add' = add
    BY <1>1, <1>6
  <2>2. row' \in [Workers -> LeaseRow]
    BY <1>3, <2>1 DEF TypeOK
  <2>3. \A v \in Workers : pc'[v] \in {"acquire", "connect"} => row'[v].acct \in add'[v]
    BY <1>1, <2>1 DEF TypeOK
  <2>4. Numbered'
    BY <1>2, <1>4, <2>1 DEF TypeOK, Numbered, lease
  <2> QED BY <1>1, <1>4, <2>1, <2>2, <2>3, <2>4
          DEF TypeOK, RunsInRound, Loc, lease, hosted, work
<1> QED BY <1>5, <1>6

LEMMA WriteTyped ==
  ASSUME Typed, NEW w \in Workers, WriteLease(w)
  PROVE  Typed'
<1>1. /\ pc[w] = "acquire"
      /\ UNCHANGED <<drop, hosted, lost, work, faults>>
      /\ \A v \in Workers : Hosted(v)' = Hosted(v)
  BY DEF WriteLease, hosted, Hosted
<1>2. row[w].acct \in Accounts /\ row[w].gen \in Nat
  BY <1>1, RowFields DEF Typed
<1>3. CASE NotWon(w)
  <2>1. NextAccount(w) /\ UNCHANGED lease
    BY <1>3 DEF NotWon
  <2>2. Numbered'
    BY <2>1, AdvanceNumbered
  <2>3. /\ pc'  \in [Workers -> Loc]
        /\ add' \in [Workers -> SUBSET Accounts]
        /\ row' \in [Workers -> LeaseRow]
        /\ pc'[w] = "assign"
        /\ \A v \in Workers \ {w} :
             pc'[v] = pc[v] /\ add'[v] = add[v] /\ row'[v] = row[v]
    BY <2>1, AdvanceTyped
  <2>4. RunsInRound'
    BY <1>1, <2>3 DEF Typed, RunsInRound, work
  <2>5. \A v \in Workers : pc'[v] \in {"acquire", "connect"} => row'[v].acct \in add'[v]
    BY <2>3 DEF Typed, TypeOK
  <2>6. TypeOK'
    BY <1>1, <2>1, <2>3, <2>5 DEF Typed, TypeOK, lease, hosted, work
  <2> QED BY <2>2, <2>4, <2>6 DEF Typed
<1>4. ASSUME NEW g \in Nat \ {0}, Won(w, g)
      PROVE  Typed'
  BY <1>1, <1>4, WonTyped
<1>5. CASE ReacquireLease(w) /\ owner[row[w].acct] = w
  <2>1. /\ live' = live \cup {row[w].acct}
        /\ pc' = [pc EXCEPT ![w] = "connect"]
        /\ UNCHANGED <<owner, gen, row, add>>
    BY <1>5 DEF ReacquireLease
  <2>2. row[w].by = w /\ w # Nobody
    BY <1>5, ConstantsAssumption DEF ReacquireLease
  <2>3. Numbered'
    BY <1>1, <2>1, <2>2 DEF Typed, TypeOK, Numbered
  <2>4. TypeOK'
    BY <1>1, <1>2, <2>1 DEF Typed, TypeOK, Loc, hosted, work
  <2>5. RunsInRound'
    BY <1>1, <2>1 DEF Typed, TypeOK, RunsInRound, work
  <2> QED BY <2>3, <2>4, <2>5 DEF Typed
<1>6. row[w].gen + 1 \in Nat \ {0} /\ 1 \in Nat \ {0}
  BY <1>2
<1> QED BY <1>3, <1>4, <1>5, <1>6
        DEF WriteLease, InsertLease, ReacquireLease, StealLease

LEMMA ConnectTyped ==
  ASSUME Typed, NEW w \in Workers, Connect(w)
  PROVE  Typed'
<1>1. PICK a \in Accounts, g \in Nat : a = row[w].acct /\ g = row[w].gen
  BY RowFields DEF Typed, Connect
<1>2. /\ pc[w] = "connect"
      /\ host'    = [host    EXCEPT ![w] = [host[w] EXCEPT ![a] = g]]
      /\ beating' = [beating EXCEPT ![w] = @ \cup {a}]
      /\ UNCHANGED <<lease, drop, lost, work, faults>>
  BY <1>1 DEF Connect, Typed, TypeOK
<1>3. NextAccount(w)
  BY DEF Connect
<1>4. host' \in [Workers -> [Accounts -> Nat]]
  BY <1>2 DEF Typed, TypeOK
<1>5. running[w] = {} /\ g # 0
  BY <1>1, <1>2 DEF Typed, RunsInRound, Numbered
<1>6. Hosted(w)' = Hosted(w) \cup {a}
  BY <1>2, <1>5 DEF Hosted, Typed, TypeOK
<1>7. \A v \in Workers \ {w} : Hosted(v)' = Hosted(v)
  BY <1>2 DEF Hosted, Typed, TypeOK
<1>8. TypeOK'
  BY <1>2, <1>3, <1>4, <1>6, <1>7, AdvanceTyped DEF Typed, TypeOK, lease, work
<1>9. RunsInRound'
  BY <1>2, <1>3, <1>5, AdvanceTyped DEF Typed, RunsInRound, lease, work
<1> QED BY <1>2, <1>3, <1>8, <1>9, AdvanceNumbered DEF Typed

LEMMA ConnectFailsTyped ==
  ASSUME Typed, NEW w \in Workers, ConnectFails(w)
  PROVE  Typed'
<1>1. /\ pc[w] = "connect" /\ NextAccount(w)
      /\ UNCHANGED <<lease, drop, hosted, lost, work, faults>>
  BY DEF ConnectFails
<1>2. TypeOK'
  <2>1. \A v \in Workers : Hosted(v)' = Hosted(v)
    BY <1>1 DEF Hosted, hosted
  <2>2. \A v \in Workers : pc'[v] \in {"acquire", "connect"} => row'[v].acct \in add'[v]
    BY <1>1, AdvanceTyped DEF Typed, TypeOK
  <2> QED BY <1>1, <2>1, <2>2, AdvanceTyped DEF Typed, TypeOK, lease, hosted, work
<1>3. RunsInRound'
  BY <1>1, AdvanceTyped DEF Typed, RunsInRound, hosted, work
<1> QED BY <1>1, <1>2, <1>3, AdvanceNumbered DEF Typed

LEMMA ReconcileTyped ==
  ASSUME Typed, NEW w \in Workers, Reconcile(w)
  PROVE  Typed'
<1> USE DEF Typed, TypeOK, RunsInRound, Numbered, Loc, Goto, lease, tick, hosted, work,
            Hosted
<1>1. CASE PullFails(w)
  BY <1>1 DEF PullFails
<1>2. CASE Pull(w)
  BY <1>2 DEF Pull
<1>3. CASE ReleaseUnassigned(w)
  <2>1. ASSUME NEW a \in drop[w], pc[w] = "release",
               drop' = [drop EXCEPT ![w] = @ \ {a}],
               Release(w, a), UNCHANGED <<pc, add, row>>
        PROVE  Typed'
    <3>1. a \in Accounts
      BY <2>1
    <3> QED BY <2>1, <3>1, ReleaseTyped DEF Release
  <2>2. CASE /\ drop[w] = {}
             /\ Goto(w, "release", "assign")
             /\ UNCHANGED <<lease, drop, add, row, hosted, lost, work, faults>>
    BY <2>2
  <2> QED BY <1>3, <2>1, <2>2 DEF ReleaseUnassigned
<1>4. CASE ReadLease(w)
  BY <1>4, ReadTyped
<1>5. CASE WriteLease(w)
  BY <1>5, WriteTyped
<1>6. CASE Connect(w)
  BY <1>6, ConnectTyped
<1>7. CASE ConnectFails(w)
  BY <1>7, ConnectFailsTyped
<1>8. CASE BeginDrop(w)
  BY <1>8 DEF BeginDrop
<1>9. CASE DropLost(w)
  <2>1. PICK a \in drop[w] : /\ pc[w] = "drop"
                             /\ drop' = [drop EXCEPT ![w] = @ \ {a}]
                             /\ Release(w, a)
                             /\ UNCHANGED <<pc, add, row>>
    BY <1>9 DEF DropLost
  <2>2. a \in Accounts
    BY <2>1
  <2> QED BY <2>1, <2>2, ReleaseTyped DEF Release
<1>10. CASE ClearLost(w)
  BY <1>10 DEF ClearLost
<1> QED
  BY <1>1, <1>2, <1>3, <1>4, <1>5, <1>6, <1>7, <1>8, <1>9, <1>10 DEF Reconcile

LEMMA RoundTyped ==
  ASSUME Typed, NEW w \in Workers, Round(w)
  PROVE  Typed'
<1> USE DEF Typed, TypeOK, RunsInRound, Numbered, Loc, Goto, lease, tick, hosted,
            work, Hosted
<1>1. CASE StopAccount(w)
  <2>1. PICK a \in Accounts : pc[w] = "commands" /\ Release(w, a) /\ UNCHANGED tick
    BY <1>1 DEF StopAccount
  <2> QED BY <2>1, ReleaseTyped DEF Release
<1>2. CASE BeginRound(w)
  <2>1. \A v \in Workers : Hosted(v)' = Hosted(v)
    BY <1>2 DEF BeginRound
  <2>2. /\ running' = [running EXCEPT ![w] = Hosted(w) \ halted[w]]
        /\ pc' = [pc EXCEPT ![w] = "round"] /\ pc[w] = "commands"
        /\ UNCHANGED <<lease, drop, add, row, hosted, lost, busy, halted, faults>>
    BY <1>2 DEF BeginRound
  <2>3. running' \in [Workers -> SUBSET Accounts] /\ busy[w] = {}
    BY <2>2
  <2>4. \A v \in Workers : busy'[v] \subseteq running'[v] /\ running'[v] \subseteq Hosted(v)'
    BY <2>1, <2>2, <2>3
  <2> QED BY <2>1, <2>2, <2>3, <2>4
<1>3. CASE EndTick(w)
  BY <1>3 DEF EndTick, LostAfterRound
<1>4. ASSUME NEW a \in Accounts, ClaimJob(w, a)
      PROVE  Typed'
  BY <1>4 DEF ClaimJob
<1>5. ASSUME NEW a \in Accounts, FinishJob(w, a)
      PROVE  Typed'
  <2>1. /\ a \in busy[w] /\ busy' = [busy EXCEPT ![w] = @ \ {a}]
        /\ UNCHANGED <<lease, tick, hosted, lost, faults>>
        /\ \A v \in Workers : Hosted(v)' = Hosted(v)
    BY <1>5 DEF FinishJob
  <2>2. CASE UNCHANGED <<halted, running>>
    BY <2>1, <2>2
  <2>3. CASE /\ halted'  = [halted  EXCEPT ![w] = @ \cup {a}]
             /\ running' = [running EXCEPT ![w] = @ \ {a}]
    BY <2>1, <2>3
  <2> QED BY <1>5, <2>2, <2>3 DEF FinishJob
<1>6. ASSUME NEW a \in Accounts, EndRunner(w, a)
      PROVE  Typed'
  BY <1>6 DEF EndRunner
<1> QED BY <1>1, <1>2, <1>3, <1>4, <1>5, <1>6 DEF Round

LEMMA BeatTyped ==
  ASSUME Typed, NEW w \in Workers, Beat(w)
  PROVE  Typed'
<1> USE DEF Typed, TypeOK, RunsInRound, Numbered, lease, tick, work, Hosted
<1>1. PICK a \in Accounts : Heartbeat(w, a) \/ HeartbeatFails(w, a)
  BY DEF Beat
<1>2. CASE Heartbeat(w, a)
  <2>1. /\ live' \subseteq Accounts
        /\ UNCHANGED <<owner, gen, tick, host, work, faults>>
        /\ \A v \in Workers : Hosted(v)' = Hosted(v)
    BY <1>2 DEF Heartbeat
  <2>2. CASE UNCHANGED <<beating, lost>>
    BY <2>1, <2>2
  <2>3. CASE LoseHeartbeat(w, a)
    BY <2>1, <2>3 DEF LoseHeartbeat
  <2> QED BY <1>2, <2>2, <2>3 DEF Heartbeat
<1>3. CASE HeartbeatFails(w, a)
  BY <1>3, ConstantsAssumption DEF HeartbeatFails, LoseHeartbeat, Fault
<1> QED BY <1>1, <1>2, <1>3

LEMMA ProcessTyped ==
  ASSUME Typed, NEW w \in Workers, Process(w)
  PROVE  Typed'
<1>0. NoRow \in LeaseRow
  BY DEF NoRow, LeaseRow
<1> USE <1>0 DEF Typed, TypeOK, RunsInRound, Numbered, Loc, lease, hosted, work, Hosted
<1>1. CASE Start(w)
  BY <1>1 DEF Start, Goto
<1>2. CASE Stop(w)
  BY <1>2 DEF Stop, Vanish
<1>3. CASE Crash(w)
  BY <1>3, ConstantsAssumption DEF Crash, Vanish, Fault
<1>4. CASE AbortTick(w)
  BY <1>4, ConstantsAssumption DEF AbortTick, Fault
<1> QED BY <1>1, <1>2, <1>3, <1>4 DEF Process

LEMMA TypedStep == Typed /\ [Next]_vars => Typed'
<1> SUFFICES ASSUME Typed, [Next]_vars PROVE Typed'
  OBVIOUS
<1>1. ASSUME NEW a \in Accounts, Expire(a)
      PROVE  Typed'
  BY <1>1 DEF Expire, Typed, TypeOK, RunsInRound, Numbered, tick, hosted, work, Hosted
<1>2. CASE UNCHANGED vars
  BY <1>2 DEF vars, Typed, TypeOK, RunsInRound, Numbered, lease, tick, hosted, work,
              Hosted
<1> QED BY <1>1, <1>2, ReconcileTyped, RoundTyped, BeatTyped, ProcessTyped DEF Next

(* The lease rows, the ticks and what the hosts keep stay within their      *)
(* types; a heartbeat or a busy or halted runner is a hosted account's.     *)
THEOREM TypeCorrect == Spec => []TypeOK
<1>1. Typed => TypeOK
  BY DEF Typed
<1> QED BY <1>1, InitTyped, TypedStep, PTL DEF Spec

-----------------------------------------------------------------------------
(* The generation fences.                                                  *)

(* Worker w holds generation g of account a: it hosts it, or is about to.   *)
Holds(w, a, g) ==
  /\ g # 0
  /\ \/ host[w][a] = g
     \/ pc[w] = "connect" /\ row[w].acct = a /\ row[w].gen = g

(* A generation that is held is not ahead of the row, and the row's own is  *)
(* held by the row's owner only.                                            *)
HeldBehindRow ==
  \A w \in Workers, a \in Accounts, g \in Nat :
    Holds(w, a, g) => g <= gen[a] /\ (g = gen[a] => owner[a] = w)

HeldByOne ==
  \A v, w \in Workers, a \in Accounts, g \in Nat :
    Holds(v, a, g) /\ Holds(w, a, g) => v = w

(* A row read and not yet acted on is old in one way only: the generation   *)
(* has gone up since.                                                       *)
ReadBehindRow ==
  \A w \in Workers :
    pc[w] = "acquire" =>
      /\ row[w].gen <= gen[row[w].acct]
      /\ row[w].gen = gen[row[w].acct] => row[w].by = owner[row[w].acct]
      /\ row[w].by = w /\ owner[row[w].acct] = w => row[w].gen = gen[row[w].acct]

Fenced == Typed /\ HeldBehindRow /\ HeldByOne /\ ReadBehindRow

(* A step that hands no generation out.                                     *)
Quiet ==
  /\ UNCHANGED <<owner, gen>>
  /\ \A w \in Workers, a \in Accounts, g \in Nat : Holds(w, a, g)' => Holds(w, a, g)
  /\ \A w \in Workers : pc'[w] = "acquire" => pc[w] = "acquire" /\ row'[w] = row[w]

LEMMA InitFenced == Init => Fenced
  BY InitTyped
     DEF Init, Fenced, Holds, HeldBehindRow, HeldByOne, ReadBehindRow

LEMMA QuietFenced ==
  ASSUME Fenced, Typed', Quiet
  PROVE  Fenced'
<1>1. HeldBehindRow'
  BY DEF Fenced, Quiet, HeldBehindRow
<1>2. HeldByOne'
  BY DEF Fenced, Quiet, HeldByOne
<1>3. ReadBehindRow'
  BY DEF Fenced, Quiet, ReadBehindRow
<1> QED BY <1>1, <1>2, <1>3 DEF Fenced

LEMMA KeptIsQuiet ==
  ASSUME Typed, UNCHANGED <<owner, gen>>,
         \A v \in Workers, a \in Accounts : host'[v][a] \in {host[v][a], 0},
         \A v \in Workers : pc'[v] \in {"acquire", "connect"}
                              => pc'[v] = pc[v] /\ row'[v] = row[v]
  PROVE  Quiet
  BY DEF Quiet, Holds

LEMMA ReleaseIsQuiet ==
  ASSUME Typed, NEW w \in Workers, NEW a \in Accounts, Release(w, a),
         UNCHANGED <<pc, row>>
  PROVE  Quiet
<1>1. \A v \in Workers, b \in Accounts : host'[v][b] \in {host[v][b], 0}
  BY DEF Release, Typed, TypeOK
<1> QED BY <1>1, KeptIsQuiet DEF Release, lease

LEMMA ConnectIsQuiet ==
  ASSUME Typed, NEW w \in Workers, Connect(w)
  PROVE  Quiet
<1>1. PICK a \in Accounts, g \in Nat : a = row[w].acct /\ g = row[w].gen
  BY RowFields DEF Typed, Connect
<1>2. /\ pc[w] = "connect"
      /\ host' = [host EXCEPT ![w] = [host[w] EXCEPT ![a] = g]]
      /\ UNCHANGED <<owner, gen>>
  BY <1>1 DEF Connect, Typed, TypeOK, lease
<1>3. /\ pc'[w] = "assign"
      /\ \A v \in Workers \ {w} : pc'[v] = pc[v] /\ row'[v] = row[v]
  BY AdvanceTyped DEF Connect
<1>4. ASSUME NEW v \in Workers, NEW b \in Accounts, NEW h \in Nat, Holds(v, b, h)'
      PROVE  Holds(v, b, h)
  <2>1. CASE v # w
    BY <1>2, <1>3, <1>4, <2>1 DEF Holds, Typed, TypeOK
  <2>2. CASE v = w
    <3>1. h # 0 /\ host'[w][b] = h
      BY <1>3, <1>4, <2>2 DEF Holds
    <3>2. CASE b = a
      BY <1>1, <1>2, <2>2, <3>1, <3>2 DEF Holds, Typed, TypeOK
    <3>3. CASE b # a
      BY <1>2, <2>2, <3>1, <3>3 DEF Holds, Typed, TypeOK
    <3> QED BY <3>2, <3>3
  <2> QED BY <2>1, <2>2
<1> QED BY <1>2, <1>3, <1>4 DEF Quiet

LEMMA ReadFenced ==
  ASSUME Fenced, Typed', NEW w \in Workers, ReadLease(w)
  PROVE  Fenced'
<1>1. PICK a \in add[w] :
        /\ pc[w] = "assign"
        /\ IF Contended(w, a)
             THEN /\ add' = [add EXCEPT ![w] = @ \ {a}]
                  /\ UNCHANGED <<pc, row>>
             ELSE /\ pc'  = [pc  EXCEPT ![w] = "acquire"]
                  /\ row' = [row EXCEPT ![w] = [acct |-> a, by |-> owner[a],
                                                gen |-> gen[a]]]
                  /\ UNCHANGED add
  BY DEF ReadLease
<1>2. a \in Accounts /\ gen[a] \in Nat
  BY DEF Fenced, Typed, TypeOK
<1>3. UNCHANGED <<owner, gen, host>>
  BY DEF ReadLease, lease, hosted
<1>4. CASE UNCHANGED <<pc, row>>
  BY <1>3, <1>4, KeptIsQuiet, QuietFenced DEF Fenced, Typed, TypeOK
<1>5. CASE /\ pc'  = [pc  EXCEPT ![w] = "acquire"]
           /\ row' = [row EXCEPT ![w] = [acct |-> a, by |-> owner[a], gen |-> gen[a]]]
  <2>1. /\ \A v \in Workers \ {w} : pc'[v] = pc[v] /\ row'[v] = row[v]
        /\ pc'[w] = "acquire"
        /\ row'[w] = [acct |-> a, by |-> owner[a], gen |-> gen[a]]
    BY <1>5 DEF Fenced, Typed, TypeOK
  <2>2. \A v \in Workers, b \in Accounts, g \in Nat : Holds(v, b, g)' => Holds(v, b, g)
    BY <1>3, <2>1 DEF Holds
  <2>3. HeldBehindRow' /\ HeldByOne'
    BY <1>3, <2>2 DEF Fenced, HeldBehindRow, HeldByOne
  <2>4. ReadBehindRow'
    BY <1>2, <1>3, <2>1 DEF Fenced, ReadBehindRow
  <2> QED BY <2>3, <2>4 DEF Fenced
<1> QED BY <1>1, <1>4, <1>5

(* What a new generation must be: the row's next, and of a row that is not  *)
(* w's own.                                                                 *)
LEMMA WonFenced ==
  ASSUME Fenced, Typed', NEW w \in Workers, pc[w] = "acquire",
         Won(w, gen[row[w].acct] + 1), UNCHANGED host
  PROVE  Fenced'
<1>1. PICK a \in Accounts : a = row[w].acct
  BY RowFields DEF Fenced, Typed
<1>2. PICK h \in Nat : h = gen[a]
  BY DEF Fenced, Typed, TypeOK
<1>3. /\ owner' = [owner EXCEPT ![a] = w]
      /\ gen'   = [gen   EXCEPT ![a] = h + 1]
      /\ pc'    = [pc    EXCEPT ![w] = "connect"]
      /\ row'   = [row   EXCEPT ![w] = [acct |-> a, by |-> w, gen |-> h + 1]]
  BY <1>1, <1>2 DEF Won
<1>4. /\ owner'[a] = w /\ gen'[a] = h + 1
      /\ \A b \in Accounts \ {a} : owner'[b] = owner[b] /\ gen'[b] = gen[b]
      /\ pc'[w] = "connect" /\ row'[w].acct = a /\ row'[w].gen = h + 1
      /\ \A v \in Workers \ {w} : pc'[v] = pc[v] /\ row'[v] = row[v]
  BY <1>3 DEF Fenced, Typed, TypeOK
<1>5. \A v \in Workers, b \in Accounts, g \in Nat :
        Holds(v, b, g)' => Holds(v, b, g) \/ (v = w /\ b = a /\ g = h + 1)
  BY <1>4 DEF Holds
<1>6. \A v \in Workers, g \in Nat : Holds(v, a, g) => g <= h
  BY <1>2 DEF Fenced, HeldBehindRow
<1>7. HeldBehindRow'
  BY <1>2, <1>4, <1>5, <1>6 DEF Fenced, HeldBehindRow
<1>8. HeldByOne'
  BY <1>5, <1>6 DEF Fenced, HeldByOne
<1>9. ReadBehindRow'
  <2> SUFFICES ASSUME NEW v \in Workers, pc'[v] = "acquire"
               PROVE  /\ row'[v].gen <= gen'[row'[v].acct]
                      /\ row'[v].gen = gen'[row'[v].acct]
                           => row'[v].by = owner'[row'[v].acct]
                      /\ row'[v].by = v /\ owner'[row'[v].acct] = v
                           => row'[v].gen = gen'[row'[v].acct]
    BY DEF ReadBehindRow
  <2>1. v # w /\ pc[v] = "acquire" /\ row'[v] = row[v]
    BY <1>4
  <2>2. row[v].acct \in Accounts /\ row[v].gen \in Nat
    BY <2>1, RowFields DEF Fenced, Typed
  <2>3. CASE row[v].acct # a
    BY <1>4, <2>1, <2>2, <2>3 DEF Fenced, ReadBehindRow
  <2>4. CASE row[v].acct = a
    BY <1>2, <1>4, <2>1, <2>2, <2>4 DEF Fenced, ReadBehindRow
  <2> QED BY <2>3, <2>4
<1> QED BY <1>7, <1>8, <1>9 DEF Fenced

LEMMA ReacquireFenced ==
  ASSUME Fenced, Typed', NEW w \in Workers, pc[w] = "acquire",
         ReacquireLease(w), owner[row[w].acct] = w, UNCHANGED host
  PROVE  Fenced'
<1>1. PICK a \in Accounts : a = row[w].acct
  BY RowFields DEF Fenced, Typed
<1>2. /\ pc' = [pc EXCEPT ![w] = "connect"]
      /\ UNCHANGED <<owner, gen, row>>
      /\ row[w].by = w /\ owner[a] = w
  BY <1>1 DEF ReacquireLease
<1>3. row[w].gen = gen[a]
  BY <1>1, <1>2 DEF Fenced, ReadBehindRow
<1>4. pc'[w] = "connect" /\ \A v \in Workers \ {w} : pc'[v] = pc[v]
  BY <1>2 DEF Fenced, Typed, TypeOK
<1>5. \A v \in Workers, b \in Accounts, g \in Nat :
        Holds(v, b, g)' => Holds(v, b, g) \/ (v = w /\ b = a /\ g = gen[a])
  BY <1>1, <1>2, <1>3, <1>4 DEF Holds
<1>6. HeldBehindRow'
  BY <1>2, <1>5 DEF Fenced, HeldBehindRow
<1>7. HeldByOne'
  BY <1>2, <1>5 DEF Fenced, HeldByOne, HeldBehindRow
<1>8. ReadBehindRow'
  BY <1>2, <1>4 DEF Fenced, ReadBehindRow
<1> QED BY <1>6, <1>7, <1>8 DEF Fenced

LEMMA WriteFenced ==
  ASSUME Fenced, Typed', NEW w \in Workers, WriteLease(w)
  PROVE  Fenced'
<1>1. pc[w] = "acquire" /\ UNCHANGED host
  BY DEF WriteLease, hosted
<1>2. row[w].acct \in Accounts /\ row[w].gen \in Nat
  BY <1>1, RowFields DEF Fenced, Typed
<1>3. CASE NotWon(w)
  <2>1. /\ UNCHANGED <<owner, gen>> /\ pc'[w] = "assign"
        /\ \A v \in Workers \ {w} : pc'[v] = pc[v] /\ row'[v] = row[v]
    BY <1>3, AdvanceTyped DEF Fenced, NotWon, lease
  <2> QED BY <1>1, <2>1, KeptIsQuiet, QuietFenced DEF Fenced
<1>4. CASE InsertLease(w) /\ owner[row[w].acct] = Nobody
  <2>1. gen[row[w].acct] + 1 = 1
    BY <1>2, <1>4 DEF Fenced, Typed, Numbered
  <2> QED BY <1>1, <1>4, <2>1, WonFenced DEF InsertLease
<1>5. CASE ReacquireLease(w) /\ owner[row[w].acct] = w
  BY <1>1, <1>5, ReacquireFenced
<1>6. CASE StealLease(w) /\ Stealable(row[w])
  BY <1>1, <1>6, WonFenced DEF StealLease, Stealable
<1> QED BY <1>3, <1>4, <1>5, <1>6
        DEF WriteLease, InsertLease, ReacquireLease, StealLease

LEMMA ReconcileFenced ==
  ASSUME Fenced, Typed', NEW w \in Workers, Reconcile(w)
  PROVE  Fenced'
<1> USE DEF Fenced, lease, hosted, Goto
<1>1. CASE PullFails(w)
  BY <1>1, KeptIsQuiet, QuietFenced DEF PullFails, Typed, TypeOK
<1>2. CASE Pull(w)
  BY <1>2, KeptIsQuiet, QuietFenced DEF Pull, Typed, TypeOK
<1>3. CASE ReleaseUnassigned(w)
  <2>1. ASSUME NEW a \in drop[w], Release(w, a), UNCHANGED <<pc, add, row>>
        PROVE  Fenced'
    <3>1. a \in Accounts
      BY DEF Typed, TypeOK
    <3> QED BY <2>1, <3>1, ReleaseIsQuiet, QuietFenced
  <2>2. CASE /\ drop[w] = {}
             /\ Goto(w, "release", "assign")
             /\ UNCHANGED <<lease, drop, add, row, hosted, lost, work, faults>>
    BY <2>2, KeptIsQuiet, QuietFenced DEF Typed, TypeOK
  <2> QED BY <1>3, <2>1, <2>2 DEF ReleaseUnassigned
<1>4. CASE ReadLease(w)
  BY <1>4, ReadFenced
<1>5. CASE WriteLease(w)
  BY <1>5, WriteFenced
<1>6. CASE Connect(w)
  BY <1>6, ConnectIsQuiet, QuietFenced
<1>7. CASE ConnectFails(w)
  <2>1. /\ UNCHANGED <<owner, gen, host>> /\ pc'[w] = "assign"
        /\ \A v \in Workers \ {w} : pc'[v] = pc[v] /\ row'[v] = row[v]
    BY <1>7, AdvanceTyped DEF ConnectFails
  <2> QED BY <2>1, KeptIsQuiet, QuietFenced
<1>8. CASE BeginDrop(w)
  BY <1>8, KeptIsQuiet, QuietFenced DEF BeginDrop, Typed, TypeOK
<1>9. CASE DropLost(w)
  <2>1. PICK a \in drop[w] : Release(w, a) /\ UNCHANGED <<pc, add, row>>
    BY <1>9 DEF DropLost
  <2>2. a \in Accounts
    BY DEF Typed, TypeOK
  <2> QED BY <2>1, <2>2, ReleaseIsQuiet, QuietFenced
<1>10. CASE ClearLost(w)
  BY <1>10, KeptIsQuiet, QuietFenced DEF ClearLost, Typed, TypeOK
<1> QED
  BY <1>1, <1>2, <1>3, <1>4, <1>5, <1>6, <1>7, <1>8, <1>9, <1>10 DEF Reconcile

LEMMA RoundFenced ==
  ASSUME Fenced, Typed', NEW w \in Workers, Round(w)
  PROVE  Fenced'
<1>1. CASE StopAccount(w)
  <2>1. PICK a \in Accounts : Release(w, a) /\ UNCHANGED tick
    BY <1>1 DEF StopAccount, Hosted
  <2> QED BY <2>1, ReleaseIsQuiet, QuietFenced DEF Fenced, tick
<1>2. CASE BeginRound(w) \/ EndTick(w)
  BY <1>2, KeptIsQuiet, QuietFenced
     DEF BeginRound, EndTick, Goto, Fenced, Typed, TypeOK, lease, hosted
<1>3. ASSUME NEW a \in Accounts, ClaimJob(w, a) \/ FinishJob(w, a) \/ EndRunner(w, a)
      PROVE  Fenced'
  BY <1>3, KeptIsQuiet, QuietFenced
     DEF ClaimJob, FinishJob, EndRunner, Fenced, lease, hosted, tick
<1> QED BY <1>1, <1>2, <1>3 DEF Round

LEMMA ProcessFenced ==
  ASSUME Fenced, Typed', NEW w \in Workers, Process(w)
  PROVE  Fenced'
<1>1. CASE Start(w) \/ AbortTick(w)
  BY <1>1, KeptIsQuiet, QuietFenced
     DEF Start, AbortTick, Goto, Fenced, Typed, TypeOK, lease, hosted
<1>2. CASE Stop(w) \/ Crash(w)
  <2>1. Vanish(w)
    BY <1>2 DEF Stop, Crash
  <2>2. \A v \in Workers, a \in Accounts : host'[v][a] \in {host[v][a], 0}
    BY <2>1 DEF Vanish, Fenced, Typed, TypeOK
  <2>3. \A v \in Workers : pc'[v] \in {"acquire", "connect"}
                            => pc'[v] = pc[v] /\ row'[v] = row[v]
    BY <2>1 DEF Vanish, Fenced, Typed, TypeOK
  <2> QED BY <2>1, <2>2, <2>3, KeptIsQuiet, QuietFenced DEF Vanish, Fenced, lease
<1> QED BY <1>1, <1>2 DEF Process

LEMMA FencedStep == Fenced /\ [Next]_vars => Fenced'
<1> SUFFICES ASSUME Fenced, [Next]_vars PROVE Fenced'
  OBVIOUS
<1>1. Typed'
  BY TypedStep DEF Fenced
<1>2. ASSUME NEW w \in Workers, Beat(w)
      PROVE  Fenced'
  BY <1>1, <1>2, KeptIsQuiet, QuietFenced
     DEF Beat, Heartbeat, HeartbeatFails, Fenced, lease, tick
<1>3. ASSUME NEW a \in Accounts, Expire(a)
      PROVE  Fenced'
  BY <1>1, <1>3, KeptIsQuiet, QuietFenced DEF Expire, Fenced, tick, hosted
<1>4. CASE UNCHANGED vars
  BY <1>1, <1>4, KeptIsQuiet, QuietFenced DEF vars, Fenced, lease, tick, hosted
<1> QED BY <1>1, <1>2, <1>3, <1>4, ReconcileFenced, RoundFenced, ProcessFenced DEF Next

LEMMA FencedExclusive == Fenced => GenerationIsExclusive /\ HostsBehindRow
<1> SUFFICES ASSUME Fenced PROVE GenerationIsExclusive /\ HostsBehindRow
  OBVIOUS
<1>1. \A w \in Workers : \A a \in Hosted(w) :
        host[w][a] \in Nat /\ Holds(w, a, host[w][a])
  BY DEF Fenced, Typed, TypeOK, Hosted, Holds
<1> QED BY <1>1
        DEF Fenced, HeldByOne, HeldBehindRow, GenerationIsExclusive, HostsBehindRow,
            Hosted

-----------------------------------------------------------------------------
(* What acquire may do to the rows.                                        *)

OwnerKept(a) == owner'[a] = owner[a] /\ gen'[a] = gen[a]
OwnerNext(a) == owner'[a] # owner[a] /\ gen'[a] = gen[a] + 1
                /\ (a \in live => owner[a] = Nobody)

LEMMA WriteMoves ==
  ASSUME Fenced, NEW w \in Workers, WriteLease(w)
  PROVE  \A a \in Accounts : OwnerKept(a) \/ OwnerNext(a)
<1>1. pc[w] = "acquire"
  BY DEF WriteLease
<1>2. PICK a \in Accounts : a = row[w].acct
  BY <1>1, RowFields DEF Fenced, Typed
<1>3. CASE UNCHANGED <<owner, gen>>
  BY <1>3 DEF OwnerKept
<1>4. ASSUME NEW g \in Nat, Won(w, g), g = gen[a] + 1, owner[a] # w,
             a \in live => owner[a] = Nobody
      PROVE  \A b \in Accounts : OwnerKept(b) \/ OwnerNext(b)
  <2>1. owner' = [owner EXCEPT ![a] = w] /\ gen' = [gen EXCEPT ![a] = g]
    BY <1>2, <1>4 DEF Won
  <2> QED BY <1>4, <2>1 DEF OwnerKept, OwnerNext, Fenced, Typed, TypeOK
<1>5. CASE InsertLease(w) /\ owner[a] = Nobody
  <2>1. 1 = gen[a] + 1 /\ owner[a] # w
    BY <1>5, ConstantsAssumption DEF Fenced, Typed, Numbered
  <2> QED BY <1>2, <1>4, <1>5, <2>1 DEF InsertLease
<1>6. CASE StealLease(w) /\ Stealable(row[w])
  <2>1. row[w].gen = gen[a] /\ a \notin live /\ Won(w, row[w].gen + 1)
    BY <1>2, <1>6 DEF StealLease, Stealable
  <2>2. owner[a] # w
    BY <1>1, <1>2, <1>6, <2>1 DEF StealLease, Fenced, ReadBehindRow
  <2>3. gen[a] \in Nat
    BY DEF Fenced, Typed, TypeOK
  <2> QED BY <1>4, <2>1, <2>2, <2>3
<1> QED BY <1>2, <1>3, <1>5, <1>6
        DEF WriteLease, InsertLease, ReacquireLease, StealLease, NotWon, lease

LEMMA RowsMove ==
  ASSUME Fenced, [Next]_vars
  PROVE  \A a \in Accounts : OwnerKept(a) \/ OwnerNext(a)
<1>1. ASSUME UNCHANGED <<owner, gen>>
      PROVE  \A a \in Accounts : OwnerKept(a) \/ OwnerNext(a)
  BY <1>1 DEF OwnerKept
<1>2. ASSUME NEW w \in Workers, Reconcile(w), ~WriteLease(w)
      PROVE  UNCHANGED <<owner, gen>>
  BY <1>2 DEF Reconcile, PullFails, Pull, ReleaseUnassigned, ReadLease, Connect,
              ConnectFails, BeginDrop, DropLost, ClearLost, Release, lease
<1>3. ASSUME NEW w \in Workers, Round(w)
      PROVE  UNCHANGED <<owner, gen>>
  BY <1>3 DEF Round, StopAccount, BeginRound, EndTick, ClaimJob, FinishJob,
              EndRunner, Release, lease
<1>4. ASSUME NEW w \in Workers, Beat(w) \/ Process(w)
      PROVE  UNCHANGED <<owner, gen>>
  BY <1>4 DEF Beat, Heartbeat, HeartbeatFails, Process, Start, Stop, Crash,
              AbortTick, Vanish, lease
<1>5. ASSUME NEW a \in Accounts, Expire(a)
      PROVE  UNCHANGED <<owner, gen>>
  BY <1>5 DEF Expire
<1>6. CASE UNCHANGED vars
  BY <1>1, <1>6 DEF vars, lease
<1> QED BY <1>1, <1>2, <1>3, <1>4, <1>5, <1>6, WriteMoves DEF Next

-----------------------------------------------------------------------------
(* The generation fences: no two workers ever host an account under the     *)
(* same one, so a renewal or a check against it tells them apart.           *)
THEOREM Exclusive == Spec => []GenerationIsExclusive
  BY InitFenced, FencedStep, FencedExclusive, PTL DEF Spec

(* A host's generation never passes the row's, and whoever hosts under the  *)
(* row's own generation is the worker the row names.                        *)
THEOREM BehindRow == Spec => []HostsBehindRow
  BY InitFenced, FencedStep, FencedExclusive, PTL DEF Spec

(* acquire never takes an account from a worker whose lease is still live.  *)
THEOREM LiveKept == Spec => LiveLeaseIsKept
<1>1. Fenced /\ [Next]_vars =>
        [\A a \in live : owner[a] # Nobody => owner'[a] = owner[a]]_vars
  <2>1. Fenced => live \subseteq Accounts
    BY DEF Fenced, Typed, TypeOK
  <2> QED BY <2>1, RowsMove DEF OwnerKept, OwnerNext
<1> QED BY <1>1, InitFenced, FencedStep, PTL DEF Spec, LiveLeaseIsKept

(* Every change of an account's owner raises the generation by one, and     *)
(* nothing else touches it: a generation names one tenure.                  *)
THEOREM TenureCounts == Spec => GenerationCounts
<1>1. Fenced /\ [Next]_vars =>
        [\A a \in Accounts :
           gen'[a] = IF owner'[a] = owner[a] THEN gen[a] ELSE gen[a] + 1]_vars
  BY RowsMove DEF OwnerKept, OwnerNext
<1> QED BY <1>1, InitFenced, FencedStep, PTL DEF Spec, GenerationCounts

=============================================================================
