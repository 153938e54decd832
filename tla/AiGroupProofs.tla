---------------------------- MODULE AiGroupProofs ----------------------------
(***************************************************************************)
(* Theorems about AiGroup, for every set of accounts, bindings and         *)
(* handlers, every memory and chain bound and every length of the          *)
(* conversation.  The group's row is a window on what was taken in: its    *)
(* entries are the last messages of `taken`, in order (Remembers), and the *)
(* own messages at its end pay for the runs that reports have started      *)
(* (Rationed).                                                             *)
(***************************************************************************)
EXTENDS AiGroup, FiniteSetTheorems, TLAPS

(* A report that found the group names a message that is there.            *)
ReportsExist ==
  \A h \in Handlers : handler[h] # Nobody => handler[h].mid \in 1..Len(room)

Typed == TypeOK /\ ReportsExist

-----------------------------------------------------------------------------
(* Who may be chosen.                                                      *)

(* As many runs as one message of others may start.                        *)
Most == IF ReplyMax > Cardinality(Bindings) THEN ReplyMax ELSE Cardinality(Bindings)

LEMMA MostType == Most \in Nat /\ ReplyMax <= Most /\ Cardinality(Bindings) <= Most
<1>1. Cardinality(Bindings) \in Nat
  BY ConstantsAssumption, FS_CardinalityType
<1> QED BY <1>1, ConstantsAssumption DEF Most

LEMMA Chosens ==
  ASSUME TypeOK, NEW m, NEW c \in Chosen(m)
  PROVE  /\ c \subseteq Bindings
         /\ Cardinality(c) \in Nat
         /\ Cardinality(c) <= Most
         /\ IsOurs(m) => Cardinality(c) <= 1
<1>1. c \subseteq Bindings
  BY DEF TypeOK, Chosen, Speakers
<1>2. IsFiniteSet(Bindings) /\ Cardinality(Bindings) \in Nat
  BY ConstantsAssumption, FS_CardinalityType
<1>3. IsFiniteSet(c) /\ Cardinality(c) <= Cardinality(Bindings)
  BY <1>1, <1>2, FS_Subset
<1>4. Cardinality(c) \in Nat
  BY <1>3, FS_CardinalityType
<1>5. IsOurs(m) => Cardinality(c) <= 1
  BY DEF Chosen, Wanted
<1> QED BY <1>1, <1>2, <1>3, <1>4, <1>5, MostType

(* The runs a message starts when it is taken in.                          *)
Starts(h, c) ==
  LET m == room[handler[h].mid] IN
  /\ c \subseteq Bindings
  /\ Cardinality(c) \in Nat /\ Cardinality(c) <= Most
  /\ IsOurs(m) => /\ Cardinality(c) <= 1
                  /\ Cardinality(c) = 0 \/ ChainAllowed(Recorded(h))
  /\ running' = running \cup c
  /\ streak' = (IF IsOurs(m) THEN streak ELSE 0) + Cardinality(c)

LEMMA RecordStarts ==
  ASSUME TypeOK, NEW h \in Handlers, Record(h)
  PROVE  \E c : Starts(h, c)
<1> DEFINE m == room[handler[h].mid]
<1>1. PICK c \in IF IsAnswered(h) THEN Chosen(m) ELSE {{}} :
             /\ running' = running \cup c
             /\ streak' = (IF IsOurs(m) THEN streak ELSE 0) + Cardinality(c)
  BY DEF Record
<1>2. CASE IsAnswered(h)
  <2>1. c \in Chosen(m)
    BY <1>1, <1>2
  <2>2. IsOurs(m) => ChainAllowed(Recorded(h))
    BY <1>2 DEF IsAnswered
  <2> QED BY <1>1, <2>1, <2>2, Chosens DEF Starts
<1>3. CASE ~IsAnswered(h)
  <2>1. c = {}
    BY <1>1, <1>3
  <2>2. Cardinality(c) = 0
    BY <2>1, FS_EmptySet
  <2> QED BY <1>1, <2>1, <2>2, MostType DEF Starts
<1> QED BY <1>2, <1>3

-----------------------------------------------------------------------------
(* Type correctness.                                                       *)

LEMMA TrimmedType ==
  ASSUME NEW seq \in Seq(Entry), NEW e \in Entry, Len(seq) <= CacheSize
  PROVE  /\ Trimmed(Append(seq, e)) \in Seq(Entry)
         /\ Len(Trimmed(Append(seq, e))) <= CacheSize
<1>1. CacheSize \in Nat \ {0} /\ Len(seq) \in Nat
  BY ConstantsAssumption
<1>2. Append(seq, e) \in Seq(Entry) /\ Len(Append(seq, e)) = Len(seq) + 1
  OBVIOUS
<1>3. CASE Len(seq) + 1 > CacheSize
  <2>1. Trimmed(Append(seq, e)) = Tail(Append(seq, e))
    BY <1>2, <1>3 DEF Trimmed
  <2> QED BY <1>1, <1>2, <1>3, <2>1
<1>4. CASE ~(Len(seq) + 1 > CacheSize)
  BY <1>1, <1>2, <1>4 DEF Trimmed
<1> QED BY <1>3, <1>4

LEMMA InitTyped == Init => Typed
  BY ConstantsAssumption DEF Init, Typed, TypeOK, ReportsExist

LEMMA WriteTyped ==
  ASSUME Typed, NEW who \in Accounts \cup Others, NEW called \in SUBSET Accounts,
         Write(who, called)
  PROVE  /\ room' \in Seq(Message) /\ Len(room') <= MaxRoom
         /\ Len(room') = Len(room) + 1
<1>1. [from |-> who, called |-> called] \in Message
  BY DEF Message
<1>2. room \in Seq(Message) /\ Len(room) < MaxRoom /\ Len(room) \in Nat
  BY DEF Typed, TypeOK, Write
<1> QED BY <1>1, <1>2, ConstantsAssumption DEF Write

LEMMA EntryRecorded ==
  ASSUME Typed, NEW h \in Handlers, handler[h] # Nobody
  PROVE  /\ handler[h].mid \in 1..MaxRoom
         /\ [mid |-> handler[h].mid, ours |-> IsOurs(room[handler[h].mid])] \in Entry
<1>1. handler[h] \in [mid : 1..MaxRoom, known : BOOLEAN]
  BY DEF Typed, TypeOK
<1>2. IsOurs(room[handler[h].mid]) \in BOOLEAN
  BY DEF IsOurs
<1> QED BY <1>1, <1>2 DEF Entry

LEMMA HandlerTyped ==
  ASSUME Typed, NEW h \in Handlers, HandlerNext(h)
  PROVE  Typed'
<1> USE DEF Typed, TypeOK, ReportsExist
<1>1. ASSUME NEW i \in 1..MaxRoom, Report(h, i) PROVE Typed'
  <2>1. IsKnown(i) \in BOOLEAN /\ i \in 1..Len(room)
    BY <1>1 DEF IsKnown, Report
  <2> QED BY <1>1, <2>1 DEF Report
<1>2. CASE Dedup(h)
  BY <1>2 DEF Dedup, Close
<1>3. CASE ReportFails(h)
  BY <1>3 DEF ReportFails, Close
<1>4. CASE Record(h)
  <2>0. /\ handler[h] # Nobody /\ UNCHANGED <<room, members, joining>>
        /\ handler' = [handler EXCEPT ![h] = Nobody]
        /\ taken' = Append(taken, handler[h].mid)
        /\ cache' = Trimmed(Recorded(h))
    BY <1>4 DEF Record, Close
  <2>1. PICK c : Starts(h, c)
    BY <1>4, RecordStarts
  <2>3. running' \subseteq Bindings /\ streak' \in Nat
    BY <2>1 DEF Starts
  <2>4. taken' \in Seq(1..MaxRoom)
    BY <2>0, EntryRecorded
  <2>5. cache' \in Seq(Entry) /\ Len(cache') <= CacheSize
    <3> DEFINE e == [mid |-> handler[h].mid, ours |-> IsOurs(room[handler[h].mid])]
    <3>1. e \in Entry
      BY <2>0, EntryRecorded
    <3>2. cache' = Trimmed(Append(cache, e))
      BY <2>0 DEF Recorded
    <3> HIDE DEF e
    <3> QED BY <3>1, <3>2, TrimmedType
  <2> QED BY <2>0, <2>3, <2>4, <2>5
<1> QED BY <1>1, <1>2, <1>3, <1>4 DEF HandlerNext

LEMMA OthersTyped ==
  ASSUME Typed,
         \/ \E who \in Others, called \in Calls : OtherWrites(who, called)
         \/ \E b \in Bindings : MemberNext(b)
         \/ UNCHANGED vars
  PROVE  Typed'
<1> USE DEF Typed, TypeOK, ReportsExist
<1>1. ASSUME NEW who \in Others, NEW called \in Calls, OtherWrites(who, called)
      PROVE  Typed'
  <2>1. called \in SUBSET Accounts
    BY ConstantsAssumption
  <2>2. /\ room' \in Seq(Message) /\ Len(room') <= MaxRoom
        /\ Len(room') = Len(room) + 1
    BY <1>1, <2>1, WriteTyped DEF OtherWrites
  <2> QED BY <1>1, <2>2 DEF OtherWrites
<1>2. ASSUME NEW b \in Bindings, RunAnswers(b) PROVE Typed'
  <2>1. Account[b] \in Accounts
    BY ConstantsAssumption
  <2>2. /\ room' \in Seq(Message) /\ Len(room') <= MaxRoom
        /\ Len(room') = Len(room) + 1
    BY <1>2, <2>1, WriteTyped DEF RunAnswers
  <2> QED BY <1>2, <2>2 DEF RunAnswers
<1>3. ASSUME NEW b \in Bindings, MemberNext(b), ~RunAnswers(b) PROVE Typed'
  BY <1>3 DEF MemberNext, RunEnds, Unasked, AddMember, Joined, JoinFails,
              DeleteMember
<1>4. CASE UNCHANGED vars
  BY <1>4 DEF vars
<1> QED BY <1>1, <1>2, <1>3, <1>4

LEMMA TypedStep == Typed /\ [Next]_vars => Typed'
  BY HandlerTyped, OthersTyped DEF Next

-----------------------------------------------------------------------------
(* The memory.                                                             *)

(* The row holds the last messages taken in: all of them until it is full. *)
Remembers ==
  /\ Len(cache) = CacheSize \/ Len(cache) = Len(taken)
  /\ Len(cache) <= Len(taken)
  /\ \A k \in 1..Len(cache) : cache[k].mid = taken[Len(taken) - Len(cache) + k]

(* Taking a message in moves the window on by one.                         *)
LEMMA WindowMoves ==
  ASSUME Typed, Remembers, NEW h \in Handlers, Record(h)
  PROVE  Remembers'
<1> DEFINE e == [mid |-> handler[h].mid, ours |-> IsOurs(room[handler[h].mid])]
           L == Len(cache)
           T == Len(taken)
<1>1. /\ e \in Entry /\ e.mid = handler[h].mid
      /\ taken' = Append(taken, handler[h].mid)
      /\ cache' = Trimmed(Append(cache, e))
  BY EntryRecorded DEF Record, Recorded
<1>2. /\ cache \in Seq(Entry) /\ taken \in Seq(1..MaxRoom)
      /\ L \in Nat /\ T \in Nat /\ L <= CacheSize /\ CacheSize \in Nat \ {0}
      /\ handler[h].mid \in 1..MaxRoom
  BY EntryRecorded, ConstantsAssumption DEF Typed, TypeOK, Record
<1>3. /\ Len(taken') = T + 1 /\ taken'[T + 1] = e.mid
      /\ \A k \in 1..T : taken'[k] = taken[k]
  BY <1>1, <1>2
<1> HIDE DEF e
<1>4. /\ Len(Append(cache, e)) = L + 1 /\ Append(cache, e)[L + 1] = e
      /\ \A k \in 1..L : Append(cache, e)[k] = cache[k]
  BY <1>1, <1>2
<1>5. CASE L + 1 > CacheSize
  <2>1. cache' = Tail(Append(cache, e)) /\ L = CacheSize
    BY <1>1, <1>2, <1>4, <1>5 DEF Trimmed
  <2>2. /\ Len(cache') = L
        /\ \A k \in 1..L : cache'[k] = Append(cache, e)[k + 1]
    BY <1>1, <1>2, <1>4, <2>1
  <2>3. ASSUME NEW k \in 1..L
        PROVE  cache'[k].mid = taken'[T + 1 - L + k]
    <3>1. CASE k = L
      BY <1>2, <1>3, <1>4, <2>2, <3>1
    <3>2. CASE k # L
      <4>1. k + 1 \in 1..L /\ cache'[k] = cache[k + 1]
        BY <1>2, <1>4, <2>2, <3>2
      <4>2. cache[k + 1].mid = taken[T - L + (k + 1)]
        BY <4>1 DEF Remembers
      <4>3. T - L + (k + 1) \in 1..T /\ T - L + (k + 1) = T + 1 - L + k
        BY <1>2, <4>1 DEF Remembers
      <4> QED BY <1>3, <4>1, <4>2, <4>3
    <3> QED BY <3>1, <3>2
  <2>4. \A k \in 1..L : cache'[k].mid = taken'[T + 1 - L + k]
    BY <2>3
  <2>5. /\ Len(taken') = T + 1 /\ Len(cache') = L
        /\ L = CacheSize /\ L <= T + 1 /\ L \in Nat /\ T \in Nat
    BY <1>2, <1>3, <2>1, <2>2 DEF Remembers
  <2> HIDE DEF L, T
  <2> QED BY <2>4, <2>5 DEF Remembers
<1>6. CASE ~(L + 1 > CacheSize)
  <2>1. cache' = Append(cache, e) /\ L = T
    BY <1>1, <1>2, <1>4, <1>6 DEF Trimmed, Remembers
  <2>2. ASSUME NEW k \in 1..(L + 1)
        PROVE  cache'[k].mid = taken'[k]
    <3>1. CASE k = L + 1
      BY <1>3, <1>4, <2>1, <3>1
    <3>2. CASE k # L + 1
      <4>1. k \in 1..L
        BY <1>2, <3>2
      <4>2. cache[k].mid = taken[T - L + k] /\ T - L + k = k
        BY <1>2, <2>1, <4>1 DEF Remembers
      <4> QED BY <1>3, <1>4, <2>1, <4>1, <4>2
    <3> QED BY <3>1, <3>2
  <2> QED BY <1>2, <1>3, <1>4, <2>1, <2>2 DEF Remembers
<1> QED BY <1>5, <1>6

(* What the row does not remember was not among the last CacheSize.        *)
LEMMA OnceMore ==
  ASSUME Typed, Remembers, TakenOnce, NEW h \in Handlers, Record(h)
  PROVE  TakenOnce'
<1> DEFINE x == handler[h].mid
           T == Len(taken)
<1>1. /\ taken \in Seq(1..MaxRoom) /\ T \in Nat /\ Len(cache) \in Nat
      /\ x \in 1..MaxRoom /\ CacheSize \in Nat
  BY EntryRecorded, ConstantsAssumption DEF Typed, TypeOK, Record
<1>2. taken' = Append(taken, x)
  BY DEF Record
<1>3. /\ Len(taken') = T + 1 /\ taken'[T + 1] = x /\ DOMAIN taken' = 1..(T + 1)
      /\ DOMAIN taken = 1..T /\ \A k \in 1..T : taken'[k] = taken[k]
  BY <1>1, <1>2
<1>4. \A k \in 1..Len(cache) : cache[k].mid # x
  BY DEF Record, IsRepeated, IsKnown, Typed, TypeOK
<1> HIDE DEF x
<1>5. ASSUME NEW i \in 1..T, taken[i] = x
      PROVE  T + 1 - i > CacheSize
  <2>1. CASE i <= T - Len(cache)
    BY <1>1, <2>1 DEF Remembers
  <2>2. CASE ~(i <= T - Len(cache))
    <3> DEFINE k == i - (T - Len(cache))
    <3>1. k \in 1..Len(cache) /\ T - Len(cache) + k = i
      BY <1>1, <2>2
    <3>2. cache[k].mid = taken[T - Len(cache) + k]
      BY <3>1 DEF Remembers
    <3> QED BY <1>4, <1>5, <3>1, <3>2
  <2> QED BY <2>1, <2>2
<1> SUFFICES ASSUME NEW i \in 1..(T + 1), NEW j \in 1..(T + 1),
                    i < j, taken'[i] = taken'[j]
             PROVE  j - i > CacheSize
  BY <1>3 DEF TakenOnce
<1>6. i \in 1..T
  BY <1>1
<1>7. CASE j = T + 1
  BY <1>3, <1>5, <1>6, <1>7
<1>8. CASE j # T + 1
  BY <1>1, <1>3, <1>6, <1>8 DEF TakenOnce
<1> QED BY <1>7, <1>8

-----------------------------------------------------------------------------
(* The chain of own messages.                                              *)

(* n is the last entry of seq that others wrote, 0 if there is none.       *)
LastOther(seq, n) ==
  /\ n \in 0..Len(seq)
  /\ n = 0 \/ ~seq[n].ours
  /\ \A k \in (n + 1)..Len(seq) : seq[k].ours

LEMMA ChainFromLastOther ==
  ASSUME NEW seq \in Seq(Entry), NEW n, LastOther(seq, n)
  PROVE  Chain(seq) = Len(seq) - n
<1> DEFINE before == {0} \cup {k \in DOMAIN seq : ~seq[k].ours}
<1>1. DOMAIN seq = 1..Len(seq) /\ Len(seq) \in Nat /\ n \in Nat
  BY DEF LastOther
<1>2. before \subseteq Nat /\ n \in before
  BY <1>1 DEF LastOther
<1>3. \A k \in before : n >= k
  BY <1>1, <1>2 DEF LastOther
<1>4. Max(before) \in before /\ \A k \in before : Max(before) >= k
  BY <1>2, <1>3, Zenon DEF Max
<1>5. Max(before) = n
  BY <1>2, <1>3, <1>4
<1> QED BY <1>5 DEF Chain

LEMMA AppendLastOther ==
  ASSUME NEW seq \in Seq(Entry), NEW n, LastOther(seq, n), NEW e \in Entry
  PROVE  LastOther(Append(seq, e), IF e.ours THEN n ELSE Len(seq) + 1)
<1>1. /\ Len(Append(seq, e)) = Len(seq) + 1 /\ Append(seq, e)[Len(seq) + 1] = e
      /\ \A k \in 1..Len(seq) : Append(seq, e)[k] = seq[k]
      /\ Len(seq) \in Nat
  OBVIOUS
<1>2. CASE e.ours
  BY <1>1, <1>2 DEF LastOther
<1>3. CASE ~e.ours
  BY <1>1, <1>3 DEF LastOther
<1> QED BY <1>2, <1>3

LEMMA TailLastOther ==
  ASSUME NEW seq \in Seq(Entry), seq # <<>>, NEW n, LastOther(seq, n)
  PROVE  LastOther(Tail(seq), IF n = 0 THEN 0 ELSE n - 1)
<1>1. /\ Len(Tail(seq)) = Len(seq) - 1 /\ Len(seq) \in Nat \ {0}
      /\ \A k \in 1..(Len(seq) - 1) : Tail(seq)[k] = seq[k + 1]
  OBVIOUS
<1> QED BY <1>1 DEF LastOther

(* The runs started since others last wrote are paid for: those their      *)
(* message started, and one for each own message since, up to ChainMax.    *)
Rationed ==
  \E n \in Nat : /\ LastOther(cache, n)
                 /\ streak <= Most + ChainMax
                 /\ streak <= Most + (Len(cache) - n)

LEMMA RationHolds ==
  ASSUME Typed, Rationed, NEW h \in Handlers, Record(h)
  PROVE  Rationed'
<1> DEFINE m == room[handler[h].mid]
           e == [mid |-> handler[h].mid, ours |-> IsOurs(m)]
           L == Len(cache)
           more == Append(cache, e)
<1>1. e \in Entry /\ e.ours = IsOurs(m) /\ cache' = Trimmed(more) /\ Recorded(h) = more
  BY EntryRecorded DEF Record, Recorded
<1>2. PICK c : Starts(h, c)
  BY RecordStarts DEF Typed
<1>3. PICK n \in Nat : /\ LastOther(cache, n)
                       /\ streak <= Most + ChainMax
                       /\ streak <= Most + (L - n)
  BY DEF Rationed
<1> DEFINE count == Cardinality(c)
           p == IF e.ours THEN n ELSE L + 1
<1>4. /\ cache \in Seq(Entry) /\ L \in Nat /\ L <= CacheSize /\ streak \in Nat
      /\ CacheSize \in Nat \ {0} /\ ChainMax \in Nat /\ ChainMax <= CacheSize
      /\ Most \in Nat /\ n \in 0..L
  BY <1>3, MostType, ConstantsAssumption DEF Typed, TypeOK, LastOther
<1>5. /\ count \in Nat /\ count <= Most
      /\ e.ours => count <= 1 /\ (count = 0 \/ ChainAllowed(more))
      /\ streak' = (IF e.ours THEN streak ELSE 0) + count
  BY <1>1, <1>2 DEF Starts
<1> HIDE DEF count, m, e
<1>6. /\ more \in Seq(Entry) /\ Len(more) = L + 1 /\ LastOther(more, p)
  BY <1>1, <1>3, <1>4, AppendLastOther
<1> HIDE DEF more
<1>7. ASSUME e.ours, count # 0
      PROVE  L + 1 - n <= ChainMax
  <2>1. Chain(more) = L + 1 - p
    <3>0. p \in Nat /\ L \in Nat
      BY <1>4
    <3> HIDE DEF p
    <3>1. Chain(more) = Len(more) - p
      BY <1>6, ChainFromLastOther
    <3>2. Len(more) = L + 1
      BY <1>6
    <3> QED BY <3>0, <3>1, <3>2
  <2>2. Chain(more) <= ChainMax
    BY <1>5, <1>7 DEF ChainAllowed
  <2> QED BY <1>7, <2>1, <2>2
<1>8. /\ streak' <= Most + ChainMax
      /\ streak' <= Most + (L + 1 - p)
  <2>1. CASE e.ours /\ count # 0
    BY <1>3, <1>4, <1>5, <1>7, <2>1
  <2>2. CASE e.ours /\ count = 0
    BY <1>3, <1>4, <1>5, <2>2
  <2>3. CASE ~e.ours
    BY <1>4, <1>5, <2>3
  <2> QED BY <2>1, <2>2, <2>3
<1>9. CASE L + 1 > CacheSize
  <2> DEFINE q == IF p = 0 THEN 0 ELSE p - 1
  <2>1. cache' = Tail(more) /\ L = CacheSize /\ Len(cache') = L
    BY <1>1, <1>4, <1>6, <1>9 DEF Trimmed
  <2>2. p \in Nat /\ q \in Nat
    BY <1>4
  <2>3. more # <<>>
    BY <1>4, <1>6
  <2> HIDE DEF p
  <2>4. LastOther(cache', q)
    BY <1>6, <2>1, <2>3, TailLastOther
  <2>5. streak' \in Nat
    BY <1>4, <1>5
  <2>6. streak' <= Most + (L - q)
    BY <1>4, <1>8, <2>1, <2>2, <2>5
  <2> HIDE DEF q
  <2> QED BY <1>8, <2>1, <2>2, <2>4, <2>6 DEF Rationed
<1>10. CASE ~(L + 1 > CacheSize)
  <2>1. cache' = more
    BY <1>1, <1>6, <1>10 DEF Trimmed
  <2>2. p \in Nat
    BY <1>4
  <2> HIDE DEF p
  <2> QED BY <1>6, <1>8, <2>1, <2>2 DEF Rationed
<1> QED BY <1>9, <1>10

-----------------------------------------------------------------------------
(* The theorems.                                                           *)

Inv == Typed /\ Remembers /\ TakenOnce /\ Rationed

LEMMA InitInv == Init => Inv
<1> SUFFICES ASSUME Init PROVE Inv
  OBVIOUS
<1>1. cache = <<>> /\ taken = <<>> /\ streak = 0
  BY DEF Init
<1>2. Len(cache) = 0 /\ Len(taken) = 0 /\ 1..Len(cache) = {} /\ DOMAIN taken = {}
  BY <1>1
<1>3. Remembers /\ TakenOnce
  BY <1>2 DEF Remembers, TakenOnce
<1>4. LastOther(cache, 0)
  BY <1>2 DEF LastOther
<1>5. Most + ChainMax >= 0 /\ Most + (Len(cache) - 0) >= 0
  BY <1>2, MostType, ConstantsAssumption
<1>6. Rationed
  BY <1>1, <1>4, <1>5 DEF Rationed
<1> QED BY <1>3, <1>6, InitTyped DEF Inv

(* The memory, what was taken in and the streak move in Record alone.      *)
LEMMA OnlyRecordCounts ==
  ASSUME [Next]_vars, \A h \in Handlers : ~Record(h)
  PROVE  UNCHANGED <<cache, taken, streak>>
<1>1. ASSUME NEW who \in Others, NEW called \in Calls, OtherWrites(who, called)
      PROVE  UNCHANGED <<cache, taken, streak>>
  BY <1>1 DEF OtherWrites
<1>2. ASSUME NEW h \in Handlers, HandlerNext(h)
      PROVE  UNCHANGED <<cache, taken, streak>>
  BY <1>2 DEF HandlerNext, Report, Dedup, ReportFails
<1>3. ASSUME NEW b \in Bindings, MemberNext(b)
      PROVE  UNCHANGED <<cache, taken, streak>>
  BY <1>3 DEF MemberNext, RunAnswers, RunEnds, Unasked, AddMember, Joined,
              JoinFails, DeleteMember
<1>4. CASE UNCHANGED vars
  BY <1>4 DEF vars
<1> QED BY <1>1, <1>2, <1>3, <1>4 DEF Next

LEMMA InvStep == Inv /\ [Next]_vars => Inv'
<1> SUFFICES ASSUME Inv, [Next]_vars PROVE Inv'
  OBVIOUS
<1>1. Typed'
  BY TypedStep DEF Inv
<1>2. ASSUME NEW h \in Handlers, Record(h)
      PROVE  Remembers' /\ TakenOnce' /\ Rationed'
  BY <1>2, WindowMoves, OnceMore, RationHolds DEF Inv
<1>3. CASE \A h \in Handlers : ~Record(h)
  <2>1. cache' = cache /\ taken' = taken /\ streak' = streak
    BY <1>3, OnlyRecordCounts
  <2>2. Remembers' /\ TakenOnce'
    BY <2>1 DEF Inv, Remembers, TakenOnce
  <2>3. Rationed'
    BY <2>1 DEF Inv, Rationed, LastOther
  <2> QED BY <1>1, <2>2, <2>3 DEF Inv
<1> QED BY <1>1, <1>2, <1>3 DEF Inv

(* The group's row holds at most CacheSize messages, a run is one of a     *)
(* member's, and a report names a message of the group.                    *)
THEOREM TypeCorrect == Spec => []TypeOK
<1>1. Typed => TypeOK
  BY DEF Typed
<1> QED BY <1>1, InitTyped, TypedStep, PTL DEF Spec

(* Whatever number of accounts reports a message, side by side, late or    *)
(* again, _record_group_message takes it in once, and a second time only   *)
(* after more than CacheSize others: the reload under the lock reads every *)
(* message the row still remembers.                                        *)
THEOREM DecidedOnce == Spec => []TakenOnce
<1>1. Inv => TakenOnce
  BY DEF Inv
<1> QED BY <1>1, InitInv, InvStep, PTL DEF Spec

(* The members of a group do not keep each other talking: one message of   *)
(* others starts as many runs as it names members or ReplyMax, and own     *)
(* messages start one each until _chain_allowed counts ChainMax of them,   *)
(* however reports, runs and lines of a script are mixed.                  *)
THEOREM TalkIsBounded == Spec => []TalkDiesDown
<1>1. Rationed => TalkDiesDown
  BY DEF Rationed, TalkDiesDown, Most
<1>2. Inv => TalkDiesDown
  BY <1>1 DEF Inv
<1> QED BY <1>2, InitInv, InvStep, PTL DEF Spec
=============================================================================
