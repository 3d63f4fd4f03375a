--------------------------- MODULE NetworkProofs ---------------------------
(***************************************************************************)
(* Theorems about Network, for every set of devices, addresses and threads *)
(* and every value of the limits.                                          *)
(***************************************************************************)
EXTENDS Network, FiniteSetTheorems, TLAPS

Counting == {a \in Addr : guard[a] # None}

FreshOnes == {a \in Addr : Fresh(a)}

\* Who the threads work for: a handshake that is to be registered proved a key,
\* the one that was asked for if one was.
ThreadsOK ==
    \A t \in Thread : thread[t].pc = "register" =>
        thread[t].peer \in Device /\ thread[t].expect \in {None, thread[t].peer}

\* An entry of ConnGuard while its window lasts.
Counts(e) == e # None /\ e.age < MINUTE

Growing(f) ==
    f[0] = 0 /\ \A i, j \in 0 .. MINUTE : i <= j => f[i] <= f[j]

\* f counts, over the last so many ticks, the handshakes of a source let in:
\* those of the window were counted in its entry, the first of them began it,
\* and what the window before can add lacks the first one of that window.
InWindow(f, e) ==
    /\ f[e.age] < f[e.age + 1]
    /\ f[e.age + 1] <= e.count /\ f[e.age + 1] <= HANDSHAKES_PER_MINUTE
    /\ f[MINUTE] < f[e.age + 1] + HANDSHAKES_PER_MINUTE

\* Out of a window, none in this tick, and the first one is a MINUTE ago.
Quiet(f) == f[1] = 0 /\ f[MINUTE] < HANDSHAKES_PER_MINUTE

Rate(f, e) == Growing(f) /\ IF Counts(e) THEN InWindow(f, e) ELSE Quiet(f)

WindowsOK == \A a \in Addr : Rate(recent[a], guard[a])

IInv ==
    /\ TypeOK /\ ThreadsOK /\ WindowsOK
    /\ ConnectionsBounded /\ AskedForIsReached /\ TablesBounded

-----------------------------------------------------------------------------
(* Lemmas about the tables *)

\* A finite set that gains at most one member grows by at most one.
LEMMA OneMore ==
  ASSUME NEW S, IsFiniteSet(S), NEW T, NEW x, T \subseteq S \cup {x}
  PROVE  /\ IsFiniteSet(T)
         /\ Cardinality(T) \in Nat /\ Cardinality(S) \in Nat
         /\ Cardinality(T) <= Cardinality(S) + 1
         /\ x \in S \/ x \notin T => Cardinality(T) <= Cardinality(S)
<1>1. IsFiniteSet(S \cup {x}) /\ Cardinality(S \cup {x}) <= Cardinality(S) + 1
  <2>1. /\ IsFiniteSet(S \cup {x})
        /\ Cardinality(S \cup {x}) = IF x \in S THEN Cardinality(S) ELSE Cardinality(S) + 1
    BY FS_AddElement
  <2> QED
    BY <2>1, FS_CardinalityType
<1>2. IsFiniteSet(T) /\ Cardinality(T) <= Cardinality(S \cup {x})
  BY <1>1, FS_Subset
<1>3. ASSUME x \in S \/ x \notin T
      PROVE  Cardinality(T) <= Cardinality(S)
  <2>1. T \subseteq S
    BY <1>3
  <2> QED
    BY <2>1, FS_Subset
<1> QED
  BY <1>1, <1>2, <1>3, FS_CardinalityType

LEMMA TablesFinite ==
  /\ IsFiniteSet(Connected) /\ Cardinality(Connected) \in Nat
  /\ IsFiniteSet(Listed) /\ Cardinality(Listed) \in Nat
  /\ IsFiniteSet(Counting) /\ Cardinality(Counting) \in Nat
  /\ IsFiniteSet(FreshOnes) /\ Cardinality(FreshOnes) \in Nat
<1>1. Connected \subseteq Device /\ Listed \subseteq Device
  BY DEF Connected, Listed
<1>2. Counting \subseteq Addr /\ FreshOnes \subseteq Addr
  BY DEF Counting, FreshOnes
<1> QED
  BY <1>1, <1>2, FS_Subset, FS_CardinalityType, ConstantsAssumption

\* What ConnGuard counts for a source is an entry, and begins a window only for
\* a source that had none.
LEMMA CountedType ==
  ASSUME TypeOK, NEW a \in Addr
  PROVE  /\ Counted(a) \in Seen
         /\ Fresh(a) => /\ guard[a] \in Seen /\ Counted(a).age = guard[a].age
                        /\ Counted(a).count >= guard[a].count
                        /\ Counted(a).count <= HANDSHAKES_PER_MINUTE
                             => Counted(a).count = guard[a].count + 1
         /\ ~Fresh(a) => Counted(a).age = 0 /\ Counted(a).count = 1
<1> USE ConstantsAssumption
<1>1. CASE Fresh(a)
  <2>1. guard[a] \in Seen
    BY <1>1 DEF Fresh, TypeOK
  <2>2. /\ Capped(guard[a].count + 1) \in 1 .. HANDSHAKES_PER_MINUTE + 1
        /\ Capped(guard[a].count + 1) >= guard[a].count
        /\ Capped(guard[a].count + 1) <= HANDSHAKES_PER_MINUTE
             => Capped(guard[a].count + 1) = guard[a].count + 1
    BY <2>1 DEF Capped, Seen
  <2>3. Counted(a) = [guard[a] EXCEPT !.count = Capped(guard[a].count + 1)]
    BY <1>1 DEF Counted
  <2> QED
    BY <1>1, <2>1, <2>2, <2>3 DEF Seen
<1>2. CASE ~Fresh(a)
  BY <1>2 DEF Counted, Seen
<1> QED
  BY <1>1, <1>2

LEMMA RetainedType ==
  ASSUME TypeOK
  PROVE  /\ Retained \in [Addr -> Seen \cup {None}]
         /\ {a \in Addr : Retained[a] # None} = FreshOnes
         /\ FreshOnes \subseteq Counting
BY DEF Retained, TypeOK, Fresh, FreshOnes, Counting

\* An entry that is dropped did not count any more.
LEMMA RetainedRate ==
  ASSUME NEW a \in Addr, NEW f, Rate(f, guard[a])
  PROVE  Rate(f, Retained[a])
BY DEF Rate, Retained, Counts, Fresh

LEMMA AllowedThenLetIn ==
  ASSUME TypeOK, NEW a \in Addr, SourceRoom, ~Fresh(a)
  PROVE  Allowed(a)
<1>1. Counted(a).count = 1
  BY CountedType
<1> QED
  BY <1>1, ConstantsAssumption DEF Allowed

-----------------------------------------------------------------------------
(* Lemmas about a window and what is let in during it *)

Tally == [0 .. MINUTE -> Nat]

OneMoreIn(f) == [i \in 0 .. MINUTE |-> IF i = 0 THEN 0 ELSE f[i] + 1]

ATickLater(f) == [i \in 0 .. MINUTE |-> IF i = 0 THEN 0 ELSE f[i - 1]]

LEMMA TallyType ==
  ASSUME NEW f \in Tally
  PROVE  OneMoreIn(f) \in Tally /\ ATickLater(f) \in Tally
<1>1. ASSUME NEW i \in 0 .. MINUTE PROVE i # 0 => i - 1 \in 0 .. MINUTE
  BY ConstantsAssumption
<1> QED
  BY <1>1 DEF Tally, OneMoreIn, ATickLater

\* Another handshake is counted and, the count being in the limit, let in.
LEMMA LetInRate ==
  ASSUME NEW f \in Tally, NEW e \in Seen, NEW c \in Seen, Rate(f, e), Counts(e),
         c.age = e.age, c.count = e.count + 1, c.count <= HANDSHAKES_PER_MINUTE
  PROVE  Rate(OneMoreIn(f), c)
<1> USE ConstantsAssumption
<1>1. e.age \in 0 .. MINUTE /\ e.age + 1 \in 1 .. MINUTE /\ e.count \in Nat /\ c.count \in Nat
  BY DEF Seen, Counts
<1>2. \A i \in 0 .. MINUTE : /\ f[i] \in Nat
                             /\ OneMoreIn(f)[i] = IF i = 0 THEN 0 ELSE f[i] + 1
  BY DEF Tally, OneMoreIn
<1>3. Growing(OneMoreIn(f))
  BY <1>2 DEF Rate, Growing
<1>4. InWindow(OneMoreIn(f), c)
  <2>1. InWindow(f, e)
    BY DEF Rate
  <2>2. OneMoreIn(f)[c.age + 1] = f[e.age + 1] + 1 /\ OneMoreIn(f)[MINUTE] = f[MINUTE] + 1
    BY <1>1, <1>2
  <2>3. OneMoreIn(f)[c.age] <= f[e.age] + 1 /\ OneMoreIn(f)[c.age] \in Nat
    BY <1>1, <1>2
  <2>4. f[e.age] \in Nat /\ f[e.age + 1] \in Nat /\ f[MINUTE] \in Nat
    BY <1>1, <1>2
  <2>5. OneMoreIn(f)[c.age] < OneMoreIn(f)[c.age + 1]
    BY <2>1, <2>2, <2>3, <2>4 DEF InWindow
  <2>6. OneMoreIn(f)[c.age + 1] <= c.count /\ OneMoreIn(f)[c.age + 1] <= HANDSHAKES_PER_MINUTE
    BY <1>1, <2>1, <2>2, <2>4 DEF InWindow
  <2>7. OneMoreIn(f)[MINUTE] < OneMoreIn(f)[c.age + 1] + HANDSHAKES_PER_MINUTE
    BY <2>1, <2>2, <2>4 DEF InWindow
  <2> QED
    BY <2>5, <2>6, <2>7 DEF InWindow
<1>5. Counts(c)
  BY NoneAssumption DEF Counts
<1> QED
  BY <1>3, <1>4, <1>5 DEF Rate

\* The first handshake of a window.
LEMMA WindowBegins ==
  ASSUME NEW f \in Tally, Growing(f), Quiet(f), NEW c \in Seen, c.age = 0, c.count = 1
  PROVE  Rate(OneMoreIn(f), c)
<1> USE ConstantsAssumption
<1>1. \A i \in 0 .. MINUTE : /\ f[i] \in Nat
                             /\ OneMoreIn(f)[i] = IF i = 0 THEN 0 ELSE f[i] + 1
  BY DEF Tally, OneMoreIn
<1>2. Growing(OneMoreIn(f))
  BY <1>1 DEF Growing
<1>3. OneMoreIn(f)[0] = 0 /\ OneMoreIn(f)[1] = 1 /\ OneMoreIn(f)[MINUTE] = f[MINUTE] + 1 /\ f[MINUTE] \in Nat
  BY <1>1 DEF Quiet
<1>4. InWindow(OneMoreIn(f), c) /\ Counts(c)
  BY <1>3, NoneAssumption DEF Quiet, InWindow, Counts
<1> QED
  BY <1>2, <1>4 DEF Rate

\* A handshake is counted and refused.
LEMMA RefusedRate ==
  ASSUME NEW f \in Tally, NEW e \in Seen, NEW c \in Seen, Rate(f, e), Counts(e),
         c.age = e.age, c.count >= e.count
  PROVE  Rate(f, c)
<1>1. e.age + 1 \in 0 .. MINUTE /\ e.count \in Nat /\ c.count \in Nat /\ f[e.age + 1] \in Nat
  BY ConstantsAssumption DEF Seen, Counts, Tally
<1>2. InWindow(f, c)
  BY <1>1 DEF Rate, InWindow
<1>3. Counts(c)
  BY NoneAssumption DEF Counts
<1> QED
  BY <1>2, <1>3 DEF Rate

\* The window ages with what was let in, and ends with the tick that takes
\* its first handshake out of the last MINUTE.
LEMMA TickRate ==
  ASSUME NEW f \in Tally, NEW e \in Seen \cup {None}, NEW c \in Seen \cup {None}, Rate(f, e),
         e = None <=> c = None,
         e # None => c.count = e.count /\ c.age = IF e.age < MINUTE THEN e.age + 1 ELSE e.age
  PROVE  Rate(ATickLater(f), c)
<1> USE ConstantsAssumption
<1>1. /\ ATickLater(f)[0] = 0
      /\ \A i \in 1 .. MINUTE : i - 1 \in 0 .. MINUTE /\ ATickLater(f)[i] = f[i - 1]
  BY DEF ATickLater
<1>2. \A i \in 0 .. MINUTE : f[i] \in Nat
  BY DEF Tally
<1>3. Growing(ATickLater(f))
  <2> SUFFICES ASSUME NEW i \in 0 .. MINUTE, NEW j \in 0 .. MINUTE, i <= j
               PROVE  ATickLater(f)[i] <= ATickLater(f)[j]
    BY <1>1 DEF Growing
  <2>1. CASE i = 0
    <3>1. ATickLater(f)[j] \in Nat
      BY TallyType DEF Tally
    <3> QED
      BY <1>1, <2>1, <3>1
  <2>2. CASE i # 0
    <3>1. i \in 1 .. MINUTE /\ j \in 1 .. MINUTE /\ i - 1 <= j - 1
      BY <2>2
    <3> QED
      BY <1>1, <3>1 DEF Rate, Growing
  <2> QED
    BY <2>1, <2>2
<1>4. ATickLater(f)[1] = 0
  BY <1>1 DEF Rate, Growing
<1>5. PICK m \in 0 .. MINUTE : m + 1 = MINUTE /\ ATickLater(f)[MINUTE] = f[m] /\ f[m] <= f[MINUTE]
  <2>1. MINUTE \in 1 .. MINUTE /\ (MINUTE - 1) + 1 = MINUTE /\ MINUTE - 1 \in 0 .. MINUTE
    OBVIOUS
  <2> QED
    BY <1>1, <2>1 DEF Rate, Growing
<1>6. CASE Counts(e) /\ Counts(c)
  <2>1. e.age \in 0 .. MINUTE /\ c.age = e.age + 1 /\ c.age \in 1 .. MINUTE /\ c.age + 1 \in 1 .. MINUTE
    BY <1>6 DEF Counts, Seen
  <2>2. ATickLater(f)[c.age] = f[e.age] /\ ATickLater(f)[c.age + 1] = f[e.age + 1]
    <3>1. c.age - 1 = e.age /\ (c.age + 1) - 1 = e.age + 1
      BY <2>1
    <3>2. \A i, j : i \in 1 .. MINUTE /\ j = i - 1 => ATickLater(f)[i] = f[j]
      BY <1>1
    <3> QED
      BY <2>1, <3>1, <3>2
  <2>3. InWindow(f, e) /\ c.count = e.count
    BY <1>6 DEF Rate, Counts
  <2>4. f[e.age + 1] \in Nat /\ f[m] \in Nat /\ f[MINUTE] \in Nat
    BY <1>2, <2>1
  <2>5. ATickLater(f)[MINUTE] < ATickLater(f)[c.age + 1] + HANDSHAKES_PER_MINUTE
    BY <1>5, <2>2, <2>3, <2>4 DEF InWindow
  <2>6. InWindow(ATickLater(f), c)
    BY <2>2, <2>3, <2>5 DEF InWindow
  <2> QED
    BY <1>3, <1>6, <2>6 DEF Rate
<1>7. CASE Counts(e) /\ ~Counts(c)
  <2>1. e.age = m
    BY <1>5, <1>7 DEF Counts, Seen
  <2>2. f[m] < f[m + 1] /\ f[m + 1] <= HANDSHAKES_PER_MINUTE
    BY <1>7, <2>1 DEF Rate, InWindow
  <2>3. f[m] \in Nat /\ f[m + 1] \in Nat
    BY <1>2, <1>5
  <2> QED
    BY <1>3, <1>4, <1>5, <1>7, <2>2, <2>3 DEF Rate, Quiet
<1>8. CASE ~Counts(e)
  <2>1. ~Counts(c)
    BY <1>8 DEF Counts, Seen
  <2>2. f[m] \in Nat /\ f[MINUTE] \in Nat
    BY <1>2
  <2> QED
    BY <1>3, <1>4, <1>5, <1>8, <2>1, <2>2 DEF Rate, Quiet
<1> QED
  BY <1>6, <1>7, <1>8

-----------------------------------------------------------------------------
(* The invariant *)

LEMMA InvInit == Init => IInv
<1> SUFFICES ASSUME Init PROVE IInv
  OBVIOUS
<1> USE ConstantsAssumption
<1>1. TypeOK
  BY DEF Init, TypeOK, Idle
<1>2. ThreadsOK
  BY DEF Init, ThreadsOK, Idle
<1>3. WindowsOK
  <2>1. ASSUME NEW a \in Addr
        PROVE  \A i \in 0 .. MINUTE : recent[a][i] = 0
    BY DEF Init
  <2> QED
    BY <2>1 DEF Init, WindowsOK, Rate, Counts, Growing, Quiet
<1>4. Connected = {} /\ Listed = {} /\ {a \in Addr : guard[a] # None} = {}
  BY DEF Init, Connected, Listed
<1>5. ConnectionsBounded /\ AskedForIsReached /\ TablesBounded
  BY <1>4, FS_EmptySet DEF ConnectionsBounded, AskedForIsReached, TablesBounded
<1> QED
  BY <1>1, <1>2, <1>3, <1>5 DEF IInv

\* A new thread touches the thread table only; the rest is in the hands of the
\* action that begins it.
LEMMA BeginsType ==
  ASSUME TypeOK, ThreadsOK, NEW t \in Thread, NEW pc \in {"dial", "register"}, NEW a \in Addr,
         NEW expect \in Device \cup {None}, NEW peer \in Device \cup {None},
         Begins(t, pc, a, expect, peer),
         pc = "register" => peer \in Device /\ expect \in {None, peer}
  PROVE  thread' \in [Thread -> Attempt \cup {Idle}] /\ ThreadsOK'
<1>1. DEFINE r == [pc |-> pc, addr |-> a, expect |-> expect, peer |-> peer]
<1>2. r \in Attempt /\ r.pc = pc /\ r.peer = peer /\ r.expect = expect
  BY DEF Attempt
<1>3. thread' = [thread EXCEPT ![t] = r]
  BY DEF Begins
<1> HIDE DEF r
<1> QED
  BY <1>2, <1>3 DEF TypeOK, ThreadsOK

LEMMA EndsType ==
  ASSUME TypeOK, ThreadsOK, NEW t \in Thread, Ends(t)
  PROVE  thread' \in [Thread -> Attempt \cup {Idle}] /\ ThreadsOK'
BY DEF Ends, TypeOK, ThreadsOK, Idle

\* What the invariant says of the tables a step leaves alone.
LEMMA Untouched ==
  ASSUME IInv
  PROVE  /\ UNCHANGED conns => ConnectionsBounded' /\ AskedForIsReached'
         /\ UNCHANGED <<peers, guard>> => TablesBounded'
         /\ UNCHANGED <<guard, recent>> => WindowsOK'
         /\ UNCHANGED thread => ThreadsOK'
<1> USE DEF IInv
<1>1. ASSUME UNCHANGED conns PROVE ConnectionsBounded' /\ AskedForIsReached'
  BY <1>1 DEF ConnectionsBounded, AskedForIsReached, Connected
<1>2. ASSUME UNCHANGED <<peers, guard>> PROVE TablesBounded'
  BY <1>2 DEF TablesBounded, Listed
<1>3. ASSUME UNCHANGED <<guard, recent>> PROVE WindowsOK'
  BY <1>3 DEF WindowsOK
<1>4. ASSUME UNCHANGED thread PROVE ThreadsOK'
  BY <1>4 DEF ThreadsOK
<1> QED
  BY <1>1, <1>2, <1>3, <1>4

\* admit: the window of the source starts or goes on, the others only lose
\* what no longer counts.
LEMMA AdmitInv ==
  ASSUME IInv, NEW t \in Thread, NEW a \in Addr, Admit(t, a)
  PROVE  IInv'
<1> USE ConstantsAssumption DEF IInv
<1>1. CASE SourceRoom
  <2>1. guard' = [Retained EXCEPT ![a] = Counted(a)] /\ Counted(a) \in Seen
    BY <1>1, CountedType DEF Admit
  <2>2. guard' \in [Addr -> Seen \cup {None}]
    BY <2>1, RetainedType
  <2>3. {b \in Addr : guard'[b] # None} \subseteq FreshOnes \cup {a}
    BY <2>1, RetainedType
  <2>4. Cardinality({b \in Addr : guard'[b] # None}) <= MAX_SOURCES + 1
    <3>1. Cardinality({b \in Addr : guard'[b] # None}) <= Cardinality(FreshOnes) + 1
          /\ Cardinality({b \in Addr : guard'[b] # None}) \in Nat
      BY <2>3, OneMore, TablesFinite
    <3>2. Cardinality(FreshOnes) <= MAX_SOURCES
      BY <1>1 DEF SourceRoom, FreshOnes
    <3> QED
      BY <3>1, <3>2, TablesFinite
  <2>5. /\ \A b \in Addr : /\ recent[b] \in Tally
                           /\ recent'[b] = IF b = a /\ Allowed(a) THEN OneMoreIn(recent[b]) ELSE recent[b]
        /\ recent' \in [Addr -> [0 .. MINUTE -> Nat]]
    <3>1. \A b \in Addr : recent[b] \in Tally /\ OneMoreIn(recent[b]) \in Tally
      BY TallyType DEF TypeOK, Tally
    <3>2. CASE Allowed(a)
      <4>1. recent' = [recent EXCEPT ![a] = OneMoreIn(recent[a])]
        BY <3>2 DEF Admit, OneMoreIn
      <4> QED
        BY <3>1, <3>2, <4>1 DEF TypeOK, Tally
    <3>3. CASE ~Allowed(a)
      <4>1. recent' = recent
        BY <3>3 DEF Admit
      <4> QED
        BY <3>1, <3>3, <4>1 DEF TypeOK
    <3> QED
      BY <3>2, <3>3
  <2>6. ASSUME NEW b \in Addr
        PROVE  Rate(recent'[b], guard'[b])
    <3>1. Rate(recent[b], guard[b]) /\ recent[b] \in Tally
      BY <2>5 DEF WindowsOK
    <3>2. CASE b # a
      <4>1. guard'[b] = Retained[b] /\ recent'[b] = recent[b]
        BY <2>1, <2>5, <3>2, RetainedType
      <4> QED
        BY <3>1, <4>1, RetainedRate
    <3>3. CASE b = a /\ Fresh(a)
      <4>1. guard'[b] = Counted(a) /\ guard[a] \in Seen /\ Counts(guard[a])
        BY <2>1, <3>3, CountedType, RetainedType DEF Fresh, Counts
      <4>2. CASE Allowed(a)
        <5>1. Counted(a).count <= HANDSHAKES_PER_MINUTE /\ recent'[b] = OneMoreIn(recent[b])
          BY <2>5, <3>3, <4>2 DEF Allowed
        <5> QED
          BY <2>1, <3>1, <3>3, <4>1, <5>1, CountedType, LetInRate
      <4>3. CASE ~Allowed(a)
        <5>1. recent'[b] = recent[b]
          BY <2>5, <3>3, <4>3
        <5> QED
          BY <2>1, <3>1, <3>3, <4>1, <5>1, CountedType, RefusedRate
      <4> QED
        BY <4>2, <4>3
    <3>4. CASE b = a /\ ~Fresh(a)
      <4>1. guard'[b] = Counted(a) /\ Counted(a).age = 0 /\ Counted(a).count = 1 /\ ~Counts(guard[a])
        BY <2>1, <3>4, CountedType, RetainedType DEF Fresh, Counts
      <4>2. recent'[b] = OneMoreIn(recent[b])
        BY <1>1, <2>5, <3>4, AllowedThenLetIn
      <4>3. Growing(recent[b]) /\ Quiet(recent[b])
        BY <3>1, <3>4, <4>1 DEF Rate
      <4> QED
        BY <2>1, <3>1, <4>1, <4>2, <4>3, WindowBegins
    <3> QED
      BY <3>2, <3>3, <3>4
  <2>7. WindowsOK'
    BY <2>6 DEF WindowsOK
  <2>8. thread' \in [Thread -> Attempt \cup {Idle}] /\ ThreadsOK'
    <3>1. CASE Allowed(a)
      BY <3>1, BeginsType DEF Admit, TypeOK
    <3>2. CASE ~Allowed(a)
      BY <3>2, Untouched DEF Admit, TypeOK
    <3> QED
      BY <3>1, <3>2
  <2> QED
    BY <2>2, <2>4, <2>5, <2>7, <2>8, Untouched DEF Admit, TypeOK, TablesBounded, Listed
<1>2. CASE ~SourceRoom
  <2>1. guard' = Retained /\ UNCHANGED <<at, peers, thread, conns, recent>>
    BY <1>2 DEF Admit, Allowed
  <2>2. {b \in Addr : guard'[b] # None} = FreshOnes
    BY <2>1, RetainedType
  <2>3. Cardinality({b \in Addr : guard'[b] # None}) <= MAX_SOURCES + 1
    <3>1. Cardinality(FreshOnes) <= Cardinality(Counting)
      BY RetainedType, TablesFinite, FS_Subset
    <3> QED
      BY <2>2, <3>1, TablesFinite DEF TablesBounded, Counting
  <2>4. WindowsOK'
    <3>1. \A b \in Addr : Rate(recent'[b], guard'[b])
      BY <2>1, RetainedRate DEF WindowsOK
    <3> QED
      BY <3>1 DEF WindowsOK
  <2> QED
    BY <2>1, <2>3, <2>4, Untouched, RetainedType DEF TypeOK, TablesBounded, Listed
<1> QED
  BY <1>1, <1>2

\* run_connection: the second check of the limit is made where the entry is
\* inserted, and the entry bears the key the handshake proved.
LEMMA RegisterInv ==
  ASSUME IInv, NEW t \in Thread, Register(t)
  PROVE  IInv'
<1> DEFINE d == thread[t].peer
<1> USE ConstantsAssumption DEF IInv
<1>1. thread[t] \in Attempt /\ d \in Device /\ thread[t].expect \in {None, d}
  BY DEF Register, Moves, TypeOK, Idle, ThreadsOK
<1>2. CASE Admitted(d)
  <2>1. conns' = [conns EXCEPT ![d] = [asked |-> thread[t].expect]]
    BY <1>2 DEF Register
  <2>2. conns' \in [Device -> [asked : Device \cup {None}] \cup {None}]
    BY <1>1, <2>1 DEF TypeOK
  <2>3. Connected' \subseteq Connected \cup {d}
    BY <2>1 DEF Connected, TypeOK
  <2>4. ConnectionsBounded'
    <3>1. Cardinality(Connected') <= Cardinality(Connected) + 1 /\ Cardinality(Connected') \in Nat
      BY <2>3, OneMore, TablesFinite
    <3> QED
      BY <1>2, <3>1, TablesFinite DEF ConnectionsBounded, Admitted
  <2>5. AskedForIsReached'
    BY <1>1, <2>1, <2>3 DEF AskedForIsReached, TypeOK
  <2> QED
    BY <2>2, <2>4, <2>5, EndsType, Untouched DEF Register, Moves, TypeOK
<1>3. CASE ~Admitted(d)
  BY <1>3, EndsType, Untouched DEF Register, Moves, TypeOK
<1> QED
  BY <1>2, <1>3

\* on_beacon, expire_peers: only the table of nearby devices changes, and it
\* gains an entry only below its limit.
LEMMA DiscoveryInv ==
  ASSUME IInv,
         \/ \E d \in Device, a \in Addr : OnBeacon(d, a)
         \/ ExpirePeers
  PROVE  IInv'
<1> USE ConstantsAssumption DEF IInv
<1>1. ASSUME NEW d \in Device, NEW a \in Addr, OnBeacon(d, a)
      PROVE  IInv'
  <2>1. peers' \in [Device -> Peer \cup {None}]
    BY <1>1 DEF OnBeacon, TypeOK, Peer
  <2>2. Listed' \subseteq Listed \cup {d}
    BY <1>1 DEF OnBeacon, TypeOK, Listed
  <2>3. Cardinality(Listed') <= MAX_PEERS
    <3>1. /\ Cardinality(Listed') \in Nat
          /\ Cardinality(Listed') <= Cardinality(Listed) + 1
          /\ d \in Listed => Cardinality(Listed') <= Cardinality(Listed)
      BY <2>2, OneMore, TablesFinite
    <3>2. Cardinality(Listed) < MAX_PEERS \/ d \in Listed
      BY <1>1 DEF OnBeacon, PeerRoom
    <3> QED
      BY <3>1, <3>2, TablesFinite DEF TablesBounded
  <2> QED
    BY <1>1, <2>1, <2>3, Untouched DEF OnBeacon, TypeOK, TablesBounded
<1>2. ASSUME ExpirePeers PROVE IInv'
  <2>1. peers' \in [Device -> Peer \cup {None}]
    BY <1>2 DEF ExpirePeers, TypeOK
  <2>2. Listed' \subseteq Listed
    BY <1>2 DEF ExpirePeers, TypeOK, Listed
  <2>3. Cardinality(Listed') <= MAX_PEERS
    <3>1. Cardinality(Listed') <= Cardinality(Listed) /\ Cardinality(Listed') \in Nat
      BY <2>2, TablesFinite, FS_Subset, FS_CardinalityType
    <3> QED
      BY <3>1, TablesFinite DEF TablesBounded
  <2> QED
    BY <1>2, <2>1, <2>3, Untouched DEF ExpirePeers, TypeOK, TablesBounded
<1> QED
  BY <1>1, <1>2

\* A tick ages a window and the record of what was let in together.
LEMMA TickInv ==
  ASSUME IInv, Tick
  PROVE  IInv'
<1> USE ConstantsAssumption DEF IInv
<1>1. peers' \in [Device -> Peer \cup {None}] /\ Listed' \subseteq Listed
  <2>1. ASSUME NEW d \in Device, peers[d] # None
        PROVE  [peers[d] EXCEPT !.age = Older(peers[d].age, PEER_TTL)] \in Peer
    <3>1. peers[d] \in Peer
      BY <2>1 DEF TypeOK
    <3>2. Older(peers[d].age, PEER_TTL) \in 0 .. PEER_TTL
      BY <3>1 DEF Older, Peer
    <3> QED
      BY <3>1, <3>2 DEF Peer
  <2> QED
    BY <2>1 DEF Tick, Listed
<1>2. /\ guard' \in [Addr -> Seen \cup {None}]
      /\ {a \in Addr : guard'[a] # None} \subseteq Counting
      /\ \A a \in Addr : guard[a] # None => guard'[a] \in Seen
  <2>1. ASSUME NEW a \in Addr, guard[a] # None
        PROVE  [guard[a] EXCEPT !.age = Older(guard[a].age, MINUTE)] \in Seen
    <3>1. guard[a] \in Seen
      BY <2>1 DEF TypeOK
    <3>2. Older(guard[a].age, MINUTE) \in 0 .. MINUTE
      BY <3>1 DEF Older, Seen
    <3> QED
      BY <3>1, <3>2 DEF Seen
  <2> QED
    BY <2>1 DEF Tick, Counting
<1>3. /\ \A a \in Addr : recent[a] \in Tally /\ recent'[a] = ATickLater(recent[a])
      /\ recent' \in [Addr -> [0 .. MINUTE -> Nat]]
  <2>1. \A a \in Addr : recent[a] \in Tally /\ ATickLater(recent[a]) \in Tally
    BY TallyType DEF TypeOK, Tally
  <2>2. recent' = [a \in Addr |-> ATickLater(recent[a])]
    BY DEF Tick, ATickLater
  <2> QED
    BY <2>1, <2>2 DEF Tally
<1>4. WindowsOK'
  <2>1. ASSUME NEW a \in Addr
        PROVE  Rate(recent'[a], guard'[a])
    <3>1. Rate(recent[a], guard[a])
      BY DEF WindowsOK
    <3>2. guard[a] \in Seen \cup {None} /\ guard'[a] \in Seen \cup {None}
      BY <1>2 DEF TypeOK
    <3>3. guard[a] = None <=> guard'[a] = None
      BY <1>2, NoneAssumption DEF Counting
    <3>4. guard[a] # None =>
            /\ guard'[a].count = guard[a].count
            /\ guard'[a].age = IF guard[a].age < MINUTE THEN guard[a].age + 1 ELSE guard[a].age
      BY <3>2 DEF Tick, Older, Seen
    <3> QED
      BY <1>3, <3>1, <3>2, <3>3, <3>4, TickRate
  <2> QED
    BY <2>1 DEF WindowsOK
<1>5. TablesBounded'
  <2>1. /\ Cardinality(Listed') <= Cardinality(Listed) /\ Cardinality(Listed') \in Nat
        /\ Cardinality({a \in Addr : guard'[a] # None}) <= Cardinality(Counting)
        /\ Cardinality({a \in Addr : guard'[a] # None}) \in Nat
    BY <1>1, <1>2, TablesFinite, FS_Subset, FS_CardinalityType
  <2> QED
    BY <2>1, TablesFinite DEF TablesBounded, Counting
<1> QED
  BY <1>1, <1>2, <1>3, <1>4, <1>5, Untouched DEF Tick, TypeOK

LEMMA InvNext == IInv /\ [Next]_vars => IInv'
<1> SUFFICES ASSUME IInv, [Next]_vars PROVE IInv'
  OBVIOUS
<1> USE ConstantsAssumption DEF IInv
<1>1. ASSUME NEW t \in Thread, NEW a \in Addr, Admit(t, a) PROVE IInv'
  BY <1>1, AdmitInv
<1>2. ASSUME NEW t \in Thread, NEW a \in Addr, DialAddress(t, a) PROVE IInv'
  BY <1>2, BeginsType, Untouched DEF DialAddress, TypeOK
<1>3. ASSUME NEW t \in Thread, NEW d \in Device, Connect(t, d) PROVE IInv'
  <2>1. peers[d].addr \in Addr
    BY <1>3 DEF Connect, Listed, TypeOK, Peer
  <2> QED
    BY <1>3, <2>1, BeginsType, Untouched DEF Connect, TypeOK
<1>4. ASSUME NEW t \in Thread, DialChecks(t) PROVE IInv'
  <2>1. thread' \in [Thread -> Attempt \cup {Idle}] /\ ThreadsOK'
    <3>1. CASE Ends(t)
      BY <3>1, EndsType
    <3>2. CASE thread' = [thread EXCEPT ![t].pc = "handshake"]
      <4>1. thread[t] \in Attempt
        BY <1>4 DEF DialChecks, Moves, TypeOK, Idle
      <4>2. [thread[t] EXCEPT !.pc = "handshake"] \in Attempt
            /\ [thread[t] EXCEPT !.pc = "handshake"].pc = "handshake"
        BY <4>1 DEF Attempt
      <4>3. thread' = [thread EXCEPT ![t] = [thread[t] EXCEPT !.pc = "handshake"]]
        BY <3>2
      <4> QED
        BY <4>2, <4>3 DEF TypeOK, ThreadsOK
    <3> QED
      BY <1>4, <3>1, <3>2 DEF DialChecks
  <2> QED
    BY <1>4, <2>1, Untouched DEF DialChecks, Moves, TypeOK
<1>5. ASSUME NEW t \in Thread, Handshake(t) PROVE IInv'
  <2>1. thread' \in [Thread -> Attempt \cup {Idle}] /\ ThreadsOK'
    <3>1. CASE Ends(t)
      BY <3>1, EndsType
    <3>2. CASE ~Ends(t)
      <4> DEFINE d == at[thread[t].addr]
                 r == [thread[t] EXCEPT !.pc = "register", !.peer = d]
      <4>1. thread[t] \in Attempt
        BY <1>5 DEF Handshake, Moves, TypeOK, Idle
      <4>2. d \in Device /\ thread[t].expect \in {None, d}
        BY <1>5, <3>2, <4>1 DEF Handshake, Expected, TypeOK, Attempt
      <4>3. r \in Attempt /\ r.peer = d /\ r.expect = thread[t].expect
        BY <4>1, <4>2 DEF Attempt
      <4>4. thread' = [thread EXCEPT ![t] = r]
        BY <1>5, <3>2 DEF Handshake
      <4> HIDE DEF d, r
      <4> QED
        BY <4>2, <4>3, <4>4 DEF TypeOK, ThreadsOK
    <3> QED
      BY <3>1, <3>2
  <2> QED
    BY <1>5, <2>1, Untouched DEF Handshake, Moves, TypeOK
<1>6. ASSUME NEW t \in Thread, Register(t) PROVE IInv'
  BY <1>6, RegisterInv
<1>7. ASSUME NEW d \in Device, Disconnected(d) PROVE IInv'
  <2>1. Connected' \subseteq Connected
    BY <1>7 DEF Disconnected, Connected, TypeOK
  <2>2. ConnectionsBounded'
    <3>1. Cardinality(Connected') <= Cardinality(Connected) /\ Cardinality(Connected') \in Nat
      BY <2>1, TablesFinite, FS_Subset, FS_CardinalityType
    <3> QED
      BY <3>1, TablesFinite DEF ConnectionsBounded
  <2>3. AskedForIsReached'
    BY <1>7, <2>1 DEF Disconnected, AskedForIsReached, Connected, TypeOK
  <2> QED
    BY <1>7, <2>2, <2>3, Untouched DEF Disconnected, TypeOK
<1>8. ASSUME NEW a \in Addr, NEW d \in Device, Move(a, d) PROVE IInv'
  BY <1>8, Untouched DEF Move, TypeOK
<1>9. CASE (\E d \in Device, a \in Addr : OnBeacon(d, a)) \/ ExpirePeers
  BY <1>9, DiscoveryInv
<1>10. CASE Tick
  BY <1>10, TickInv
<1>11. CASE UNCHANGED vars
  BY <1>11, Untouched DEF vars, TypeOK
<1> QED
  BY <1>1, <1>2, <1>3, <1>4, <1>5, <1>6, <1>7, <1>8, <1>9, <1>10, <1>11 DEF Next, Attempts

LEMMA Invariant == Spec => []IInv
BY InvInit, InvNext, PTL DEF Spec

-----------------------------------------------------------------------------
(* The theorems *)

\* The tables hold entries of their kind, and the threads attempts of theirs.
THEOREM TypeCorrect == Spec => []TypeOK
<1>1. IInv => TypeOK
  BY DEF IInv
<1> QED
  BY <1>1, Invariant, PTL

\* The connection table keeps its limit however many listener and dialling
\* threads pass the early check of it together (admit, dial, run_connection).
THEOREM ConnectionLimit == Spec => []ConnectionsBounded
<1>1. IInv => ConnectionsBounded
  BY DEF IInv
<1> QED
  BY <1>1, Invariant, PTL

\* Whoever the user picked from the nearby devices is who he is connected to,
\* whatever beacons said and wherever devices moved between the list, the dial
\* and the handshake (expect_key in run_connection).
THEOREM ReachesWhoWasAsked == Spec => []AskedForIsReached
<1>1. IInv => AskedForIsReached
  BY DEF IInv
<1> QED
  BY <1>1, Invariant, PTL

\* Neither the table of nearby devices nor that of ConnGuard grows past its
\* limit, whatever the beacons and the handshakes are.
THEOREM TablesKeepLimits == Spec => []TablesBounded
<1>1. IInv => TablesBounded
  BY DEF IInv
<1> QED
  BY <1>1, Invariant, PTL

\* No source is let in for twice HANDSHAKES_PER_MINUTE handshakes, or more,
\* within a MINUTE (ConnGuard::allow, whose windows do not slide).
THEOREM RateKept == Spec => []HandshakeRate
<1>1. IInv => HandshakeRate
  <2> SUFFICES ASSUME IInv, NEW a \in Addr
               PROVE  recent[a][MINUTE] <= 2 * HANDSHAKES_PER_MINUTE - 1
    BY DEF HandshakeRate
  <2>1. TypeOK /\ Rate(recent[a], guard[a])
    BY DEF IInv, WindowsOK
  <2>2. HANDSHAKES_PER_MINUTE \in Nat \ {0} /\ MINUTE \in Nat \ {0} /\ recent[a][MINUTE] \in Nat
    BY <2>1, ConstantsAssumption DEF TypeOK
  <2>3. CASE Counts(guard[a])
    <3>1. guard[a].age + 1 \in 0 .. MINUTE
      BY <2>1, <2>2, <2>3 DEF Counts, TypeOK, Seen
    <3>2. recent[a][guard[a].age + 1] \in Nat
      BY <2>1, <3>1 DEF TypeOK
    <3> QED
      BY <2>1, <2>2, <2>3, <3>2 DEF Rate, InWindow
  <2>4. CASE ~Counts(guard[a])
    BY <2>1, <2>2, <2>4 DEF Rate, Quiet
  <2> QED
    BY <2>3, <2>4
<1> QED
  BY <1>1, Invariant, PTL

\* ConnGuard lets a source in again that it did not let in for a MINUTE: what
\* still counts began with a handshake that was let in.
THEOREM NobodyLockedOut == Spec => []SourceNotLockedOut
<1>1. IInv => SourceNotLockedOut
  <2> SUFFICES ASSUME IInv, NEW a \in Addr, recent[a][MINUTE] = 0, SourceRoom
               PROVE  Allowed(a)
    BY DEF SourceNotLockedOut
  <2>1. TypeOK /\ Rate(recent[a], guard[a])
    BY DEF IInv, WindowsOK
  <2>2. ~Fresh(a)
    <3> SUFFICES ASSUME Fresh(a) PROVE FALSE
      OBVIOUS
    <3>1. /\ Counts(guard[a])
          /\ guard[a].age \in 0 .. MINUTE /\ guard[a].age + 1 \in 0 .. MINUTE /\ MINUTE \in 0 .. MINUTE
          /\ guard[a].age + 1 <= MINUTE
      BY <2>1, ConstantsAssumption DEF TypeOK, Fresh, Counts, Seen
    <3>2. recent[a][guard[a].age] \in Nat /\ recent[a][guard[a].age + 1] \in Nat
      BY <2>1, <3>1 DEF TypeOK
    <3>3. recent[a][guard[a].age + 1] <= recent[a][MINUTE]
      BY <2>1, <3>1 DEF Rate, Growing
    <3>4. recent[a][guard[a].age] < recent[a][guard[a].age + 1]
      BY <2>1, <3>1 DEF Rate, InWindow
    <3> QED
      BY <3>2, <3>3, <3>4
  <2> QED
    BY <2>1, <2>2, AllowedThenLetIn
<1> QED
  BY <1>1, Invariant, PTL
=============================================================================
