------------------------------ MODULE Network ------------------------------
(***************************************************************************)
(* How one device of the desktop engine finds others and lets connections  *)
(* in: beacons and the table of nearby devices (net/discovery.rs,          *)
(* on_beacon, expire_peers), connecting to an entry of it or to an address *)
(* (connect, dial), the listener with its handshake limit (admit,          *)
(* ConnGuard), and the entry into the connection table (run_connection).   *)
(*                                                                         *)
(* The network around it is free: a device may move to another address,    *)
(* and a beacon, which is not authenticated and may be late, may name any  *)
(* device and any address.  Time is a tick that ages the entries of both   *)
(* tables; an age stops counting when nothing depends on it any more.      *)
(* Addresses are those of the local network: is_lan_addr and the settings  *)
(* that refuse whole kinds of connection are left out, and so is the limit *)
(* on beacons per source.                                                  *)
(***************************************************************************)
EXTENDS Naturals, FiniteSets

CONSTANTS
    Device,                \* the other devices; a device stands for its key
    Addr,                  \* addresses, also as the sources of handshakes
    Thread,                \* listener, connection and dialling threads that run at once
    None,
    MAX_CONNECTIONS,       \* engine/mod.rs
    MAX_PEERS,             \* net/discovery.rs
    PEER_TTL,              \* net/discovery.rs, in ticks
    HANDSHAKES_PER_MINUTE, \* engine/mod.rs
    MINUTE,                \* the window of ConnGuard, in ticks
    MAX_SOURCES            \* 512 in ConnGuard::allow

ASSUME ConstantsAssumption ==
    /\ IsFiniteSet(Device) /\ IsFiniteSet(Addr)
    /\ {MAX_CONNECTIONS, MAX_PEERS, PEER_TTL, MINUTE} \subseteq Nat \ {0}
    /\ {HANDSHAKES_PER_MINUTE, MAX_SOURCES} \subseteq Nat \ {0}
    /\ None \notin Device \cup Addr

VARIABLES
    at,       \* address -> the device that answers there
    peers,    \* device -> entry of the peer table
    guard,    \* address -> entry of ConnGuard
    thread,   \* thread -> the connection attempt it makes
    conns,    \* device -> entry of the connection table
    recent    \* history: address -> number of ticks -> handshakes let in within so many

vars == <<at, peers, guard, thread, conns, recent>>

Peer    == [addr : Addr, age : 0 .. PEER_TTL]
Seen    == [age : 0 .. MINUTE, count : 1 .. HANDSHAKES_PER_MINUTE + 1]
\* expect: the key run_connection insists on; peer: the key the handshake proved.
Attempt == [pc : {"dial", "handshake", "register"}, addr : Addr,
            expect : Device \cup {None}, peer : Device \cup {None}]
Idle    == [pc |-> "idle"]

ASSUME NoneAssumption == None \notin Seen

Connected == {d \in Device : conns[d] # None}
Listed    == {d \in Device : peers[d] # None}

Init ==
    /\ at \in [Addr -> Device]
    /\ peers = [d \in Device |-> None]
    /\ guard = [a \in Addr |-> None]
    /\ thread = [t \in Thread |-> Idle]
    /\ conns = [d \in Device |-> None]
    /\ recent = [a \in Addr |-> [i \in 0 .. MINUTE |-> 0]]

-----------------------------------------------------------------------------
(* Discovery.                                                              *)

PeerRoom_NoLimit(d) == TRUE

PeerRoom(d) == Cardinality(Listed) < MAX_PEERS \/ d \in Listed

\* A beacon of d whose source address is a; an entry is replaced as a whole.
OnBeacon(d, a) ==
    /\ PeerRoom(d)
    /\ peers' = [peers EXCEPT ![d] = [addr |-> a, age |-> 0]]
    /\ UNCHANGED <<at, guard, thread, conns, recent>>

ExpirePeers ==
    /\ \E d \in Listed : peers[d].age >= PEER_TTL
    /\ peers' = [d \in Device |->
                    IF d \in Listed /\ peers[d].age >= PEER_TTL THEN None ELSE peers[d]]
    /\ UNCHANGED <<at, guard, thread, conns, recent>>

-----------------------------------------------------------------------------
(* ConnGuard::allow.                                                       *)

\* `retain': an entry counts for a MINUTE from its first handshake.
Fresh(a) == guard[a] # None /\ guard[a].age < MINUTE

Retained == [a \in Addr |-> IF Fresh(a) THEN guard[a] ELSE None]

SourceRoom == Cardinality({a \in Addr : Fresh(a)}) <= MAX_SOURCES

Capped(n) == IF n > HANDSHAKES_PER_MINUTE THEN HANDSHAKES_PER_MINUTE + 1 ELSE n

Counted_Restarting(a) ==
    IF Fresh(a) THEN [age |-> 0, count |-> Capped(guard[a].count + 1)]
    ELSE [age |-> 0, count |-> 1]

Counted_FromZero(a) ==
    IF Fresh(a) THEN [guard[a] EXCEPT !.count = Capped(@ + 1)]
    ELSE [age |-> 0, count |-> 0]

Counted(a) ==
    IF Fresh(a) THEN [guard[a] EXCEPT !.count = Capped(@ + 1)]
    ELSE [age |-> 0, count |-> 1]

Allowed_OneMore(a) == SourceRoom /\ Counted(a).count <= HANDSHAKES_PER_MINUTE + 1

Allowed(a) == SourceRoom /\ Counted(a).count <= HANDSHAKES_PER_MINUTE

-----------------------------------------------------------------------------
(* Connections.                                                            *)

Begins(t, pc, a, expect, peer) ==
    /\ thread[t] = Idle
    /\ thread' = [thread EXCEPT ![t] =
                     [pc |-> pc, addr |-> a, expect |-> expect, peer |-> peer]]

\* Somebody at a connects to us: admit, then handshake_responder.
Admit(t, a) ==
    /\ Cardinality(Connected) < MAX_CONNECTIONS
    /\ guard' = IF SourceRoom THEN [Retained EXCEPT ![a] = Counted(a)] ELSE Retained
    /\ \/ /\ Allowed(a)
          /\ Begins(t, "register", a, None, at[a])
          /\ recent' = [recent EXCEPT ![a] =
                            [i \in 0 .. MINUTE |-> IF i = 0 THEN 0 ELSE @[i] + 1]]
       \/ ~Allowed(a) /\ UNCHANGED <<thread, recent>>
    /\ UNCHANGED <<at, peers, conns>>

\* connect: the address of the entry, and its key to be insisted on.
Connect(t, d) ==
    /\ d \in Listed
    /\ Begins(t, "dial", peers[d].addr, d, None)
    /\ UNCHANGED <<at, peers, guard, conns, recent>>

\* dial from an address typed in by the user.
DialAddress(t, a) ==
    /\ Begins(t, "dial", a, None, None)
    /\ UNCHANGED <<at, peers, guard, conns, recent>>

Moves(t, pc) == thread[t].pc = pc /\ UNCHANGED <<at, peers, guard, recent>>

Ends(t) == thread' = [thread EXCEPT ![t] = Idle]

DialChecks(t) ==
    /\ Moves(t, "dial")
    /\ IF Cardinality(Connected) >= MAX_CONNECTIONS THEN Ends(t)
       ELSE thread' = [thread EXCEPT ![t].pc = "handshake"]
    /\ UNCHANGED conns

Expected_Anyone(expect, d) == TRUE

Expected(expect, d) == expect \in {None, d}

\* connect_timeout, handshake_initiator and the check of expect_key: whoever is
\* at the address by now, or nobody.
Handshake(t) ==
    /\ Moves(t, "handshake")
    /\ UNCHANGED conns
    /\ \/ Ends(t)
       \/ /\ Expected(thread[t].expect, at[thread[t].addr])
          /\ thread' = [thread EXCEPT ![t].pc = "register",
                                      ![t].peer = at[thread[t].addr]]

Admitted_Unchecked(d) == conns[d] = None

\* The checks run_connection makes under the lock of the connection table.
Admitted(d) == conns[d] = None /\ Cardinality(Connected) < MAX_CONNECTIONS

Register(t) ==
    LET d == thread[t].peer IN
    /\ Moves(t, "register")
    /\ Ends(t)
    /\ conns' = IF Admitted(d) THEN [conns EXCEPT ![d] = [asked |-> thread[t].expect]]
                ELSE conns

Disconnected(d) ==
    /\ d \in Connected
    /\ conns' = [conns EXCEPT ![d] = None]
    /\ UNCHANGED <<at, peers, guard, thread, recent>>

-----------------------------------------------------------------------------
(* The world.                                                              *)

Move(a, d) ==
    /\ at[a] # d
    /\ at' = [at EXCEPT ![a] = d]
    /\ UNCHANGED <<peers, guard, thread, conns, recent>>

Older(n, cap) == IF n < cap THEN n + 1 ELSE n

Tick ==
    /\ peers' = [d \in Device |-> IF peers[d] = None THEN None
                                  ELSE [peers[d] EXCEPT !.age = Older(@, PEER_TTL)]]
    /\ guard' = [a \in Addr |-> IF guard[a] = None THEN None
                                ELSE [guard[a] EXCEPT !.age = Older(@, MINUTE)]]
    /\ recent' = [a \in Addr |-> [i \in 0 .. MINUTE |->
                                    IF i = 0 THEN 0 ELSE recent[a][i - 1]]]
    /\ UNCHANGED <<at, thread, conns>>

Attempts(t) ==
    \/ \E a \in Addr : Admit(t, a) \/ DialAddress(t, a)
    \/ \E d \in Device : Connect(t, d)
    \/ DialChecks(t) \/ Handshake(t) \/ Register(t)

Next ==
    \/ \E t \in Thread : Attempts(t)
    \/ \E d \in Device, a \in Addr : OnBeacon(d, a) \/ Move(a, d)
    \/ \E d \in Device : Disconnected(d)
    \/ ExpirePeers \/ Tick

Spec == Init /\ [][Next]_vars

-----------------------------------------------------------------------------
TypeOK ==
    /\ at \in [Addr -> Device]
    /\ peers \in [Device -> Peer \cup {None}]
    /\ guard \in [Addr -> Seen \cup {None}]
    /\ thread \in [Thread -> Attempt \cup {Idle}]
    /\ conns \in [Device -> [asked : Device \cup {None}] \cup {None}]
    /\ recent \in [Addr -> [0 .. MINUTE -> Nat]]

\* However many threads pass the first check of the limit at once, in admit and
\* in dial, the connection table keeps it.
ConnectionsBounded == Cardinality(Connected) <= MAX_CONNECTIONS

\* Who asked for a nearby device is never connected to another, though beacons
\* and addresses may have changed between the list, the dialling thread and the
\* handshake.
AskedForIsReached == \A d \in Connected : conns[d].asked \in {None, d}

\* What the counter of handshakes does keep for any MINUTE, nearly twice the
\* documented limit (HandshakesPerMinute below): the window is fixed and starts
\* with its first handshake, so the end of one window meets the next.
HandshakeRate ==
    \A a \in Addr : recent[a][MINUTE] <= 2 * HANDSHAKES_PER_MINUTE - 1

\* A source that was not let in for a MINUTE is let in, however often it tried,
\* unless too many other sources are counted.
SourceNotLockedOut ==
    \A a \in Addr :
        recent[a][MINUTE] = 0 => Allowed(a) \/ ~SourceRoom

\* Neither table can be made to grow: the limits are checked before the insert,
\* one of them with one entry to spare.
TablesBounded ==
    /\ Cardinality(Listed) <= MAX_PEERS
    /\ Cardinality({a \in Addr : guard[a] # None}) <= MAX_SOURCES + 1

-----------------------------------------------------------------------------
(* What the documents say and the code does not do *)

\* SECURITY.md:19 promises 10 handshakes per minute from an address, and so does
\* the comment of the constant (engine/mod.rs:49).
HandshakesPerMinute ==
    \A a \in Addr : recent[a][MINUTE] <= HANDSHAKES_PER_MINUTE
=============================================================================
