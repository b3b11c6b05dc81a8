-------------------------- MODULE NativeEventStore --------------------------
(***************************************************************************)
(* The Postgres adapter of the native event store (store/event_store.py)   *)
(* with the lookup every caller makes first: one action per statement of   *)
(* append's transaction that takes a lock, reads or writes.  Clients are   *)
(* request threads; a crash (lost connection, killed process, lost reply)  *)
(* may hit between any two steps, and a client may send any request again. *)
(* Read committed isolation: a statement sees what is durable when it runs.*)
(***************************************************************************)
EXTENDS Naturals

CONSTANTS Clients, Universes, Addresses, Commands, Bodies, Requests, Library, Positions, MaxCrashes

\* Addresses are numbered in the order of sorted((aggregate_type, aggregate_id)).
ASSUME AddressesAssumption == Addresses \subseteq Nat

ASSUME RequestsAssumption ==
  /\ Requests # {}
  /\ \A r \in Requests :
       /\ r.universe \in Universes
       /\ r.command \in Commands
       /\ r.body \in Bodies
       /\ DOMAIN r.expected \subseteq Addresses
       /\ r.expected \in [DOMAIN r.expected -> Nat]
       /\ r.appends \in [DOMAIN r.appends -> Nat \ {0}]

\* Library[u] is the library a universe belongs to.
ASSUME LibraryAssumption == DOMAIN Library = Universes

\* The values the identity column ru_commits.position can hold.
ASSUME PositionsAssumption == Positions \subseteq Nat \ {0}

ASSUME CrashesAssumption == MaxCrashes \in Nat

VARIABLES
  universes,  \* rows of research_universes, all active
  commits, events, next, acked,
  sequence,   \* the identity sequence behind ru_commits.position: never rolled back
  held,       \* held[c]: row and advisory locks of c's transaction
  pc,         \* pc[c]: the step c's call executes next
  req,        \* req[c]: the request c is executing, NoCall when idle
  todo,       \* todo[c]: stream addresses its transaction has still to lock
  drawn,      \* drawn[c]: the position its transaction inserted its commit at
  crashes     \* bounds the crashes of a behaviour

durable == <<universes, commits, events, next>>
vars == <<universes, commits, events, next, acked, sequence, held, pc, req, todo, drawn, crashes>>

Log == INSTANCE CommandLog

FenceLock == <<"fence">>
CommandLock(r) == <<"command", r.universe, r.command>>
UniverseLock(r) == <<"universe", r.universe>>
StreamLock(r, a) == <<"stream", r.universe, a>>

Locks ==
  {FenceLock} \cup {UniverseLock(r) : r \in Requests} \cup
  {CommandLock(r) : r \in Requests} \cup {StreamLock(r, a) : r \in Requests, a \in Addresses}

Steps == {"idle", "lookup", "append", "command", "recheck", "universe",
          "streams", "commit", "answer"}

Free(l) == \A d \in Clients : l \notin held[d]
Take(c, l) == Free(l) /\ held' = [held EXCEPT ![c] = @ \cup {l}]
Goto(c, step) == pc' = [pc EXCEPT ![c] = step]

NoCall == CHOOSE r \in Requests : TRUE

Prior(r) == {k \in commits : Log!SameCommand(k, r)}
Replayable(r) == {k \in Prior(r) : k.fingerprint = Log!Fingerprint(r)}

Init ==
  /\ universes = {}
  /\ Log!LogInit
  /\ sequence = 0
  /\ held = [c \in Clients |-> {}]
  /\ pc = [c \in Clients |-> "idle"]
  /\ req = [c \in Clients |-> NoCall]
  /\ todo = [c \in Clients |-> {}]
  /\ drawn = [c \in Clients |-> 0]
  /\ crashes = 0
-----------------------------------------------------------------------------
\* The partial unique index admits one active universe per library.
CreateUniverse(u) ==
  /\ \A v \in universes : Library[v] # Library[u]
  /\ universes' = universes \cup {u}
  /\ UNCHANGED <<commits, events, next, acked, sequence, held, pc, req, todo, drawn, crashes>>

\* A client sends a request: a new command, or one it sent before and retries.
Call(c, r) ==
  /\ pc[c] = "idle"
  /\ req' = [req EXCEPT ![c] = r]
  /\ Goto(c, "lookup")
  /\ UNCHANGED <<durable, acked, sequence, held, todo, drawn, crashes>>

\* Mistake: the call ends and its locks stay taken.
FinishKeepsLocks(c) ==
  /\ Goto(c, "idle")
  /\ req' = [req EXCEPT ![c] = NoCall]
  /\ todo' = [todo EXCEPT ![c] = {}]
  /\ drawn' = [drawn EXCEPT ![c] = 0]
  /\ UNCHANGED <<durable, sequence, held>>

\* The call ends: its transaction, if one is open, releases every lock.
Finish(c) ==
  /\ Goto(c, "idle")
  /\ req' = [req EXCEPT ![c] = NoCall]
  /\ held' = [held EXCEPT ![c] = {}]
  /\ todo' = [todo EXCEPT ![c] = {}]
  /\ drawn' = [drawn EXCEPT ![c] = 0]
  /\ UNCHANGED <<durable, sequence>>

Fail(c) == Finish(c) /\ UNCHANGED <<acked, crashes>>
Answer(c, k) == Finish(c) /\ acked' = acked \cup {k} /\ UNCHANGED crashes

\* lookup_command: answers with the durable commit or reports a conflict.
Lookup(c) ==
  /\ pc[c] = "lookup"
  /\ \/ /\ Prior(req[c]) = {}
        /\ Goto(c, "append")
        /\ UNCHANGED <<durable, acked, sequence, held, req, todo, drawn, crashes>>
     \/ \E k \in Replayable(req[c]) : Answer(c, k)
     \/ Prior(req[c]) # Replayable(req[c]) /\ Fail(c)

\* Expected sequences that do not cover precisely the target streams: ValueError.
RefuseCoverage(c) ==
  /\ pc[c] = "append"
  /\ DOMAIN req[c].expected # DOMAIN req[c].appends
  /\ Fail(c)

\* Mistake: the fence row is read without FOR UPDATE.
LockFenceReadOnly(c) ==
  /\ pc[c] = "append"
  /\ DOMAIN req[c].expected = DOMAIN req[c].appends
  /\ Goto(c, "command")
  /\ UNCHANGED <<durable, acked, sequence, held, req, todo, drawn, crashes>>

LockFence(c) ==
  /\ pc[c] = "append"
  /\ DOMAIN req[c].expected = DOMAIN req[c].appends
  /\ Take(c, FenceLock)
  /\ Goto(c, "command")
  /\ UNCHANGED <<durable, acked, sequence, req, todo, drawn, crashes>>

LockCommand(c) ==
  /\ pc[c] = "command"
  /\ Take(c, CommandLock(req[c]))
  /\ Goto(c, "recheck")
  /\ UNCHANGED <<durable, acked, sequence, req, todo, drawn, crashes>>

\* Mistake: the lookup before append is taken as still true.
RecheckSkipped(c) ==
  /\ pc[c] = "recheck"
  /\ Goto(c, "universe")
  /\ UNCHANGED <<durable, acked, sequence, held, req, todo, drawn, crashes>>

\* Under the command lock the durable commit is looked up again.
Recheck(c) ==
  /\ pc[c] = "recheck"
  /\ \/ /\ Prior(req[c]) = {}
        /\ Goto(c, "universe")
        /\ UNCHANGED <<durable, acked, sequence, held, req, todo, drawn, crashes>>
     \/ \E k \in Replayable(req[c]) : Answer(c, k)
     \/ Prior(req[c]) # Replayable(req[c]) /\ Fail(c)

LockUniverse(c) ==
  /\ pc[c] = "universe"
  /\ req[c].universe \in universes
  /\ Take(c, UniverseLock(req[c]))
  /\ todo' = [todo EXCEPT ![c] = DOMAIN req[c].expected]
  /\ Goto(c, "streams")
  /\ UNCHANGED <<durable, acked, sequence, req, drawn, crashes>>

UniverseMissing(c) ==
  /\ pc[c] = "universe"
  /\ req[c].universe \notin universes
  /\ Fail(c)

\* The stream whose turn it is in canonical order.
Turn(c, a) == a \in todo[c] /\ \A b \in todo[c] : a <= b

\* Mistake: the stream is locked and its length not compared.
LockStreamUnchecked(c) ==
  /\ pc[c] = "streams"
  /\ \E a \in Addresses :
       /\ Turn(c, a)
       /\ Take(c, StreamLock(req[c], a))
       /\ todo' = [todo EXCEPT ![c] = @ \ {a}]
  /\ UNCHANGED <<durable, acked, sequence, pc, req, drawn, crashes>>

\* Streams are locked one by one in canonical order; the advisory lock covers
\* a stream that has no row yet, and the first stale expectation aborts.
LockStream(c) ==
  /\ pc[c] = "streams"
  /\ \E a \in Addresses :
       /\ Turn(c, a)
       /\ next[req[c].universe][a] = req[c].expected[a]
       /\ Take(c, StreamLock(req[c], a))
       /\ todo' = [todo EXCEPT ![c] = @ \ {a}]
  /\ UNCHANGED <<durable, acked, sequence, pc, req, drawn, crashes>>

StaleStream(c) ==
  /\ pc[c] = "streams"
  /\ \E a \in Addresses :
       /\ Turn(c, a)
       /\ Free(StreamLock(req[c], a))
       /\ next[req[c].universe][a] # req[c].expected[a]
  /\ Fail(c)

\* Mistake: the inserted position is not read back.
InsertCommitNoReturning(c) ==
  /\ pc[c] = "streams"
  /\ todo[c] = {}
  /\ sequence + 1 \in Positions
  /\ sequence' = sequence + 1
  /\ Goto(c, "commit")
  /\ UNCHANGED <<durable, acked, held, req, todo, drawn, crashes>>

\* INSERT INTO ru_commits ... RETURNING position: the row stays invisible to
\* the others until the transaction commits, the position is used up for good.
InsertCommit(c) ==
  /\ pc[c] = "streams"
  /\ todo[c] = {}
  /\ sequence + 1 \in Positions
  /\ sequence' = sequence + 1
  /\ drawn' = [drawn EXCEPT ![c] = sequence + 1]
  /\ Goto(c, "commit")
  /\ UNCHANGED <<durable, acked, held, req, todo, crashes>>

\* COMMIT publishes the commit row, the events and the new stream lengths.
Commit(c) ==
  /\ pc[c] = "commit"
  /\ commits' = commits \cup {Log!CommitOf(req[c], drawn[c])}
  /\ events' = events \cup Log!EventsOf(req[c], drawn[c])
  /\ next' = Log!Advanced(req[c])
  /\ held' = [held EXCEPT ![c] = {}]
  /\ Goto(c, "answer")
  /\ UNCHANGED <<universes, acked, sequence, req, todo, drawn, crashes>>

Reply(c) ==
  /\ pc[c] = "answer"
  /\ Answer(c, Log!CommitOf(req[c], drawn[c]))

\* The thread, its connection or the reply is lost: an open transaction rolls
\* back, a committed one stays committed, the client learns nothing.
Crash(c) ==
  /\ pc[c] # "idle"
  /\ crashes < MaxCrashes
  /\ crashes' = crashes + 1
  /\ Finish(c)
  /\ UNCHANGED acked
-----------------------------------------------------------------------------
Progress(c) ==
  \/ Lookup(c) \/ RefuseCoverage(c) \/ LockFence(c) \/ LockCommand(c)
  \/ Recheck(c) \/ LockUniverse(c) \/ UniverseMissing(c) \/ LockStream(c)
  \/ StaleStream(c) \/ InsertCommit(c) \/ Commit(c) \/ Reply(c)

Next ==
  \/ \E u \in Universes : CreateUniverse(u)
  \/ \E c \in Clients :
       \/ \E r \in Requests : Call(c, r)
       \/ Progress(c)
       \/ Crash(c)

Spec == Init /\ [][Next]_vars

\* Postgres queues waiters for a lock, so a client that waits for the fence
\* gets it although others take it in between; any other step only needs that
\* the thread keeps running.
Fairness == \A c \in Clients : WF_vars(Progress(c)) /\ SF_vars(LockFence(c))
FairSpec == Spec /\ Fairness
-----------------------------------------------------------------------------
CommitRow ==
  [universe : Universes, command : Commands,
   fingerprint : {Log!Fingerprint(r) : r \in Requests}, position : Positions]

EventRow ==
  [universe : Universes, address : Addresses, sequence : Nat, position : Positions]

TypeOK ==
  /\ universes \subseteq Universes
  /\ commits \subseteq CommitRow
  /\ events \subseteq EventRow
  /\ next \in [Universes -> [Addresses -> Nat]]
  /\ acked \subseteq CommitRow
  /\ sequence \in Nat
  /\ held \in [Clients -> SUBSET Locks]
  /\ pc \in [Clients -> Steps]
  /\ req \in [Clients -> Requests]
  /\ todo \in [Clients -> SUBSET Addresses]
  /\ drawn \in [Clients -> Positions \cup {0}]
  /\ crashes \in Nat

\* A command id is committed at most once per universe, however often and by
\* however many threads it is sent, with the same body or another one.
CommandOnce ==
  \A k, l \in commits :
    k.universe = l.universe /\ k.command = l.command => k = l

\* No position of the log lies above the identity sequence, and each event
\* lies at the position of a commit.
PositionsDrawn ==
  /\ \A k \in commits : k.position <= sequence
  /\ \A e \in events : \E k \in commits : k.position = e.position

\* Each stream is a gapless history: the sequences of its events are exactly
\* 0 .. next_sequence - 1, each taken once, and they grow with the position.
StreamHistory ==
  \A u \in Universes, a \in Addresses :
    LET stream == {e \in events : e.universe = u /\ e.address = a} IN
      /\ {e.sequence : e \in stream} = 0 .. (next[u][a] - 1)
      /\ \A e, f \in stream :
           /\ e.sequence = f.sequence => e = f
           /\ e.position < f.position => e.sequence < f.sequence

InTransaction(c) == pc[c] \in {"command", "recheck", "universe", "streams", "commit"}

\* One transaction at a time is past the fence, and what it has read stays true
\* until it ends: the command is still unknown, the streams it checked have
\* still the expected length, the position it drew is still the highest.
FenceSerializes ==
  /\ \A c \in Clients : InTransaction(c) <=> FenceLock \in held[c]
  /\ \A c, d \in Clients : FenceLock \in held[c] \cap held[d] => c = d
  /\ \A c \in Clients :
       /\ InTransaction(c) => DOMAIN req[c].expected = DOMAIN req[c].appends
       /\ pc[c] \in {"universe", "streams", "commit"} => Prior(req[c]) = {}
       /\ pc[c] \in {"streams", "commit"} =>
            \A a \in DOMAIN req[c].expected \ todo[c] :
              next[req[c].universe][a] = req[c].expected[a]
       /\ pc[c] = "commit" =>
            /\ todo[c] = {}
            /\ drawn[c] = sequence
            /\ drawn[c] \in Positions
            /\ \A k \in commits : k.position < drawn[c]
       /\ pc[c] = "answer" => Log!CommitOf(req[c], drawn[c]) \in commits

\* A reader that has replayed up to some position never misses an event that
\* becomes visible later: what is published lies above all that was visible.
ReplayOrder ==
  [][/\ commits \subseteq commits'
     /\ events \subseteq events'
     /\ \A k \in commits' \ commits, l \in commits : l.position < k.position
     /\ \A e \in events' \ events, f \in events : f.position < e.position]_vars

\* A request whose command is already durable with the same fingerprint is
\* never refused: not as stale, and not for a missing universe.
RetryNeverRefused ==
  [][\A c \in Clients :
       StaleStream(c) \/ UniverseMissing(c) => Replayable(req[c]) = {}]_vars

\* The adapter implements the abstract commit log.
ImplementsCommandLog == Log!LogSpec

\* Every call ends, whoever else competes for the fence.
EveryCallReturns == \A c \in Clients : pc[c] # "idle" ~> pc[c] = "idle"
=============================================================================
