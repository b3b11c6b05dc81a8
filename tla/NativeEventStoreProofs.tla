----------------------- MODULE NativeEventStoreProofs -----------------------
(***************************************************************************)
(* The native event store is safe for any number of threads, universes and *)
(* streams and for any requests: its types, one commit per command id,     *)
(* gapless streams, replay in the order of positions, retries that are     *)
(* never refused, and that it implements CommandLog.  The argument rests   *)
(* on the fence: one transaction at a time is past it, so what that one    *)
(* has read of the log is still true when it commits.                      *)
(***************************************************************************)
EXTENDS NativeEventStore, TLAPS

-----------------------------------------------------------------------------
\* The fence is not one of the finer locks.
LEMMA LocksDistinct ==
  ASSUME NEW r \in Requests, NEW a
  PROVE  /\ FenceLock # CommandLock(r)
         /\ FenceLock # UniverseLock(r)
         /\ FenceLock # StreamLock(r, a)
  BY DEF FenceLock, CommandLock, UniverseLock, StreamLock

\* The placeholder of an idle client is a request.
LEMMA NoCallType == NoCall \in Requests
  BY RequestsAssumption DEF NoCall

\* The row append inserts into ru_commits is a commit row.
LEMMA CommitType ==
  ASSUME NEW r \in Requests, NEW p \in Positions
  PROVE  Log!CommitOf(r, p) \in CommitRow
  BY RequestsAssumption DEF Log!CommitOf, CommitRow

\* An event of a commit, named by its stream and its sequence there.
LEMMA EventsMember ==
  ASSUME NEW r \in Requests, NEW p
  PROVE  \A e : e \in Log!EventsOf(r, p) <=>
           \E a \in DOMAIN r.expected :
             \E q \in r.expected[a] .. (r.expected[a] + r.appends[a] - 1) :
               e = [universe |-> r.universe, address |-> a, sequence |-> q, position |-> p]
  BY DEF Log!EventsOf

\* The rows append inserts into ru_events are event rows.
LEMMA EventsType ==
  ASSUME NEW r \in Requests, NEW p \in Positions, DOMAIN r.expected = DOMAIN r.appends
  PROVE  Log!EventsOf(r, p) \subseteq EventRow
  <1>1. \A a \in DOMAIN r.expected : r.expected[a] \in Nat /\ r.appends[a] \in Nat \ {0} /\ a \in Addresses
    BY RequestsAssumption
  <1> QED
    BY <1>1, EventsMember, RequestsAssumption DEF EventRow

\* The stream lengths a commit leaves are natural numbers.
LEMMA AdvancedType ==
  ASSUME NEW r \in Requests, TypeOK, DOMAIN r.expected = DOMAIN r.appends
  PROVE  Log!Advanced(r) \in [Universes -> [Addresses -> Nat]]
  <1>1. \A a \in DOMAIN r.expected : r.expected[a] + r.appends[a] \in Nat
    BY RequestsAssumption
  <1>2. r.universe \in Universes
    BY RequestsAssumption
  <1> QED
    BY <1>1, <1>2 DEF Log!Advanced, TypeOK

\* Every lock append asks for is a lock of the model.
LEMMA LocksType ==
  ASSUME NEW r \in Requests
  PROVE  /\ FenceLock \in Locks
         /\ CommandLock(r) \in Locks
         /\ UniverseLock(r) \in Locks
         /\ \A a \in Addresses : StreamLock(r, a) \in Locks
  BY DEF Locks

-----------------------------------------------------------------------------
\* A call that ends, by an answer, a failure or a crash, keeps every type but
\* that of the acknowledgements.
LEMMA FinishType ==
  ASSUME TypeOK, NEW c \in Clients, Finish(c)
  PROVE  /\ universes' \subseteq Universes
         /\ commits' \subseteq CommitRow
         /\ events' \subseteq EventRow
         /\ next' \in [Universes -> [Addresses -> Nat]]
         /\ sequence' \in Nat
         /\ held' \in [Clients -> SUBSET Locks]
         /\ pc' \in [Clients -> Steps]
         /\ req' \in [Clients -> Requests]
         /\ todo' \in [Clients -> SUBSET Addresses]
         /\ drawn' \in [Clients -> Positions \cup {0}]
  BY NoCallType DEF TypeOK, Finish, Goto, durable, Steps

\* A call that fails keeps the type invariant.
LEMMA FailType ==
  ASSUME TypeOK, NEW c \in Clients, Fail(c)
  PROVE  TypeOK'
  BY FinishType DEF Fail, TypeOK

\* A call answered with a commit row keeps the type invariant.
LEMMA AnswerType ==
  ASSUME TypeOK, NEW c \in Clients, NEW k \in CommitRow, Answer(c, k)
  PROVE  TypeOK'
  BY FinishType DEF Answer, TypeOK

\* What a lookup finds is a durable commit row.
LEMMA ReplayableType ==
  ASSUME TypeOK, NEW r, NEW k \in Replayable(r)
  PROVE  k \in CommitRow /\ k \in commits
  BY DEF TypeOK, Replayable, Prior

\* The empty store is well typed.
LEMMA TypeInit == Init => TypeOK
  BY NoCallType, CrashesAssumption DEF Init, TypeOK, Log!LogInit, Steps

\* Every step keeps the type invariant; COMMIT needs the fence invariant
\* for the position it publishes.
LEMMA TypeStep ==
  ASSUME TypeOK, FenceSerializes, [Next]_vars
  PROVE  TypeOK'
  <1>1. CASE UNCHANGED vars
    BY <1>1 DEF TypeOK, vars
  <1>2. ASSUME NEW u \in Universes, CreateUniverse(u)
        PROVE  TypeOK'
    BY <1>2 DEF CreateUniverse, TypeOK
  <1>3. ASSUME NEW c \in Clients, NEW r \in Requests, Call(c, r)
        PROVE  TypeOK'
    BY <1>3 DEF Call, TypeOK, durable, Goto, Steps
  <1>4. ASSUME NEW c \in Clients, Lookup(c)
        PROVE  TypeOK'
    <2>1. CASE Prior(req[c]) = {} /\ Goto(c, "append")
               /\ UNCHANGED <<durable, acked, sequence, held, req, todo, drawn, crashes>>
      BY <2>1 DEF TypeOK, durable, Goto, Steps
    <2>2. CASE \E k \in Replayable(req[c]) : Answer(c, k)
      BY <2>2, AnswerType, ReplayableType
    <2>3. CASE Fail(c)
      BY <2>3, FailType
    <2> QED
      BY <1>4, <2>1, <2>2, <2>3 DEF Lookup
  <1>5. ASSUME NEW c \in Clients, RefuseCoverage(c) \/ UniverseMissing(c) \/ StaleStream(c)
        PROVE  TypeOK'
    BY <1>5, FailType DEF RefuseCoverage, UniverseMissing, StaleStream
  <1>6. ASSUME NEW c \in Clients, LockFence(c)
        PROVE  TypeOK'
    BY <1>6, LocksType DEF LockFence, Take, TypeOK, durable, Goto, Steps
  <1>7. ASSUME NEW c \in Clients, LockCommand(c)
        PROVE  TypeOK'
    <2>1. CommandLock(req[c]) \in Locks
      BY LocksType DEF TypeOK
    <2> QED
      BY <1>7, <2>1 DEF LockCommand, Take, TypeOK, durable, Goto, Steps
  <1>8. ASSUME NEW c \in Clients, Recheck(c)
        PROVE  TypeOK'
    <2>1. CASE Prior(req[c]) = {} /\ Goto(c, "universe")
               /\ UNCHANGED <<durable, acked, sequence, held, req, todo, drawn, crashes>>
      BY <2>1 DEF TypeOK, durable, Goto, Steps
    <2>2. CASE \E k \in Replayable(req[c]) : Answer(c, k)
      BY <2>2, AnswerType, ReplayableType
    <2>3. CASE Fail(c)
      BY <2>3, FailType
    <2> QED
      BY <1>8, <2>1, <2>2, <2>3 DEF Recheck
  <1>9. ASSUME NEW c \in Clients, LockUniverse(c)
        PROVE  TypeOK'
    <2>1. UniverseLock(req[c]) \in Locks /\ DOMAIN req[c].expected \subseteq Addresses
      BY LocksType, RequestsAssumption DEF TypeOK
    <2> QED
      BY <1>9, <2>1 DEF LockUniverse, Take, TypeOK, durable, Goto, Steps
  <1>10. ASSUME NEW c \in Clients, LockStream(c)
         PROVE  TypeOK'
    <2>1. PICK a \in Addresses :
            /\ Take(c, StreamLock(req[c], a))
            /\ todo' = [todo EXCEPT ![c] = @ \ {a}]
      BY <1>10 DEF LockStream
    <2>2. StreamLock(req[c], a) \in Locks
      BY LocksType DEF TypeOK
    <2> QED
      BY <1>10, <2>1, <2>2 DEF LockStream, Take, TypeOK, durable
  <1>11. ASSUME NEW c \in Clients, InsertCommit(c)
         PROVE  TypeOK'
    BY <1>11 DEF InsertCommit, TypeOK, durable, Goto, Steps
  <1>12. ASSUME NEW c \in Clients, Commit(c)
         PROVE  TypeOK'
    <2>1. /\ req[c] \in Requests
          /\ drawn[c] \in Positions
          /\ DOMAIN req[c].expected = DOMAIN req[c].appends
      BY <1>12 DEF TypeOK, FenceSerializes, Commit, InTransaction
    <2>2. commits' \subseteq CommitRow
      BY <1>12, <2>1, CommitType DEF Commit, TypeOK
    <2>3. events' \subseteq EventRow
      BY <1>12, <2>1, EventsType DEF Commit, TypeOK
    <2>4. next' \in [Universes -> [Addresses -> Nat]]
      BY <1>12, <2>1, AdvancedType DEF Commit
    <2> QED
      BY <1>12, <2>2, <2>3, <2>4 DEF Commit, TypeOK, Goto, Steps
  <1>13. ASSUME NEW c \in Clients, Reply(c)
         PROVE  TypeOK'
    <2>1. Log!CommitOf(req[c], drawn[c]) \in CommitRow
      BY <1>13 DEF Reply, FenceSerializes, TypeOK
    <2> QED
      BY <1>13, <2>1, AnswerType DEF Reply
  <1>14. ASSUME NEW c \in Clients, Crash(c)
         PROVE  TypeOK'
    BY <1>14, FinishType DEF Crash, TypeOK
  <1> QED
    BY <1>1, <1>2, <1>3, <1>4, <1>5, <1>6, <1>7, <1>8, <1>9, <1>10, <1>11,
       <1>12, <1>13, <1>14 DEF Next, Progress

-----------------------------------------------------------------------------
\* Ending a call disturbs nobody else's transaction.
LEMMA FinishFence ==
  ASSUME TypeOK, FenceSerializes, NEW c \in Clients, Finish(c)
  PROVE  FenceSerializes'
  BY DEF TypeOK, FenceSerializes, Finish, Goto, durable, InTransaction, Prior

\* Positions and sequences on record are natural numbers.
LEMMA PositionsNatural ==
  ASSUME TypeOK
  PROVE  /\ sequence \in Nat
         /\ \A k \in commits : k.position \in Nat
         /\ \A e \in events : e.position \in Nat /\ e.sequence \in Nat
  <1>1. commits \subseteq CommitRow /\ events \subseteq EventRow /\ sequence \in Nat
    BY DEF TypeOK
  <1>2. ASSUME NEW k \in CommitRow
        PROVE  k.position \in Nat
    BY PositionsAssumption DEF CommitRow
  <1>3. ASSUME NEW e \in EventRow
        PROVE  e.position \in Nat /\ e.sequence \in Nat
    BY PositionsAssumption DEF EventRow
  <1> QED
    BY <1>1, <1>2, <1>3

\* Nobody is past the fence of the empty store.
LEMMA FenceInit == Init => FenceSerializes
  BY DEF Init, FenceSerializes, InTransaction, Log!LogInit

\* Every step keeps the fence invariant: whoever is past the fence is alone,
\* so nobody can change what its transaction has read.
LEMMA FenceStep ==
  ASSUME TypeOK, FenceSerializes, PositionsDrawn, [Next]_vars
  PROVE  FenceSerializes'
  <1>1. CASE UNCHANGED vars
    BY <1>1 DEF FenceSerializes, vars, InTransaction, Prior
  <1>2. ASSUME NEW u \in Universes, CreateUniverse(u)
        PROVE  FenceSerializes'
    BY <1>2 DEF CreateUniverse, FenceSerializes, InTransaction, Prior
  <1>3. ASSUME NEW c \in Clients, NEW r \in Requests, Call(c, r)
        PROVE  FenceSerializes'
    BY <1>3 DEF Call, TypeOK, FenceSerializes, durable, Goto, InTransaction, Prior
  <1>4. ASSUME NEW c \in Clients, Lookup(c)
        PROVE  FenceSerializes'
    <2>1. CASE Prior(req[c]) = {} /\ Goto(c, "append")
               /\ UNCHANGED <<durable, acked, sequence, held, req, todo, drawn, crashes>>
      BY <1>4, <2>1 DEF Lookup, TypeOK, FenceSerializes, durable, Goto, InTransaction, Prior
    <2>2. CASE Finish(c)
      BY <2>2, FinishFence
    <2> QED
      BY <1>4, <2>1, <2>2 DEF Lookup, Answer, Fail
  <1>5. ASSUME NEW c \in Clients,
               RefuseCoverage(c) \/ UniverseMissing(c) \/ StaleStream(c) \/ Reply(c) \/ Crash(c)
        PROVE  FenceSerializes'
    BY <1>5, FinishFence
       DEF RefuseCoverage, UniverseMissing, StaleStream, Reply, Crash, Fail, Answer
  <1>6. ASSUME NEW c \in Clients, LockFence(c)
        PROVE  FenceSerializes'
    BY <1>6 DEF LockFence, Take, Free, TypeOK, FenceSerializes, durable, Goto, InTransaction, Prior
  <1>7. ASSUME NEW c \in Clients, LockCommand(c)
        PROVE  FenceSerializes'
    <2>1. FenceLock # CommandLock(req[c])
      BY LocksDistinct DEF TypeOK
    <2> QED
      BY <1>7, <2>1 DEF LockCommand, Take, TypeOK, FenceSerializes, durable, Goto, InTransaction, Prior
  <1>8. ASSUME NEW c \in Clients, Recheck(c)
        PROVE  FenceSerializes'
    <2>1. CASE Prior(req[c]) = {} /\ Goto(c, "universe")
               /\ UNCHANGED <<durable, acked, sequence, held, req, todo, drawn, crashes>>
      BY <1>8, <2>1 DEF Recheck, TypeOK, FenceSerializes, durable, Goto, InTransaction, Prior
    <2>2. CASE Finish(c)
      BY <2>2, FinishFence
    <2> QED
      BY <1>8, <2>1, <2>2 DEF Recheck, Answer, Fail
  <1>9. ASSUME NEW c \in Clients, LockUniverse(c)
        PROVE  FenceSerializes'
    <2>1. FenceLock # UniverseLock(req[c])
      BY LocksDistinct DEF TypeOK
    <2> QED
      BY <1>9, <2>1 DEF LockUniverse, Take, TypeOK, FenceSerializes, durable, Goto, InTransaction, Prior
  <1>10. ASSUME NEW c \in Clients, LockStream(c)
         PROVE  FenceSerializes'
    <2>1. PICK a \in Addresses :
            /\ next[req[c].universe][a] = req[c].expected[a]
            /\ Take(c, StreamLock(req[c], a))
            /\ todo' = [todo EXCEPT ![c] = @ \ {a}]
      BY <1>10 DEF LockStream
    <2>2. FenceLock # StreamLock(req[c], a)
      BY LocksDistinct DEF TypeOK
    <2> QED
      BY <1>10, <2>1, <2>2
         DEF LockStream, Take, TypeOK, FenceSerializes, durable, InTransaction, Prior
  <1>11. ASSUME NEW c \in Clients, InsertCommit(c)
         PROVE  FenceSerializes'
    <2>1. \A d \in Clients : InTransaction(d) => d = c
      BY <1>11 DEF InsertCommit, FenceSerializes, InTransaction
    <2>2. \A k \in commits : k.position < sequence + 1
      BY PositionsNatural DEF PositionsDrawn
    <2> QED
      BY <1>11, <2>1, <2>2
         DEF InsertCommit, TypeOK, FenceSerializes, durable, Goto, InTransaction, Prior
  <1>12. ASSUME NEW c \in Clients, Commit(c)
         PROVE  FenceSerializes'
    <2>1. \A d \in Clients : InTransaction(d) => d = c
      BY <1>12 DEF Commit, FenceSerializes, InTransaction
    <2> QED
      BY <1>12, <2>1 DEF Commit, TypeOK, FenceSerializes, Goto, InTransaction, Prior
  <1> QED
    BY <1>1, <1>2, <1>3, <1>4, <1>5, <1>6, <1>7, <1>8, <1>9, <1>10, <1>11, <1>12
       DEF Next, Progress

-----------------------------------------------------------------------------
\* COMMIT is the only step that changes a durable table of the log.
LEMMA OnlyCommitPublishes ==
  ASSUME TypeOK, [Next]_vars
  PROVE  \/ /\ UNCHANGED <<commits, events, next>>
            /\ sequence' \in {sequence, sequence + 1}
         \/ \E c \in Clients : Commit(c)
  <1>1. ASSUME NEW c \in Clients, Progress(c), ~Commit(c)
        PROVE  /\ UNCHANGED <<commits, events, next>>
               /\ sequence' \in {sequence, sequence + 1}
    BY <1>1 DEF Progress, Lookup, RefuseCoverage, LockFence, LockCommand, Recheck,
                LockUniverse, UniverseMissing, LockStream, StaleStream, InsertCommit,
                Reply, Fail, Answer, Finish, durable
  <1> QED
    BY <1>1 DEF Next, vars, CreateUniverse, Call, Crash, Finish, durable

\* What a Commit step finds: the guards the abstract Publish asks for.
LEMMA CommitFinds ==
  ASSUME TypeOK, FenceSerializes, NEW c \in Clients, Commit(c)
  PROVE  /\ req[c] \in Requests
         /\ drawn[c] \in Positions
         /\ drawn[c] = sequence
         /\ sequence' = sequence
         /\ DOMAIN req[c].expected = DOMAIN req[c].appends
         /\ Prior(req[c]) = {}
         /\ \A k \in commits : k.position < drawn[c]
         /\ \A a \in DOMAIN req[c].expected : next[req[c].universe][a] = req[c].expected[a]
  BY DEF TypeOK, FenceSerializes, InTransaction, Commit

\* No step leaves a position above the identity sequence or an event without
\* its commit.
LEMMA PositionsStep ==
  ASSUME TypeOK, FenceSerializes, PositionsDrawn, [Next]_vars
  PROVE  PositionsDrawn'
  <1>1. CASE UNCHANGED <<commits, events, next>> /\ sequence' \in {sequence, sequence + 1}
    BY <1>1, PositionsNatural DEF PositionsDrawn
  <1>2. ASSUME NEW c \in Clients, Commit(c)
        PROVE  PositionsDrawn'
    <2>1. drawn[c] = sequence /\ sequence' = sequence /\ req[c] \in Requests
      BY <1>2, CommitFinds
    <2>2. commits' = commits \cup {Log!CommitOf(req[c], sequence)}
      BY <1>2, <2>1 DEF Commit
    <2>3. Log!CommitOf(req[c], sequence).position = sequence
      BY DEF Log!CommitOf
    <2>4. \A e \in events' : e \in events \/ e.position = sequence
      BY <1>2, <2>1, EventsMember DEF Commit
    <2> QED
      BY <2>1, <2>2, <2>3, <2>4, PositionsNatural DEF PositionsDrawn
  <1> QED
    BY <1>1, <1>2, OnlyCommitPublishes

\* A commit that is added has a command id no durable commit has.
LEMMA CommandOnceStep ==
  ASSUME TypeOK, FenceSerializes, CommandOnce, [Next]_vars
  PROVE  CommandOnce'
  <1>1. CASE UNCHANGED <<commits, events, next>>
    BY <1>1 DEF CommandOnce
  <1>2. ASSUME NEW c \in Clients, Commit(c)
        PROVE  CommandOnce'
    <2> DEFINE n == Log!CommitOf(req[c], drawn[c])
    <2>1. commits' = commits \cup {n}
      BY <1>2 DEF Commit
    <2>2. n.universe = req[c].universe /\ n.command = req[c].command
      BY DEF Log!CommitOf
    <2>3. \A k \in commits : ~(k.universe = req[c].universe /\ k.command = req[c].command)
      BY <1>2, CommitFinds DEF Prior, Log!SameCommand
    <2> HIDE DEF n
    <2> QED
      BY <2>1, <2>2, <2>3 DEF CommandOnce
  <1> QED
    BY <1>1, <1>2, OnlyCommitPublishes

-----------------------------------------------------------------------------
\* The events of one stream.
Stream(u, a) == {e \in events : e.universe = u /\ e.address = a}

\* The history of one stream: what StreamHistory says of it.
History(u, a) ==
  /\ \A e \in Stream(u, a) : e.sequence < next[u][a]
  /\ \A q \in Nat : q < next[u][a] => \E e \in Stream(u, a) : e.sequence = q
  /\ \A e, f \in Stream(u, a) :
       /\ e.sequence = f.sequence => e = f
       /\ e.position < f.position => e.sequence < f.sequence

\* The history property stream by stream, without the set of sequences.
LEMMA StreamHistoryPointwise ==
  ASSUME TypeOK
  PROVE  StreamHistory <=> \A u \in Universes, a \in Addresses : History(u, a)
  <1>1. ASSUME NEW u \in Universes, NEW a \in Addresses
        PROVE  {e.sequence : e \in Stream(u, a)} = 0 .. (next[u][a] - 1)
               <=> /\ \A e \in Stream(u, a) : e.sequence < next[u][a]
                   /\ \A q \in Nat : q < next[u][a] => \E e \in Stream(u, a) : e.sequence = q
    <2>1. next[u][a] \in Nat
      BY DEF TypeOK
    <2>2. \A e \in Stream(u, a) : e.sequence \in Nat
      BY PositionsNatural DEF Stream
    <2>3. \A q : q \in 0 .. (next[u][a] - 1) <=> q \in Nat /\ q < next[u][a]
      BY <2>1
    <2> QED
      BY <2>1, <2>2, <2>3
  <1> QED
    BY <1>1 DEF StreamHistory, History, Stream

\* What a commit adds to one stream: nothing, unless the request names the
\* stream; else the sequences from its expected length on, at one position.
LEMMA CommitExtends ==
  ASSUME TypeOK, FenceSerializes, NEW c \in Clients, Commit(c),
         NEW u \in Universes, NEW a \in Addresses
  PROVE  \/ /\ Stream(u, a)' = Stream(u, a)
            /\ next'[u][a] = next[u][a]
         \/ \E m \in Nat \ {0} :
              /\ next'[u][a] = next[u][a] + m
              /\ \A e : e \in Stream(u, a)' <=>
                   \/ e \in Stream(u, a)
                   \/ \E q \in next[u][a] .. (next[u][a] + m - 1) :
                        e = [universe |-> u, address |-> a, sequence |-> q, position |-> drawn[c]]
  <1> DEFINE r == req[c]
  <1>1. /\ r \in Requests
        /\ DOMAIN r.expected = DOMAIN r.appends
        /\ \A b \in DOMAIN r.expected : next[r.universe][b] = r.expected[b]
    BY CommitFinds
  <1>2. \A b \in DOMAIN r.expected : r.expected[b] \in Nat /\ r.appends[b] \in Nat \ {0} /\ b \in Addresses
    BY <1>1, RequestsAssumption
  <1>3. /\ events' = events \cup Log!EventsOf(r, drawn[c])
        /\ next' = Log!Advanced(r)
    BY DEF Commit
  <1>4. r.universe \in Universes
    BY <1>1, RequestsAssumption
  <1> HIDE DEF r
  <1>5. next'[u][a] = IF u = r.universe /\ a \in DOMAIN r.expected
                        THEN r.expected[a] + r.appends[a] ELSE next[u][a]
    BY <1>3, <1>4 DEF Log!Advanced, TypeOK
  <1>6. \A e : e \in Log!EventsOf(r, drawn[c]) /\ e.universe = u /\ e.address = a <=>
          /\ u = r.universe
          /\ a \in DOMAIN r.expected
          /\ \E q \in r.expected[a] .. (r.expected[a] + r.appends[a] - 1) :
               e = [universe |-> u, address |-> a, sequence |-> q, position |-> drawn[c]]
    BY <1>1, EventsMember
  <1>7. \A e : e \in Stream(u, a)' <=>
          e \in Stream(u, a) \/ (e \in Log!EventsOf(r, drawn[c]) /\ e.universe = u /\ e.address = a)
    BY <1>3 DEF Stream
  <1>8. CASE u = r.universe /\ a \in DOMAIN r.expected
    <2>1. next[u][a] = r.expected[a]
      BY <1>1, <1>8
    <2>2. next'[u][a] = next[u][a] + r.appends[a]
      BY <1>5, <1>8, <2>1
    <2>3. \A e : e \in Stream(u, a)' <=>
            \/ e \in Stream(u, a)
            \/ \E q \in next[u][a] .. (next[u][a] + r.appends[a] - 1) :
                 e = [universe |-> u, address |-> a, sequence |-> q, position |-> drawn[c]]
      BY <1>6, <1>7, <1>8, <2>1
    <2> QED
      BY <1>2, <1>8, <2>2, <2>3
  <1>9. CASE ~(u = r.universe /\ a \in DOMAIN r.expected)
    <2>1. \A e : e \in Stream(u, a)' <=> e \in Stream(u, a)
      BY <1>6, <1>7, <1>9
    <2>2. Stream(u, a)' = Stream(u, a)
      BY <2>1 DEF Stream
    <2> QED
      BY <1>5, <1>9, <2>2
  <1> QED
    BY <1>8, <1>9

\* A commit extends every stream it names without a gap, above all that is
\* there.
LEMMA StreamHistoryStep ==
  ASSUME TypeOK, TypeOK', FenceSerializes, PositionsDrawn, StreamHistory, [Next]_vars
  PROVE  StreamHistory'
  <1>1. CASE UNCHANGED <<commits, events, next>>
    BY <1>1 DEF StreamHistory
  <1>2. ASSUME NEW c \in Clients, Commit(c), NEW u \in Universes, NEW a \in Addresses
        PROVE  History(u, a)'
    <2>1. History(u, a)
      BY StreamHistoryPointwise
    <2>2. CASE Stream(u, a)' = Stream(u, a) /\ next'[u][a] = next[u][a]
      BY <2>1, <2>2 DEF History
    <2>3. ASSUME NEW m \in Nat \ {0},
                 next'[u][a] = next[u][a] + m,
                 \A e : e \in Stream(u, a)' <=>
                   \/ e \in Stream(u, a)
                   \/ \E q \in next[u][a] .. (next[u][a] + m - 1) :
                        e = [universe |-> u, address |-> a, sequence |-> q, position |-> drawn[c]]
          PROVE  History(u, a)'
      <3> DEFINE n == next[u][a]
      <3> DEFINE E(q) == [universe |-> u, address |-> a, sequence |-> q, position |-> drawn[c]]
      <3> DEFINE old == Stream(u, a)
      <3> DEFINE new == Stream(u, a)'
      <3>1. n \in Nat /\ drawn[c] \in Nat
        BY CommitFinds, <1>2, PositionsAssumption DEF TypeOK
      <3>2. \A e \in old : e.sequence \in Nat /\ e.sequence < n /\ e.position \in Nat /\ e.position < drawn[c]
        <4>1. \A e \in old : e \in events
          BY DEF Stream
        <4>2. \A e \in events : e.position < drawn[c]
          BY <1>2, CommitFinds DEF PositionsDrawn
        <4> QED
          BY <2>1, <4>1, <4>2, PositionsNatural DEF History
      <3>3. \A q : E(q).sequence = q /\ E(q).position = drawn[c]
        OBVIOUS
      <3>4. \A e : e \in new <=> e \in old \/ \E q \in n .. (n + m - 1) : e = E(q)
        BY <2>3
      <3>5. n' = n + m
        BY <2>3
      <3>6. /\ \A q \in Nat : q < n => \E e \in old : e.sequence = q
            /\ \A e, f \in old : /\ e.sequence = f.sequence => e = f
                                 /\ e.position < f.position => e.sequence < f.sequence
        BY <2>1 DEF History
      <3> HIDE DEF E
      <3>7. SUFFICES /\ \A e \in new : e.sequence < n + m
                     /\ \A q \in Nat : q < n + m => \E e \in new : e.sequence = q
                     /\ \A e, f \in new : /\ e.sequence = f.sequence => e = f
                                          /\ e.position < f.position => e.sequence < f.sequence
        BY <3>5 DEF History
      <3> HIDE DEF n, old, new
      <3>8. \A e \in new : e \in old \/ (e.sequence \in Nat /\ n <= e.sequence /\ e.sequence < n + m
                                       /\ e.position = drawn[c] /\ e = E(e.sequence))
        BY <3>1, <3>3, <3>4
      <3>9. \A q \in Nat : q < n + m => \E e \in new : e.sequence = q
        <4>1. ASSUME NEW q \in Nat, q < n
              PROVE  \E e \in new : e.sequence = q
          BY <4>1, <3>4, <3>6
        <4>2. ASSUME NEW q \in Nat, n <= q, q < n + m
              PROVE  \E e \in new : e.sequence = q
          <5>1. E(q) \in new
            BY <4>2, <3>1, <3>4
          <5> QED
            BY <5>1, <3>3
        <4> QED
          BY <3>1, <4>1, <4>2
      <3> QED
        BY <3>1, <3>2, <3>6, <3>8, <3>9
    <2> QED
      BY <1>2, <2>2, <2>3, CommitExtends
  <1>3. ASSUME NEW c \in Clients, Commit(c)
        PROVE  StreamHistory'
    <2>1. (StreamHistory <=> \A u \in Universes, a \in Addresses : History(u, a))'
      BY StreamHistoryPointwise, PTL
    <2> QED
      BY <1>2, <1>3, <2>1
  <1> QED
    BY <1>1, <1>3, OnlyCommitPublishes

-----------------------------------------------------------------------------
\* The inductive invariant.  None of the safety invariants but the type
\* invariant and FenceSerializes could be proved alone: a commit keeps them
\* because of what its transaction has read under the fence.
IInv ==
  /\ TypeOK
  /\ FenceSerializes
  /\ PositionsDrawn
  /\ CommandOnce
  /\ StreamHistory

\* The inductive invariant holds of the empty store.
LEMMA IInvInit == Init => IInv
  <1> SUFFICES ASSUME Init
               PROVE  IInv
    OBVIOUS
  <1>1. commits = {} /\ events = {} /\ next = [u \in Universes |-> [a \in Addresses |-> 0]]
    BY DEF Init, Log!LogInit
  <1>2. StreamHistory
    <2>1. \A u \in Universes, a \in Addresses : next[u][a] = 0 /\ Stream(u, a) = {}
      BY <1>1 DEF Stream
    <2> QED
      BY <2>1, TypeInit, StreamHistoryPointwise DEF History
  <1> QED
    BY <1>1, <1>2, TypeInit, FenceInit DEF IInv, PositionsDrawn, CommandOnce

\* Every step keeps the inductive invariant.
LEMMA IInvStep ==
  ASSUME IInv, [Next]_vars
  PROVE  IInv'
  <1>1. TypeOK'
    BY TypeStep DEF IInv
  <1>2. FenceSerializes' /\ PositionsDrawn' /\ CommandOnce'
    BY FenceStep, PositionsStep, CommandOnceStep DEF IInv
  <1>3. StreamHistory'
    BY <1>1, StreamHistoryStep DEF IInv
  <1> QED
    BY <1>1, <1>2, <1>3 DEF IInv

\* The inductive invariant holds in every reachable state.
THEOREM Invariance == Spec => []IInv
  BY IInvInit, IInvStep, PTL DEF Spec

\* Every variable keeps its type, for any sets of clients and requests.
THEOREM TypeCorrect == Spec => []TypeOK
  <1>1. IInv => TypeOK
    BY DEF IInv
  <1> QED
    BY <1>1, Invariance, PTL

\* append never records a command id twice in a universe.
THEOREM CommandOnceHolds == Spec => []CommandOnce
  <1>1. IInv => CommandOnce
    BY DEF IInv
  <1> QED
    BY <1>1, Invariance, PTL

\* append leaves every stream a gapless history in the order of the log.
THEOREM StreamHistoryHolds == Spec => []StreamHistory
  <1>1. IInv => StreamHistory
    BY DEF IInv
  <1> QED
    BY <1>1, Invariance, PTL

\* What a transaction has read past the fence stays true until it ends.
THEOREM FenceSerializesHolds == Spec => []FenceSerializes
  <1>1. IInv => FenceSerializes
    BY DEF IInv
  <1> QED
    BY <1>1, Invariance, PTL

-----------------------------------------------------------------------------
\* Whatever a step makes visible lies above everything visible before it: the
\* comment on the fence in append, which every replay cursor relies on.
THEOREM ReplayOrderHolds == Spec => ReplayOrder
  <1> DEFINE A == /\ commits \subseteq commits'
                  /\ events \subseteq events'
                  /\ \A k \in commits' \ commits, l \in commits : l.position < k.position
                  /\ \A e \in events' \ events, f \in events : f.position < e.position
  <1>1. ASSUME IInv, [Next]_vars
        PROVE  A
    <2>1. CASE UNCHANGED <<commits, events, next>>
      BY <2>1
    <2>2. ASSUME NEW c \in Clients, Commit(c)
          PROVE  A
      <3>1. /\ req[c] \in Requests
            /\ \A k \in commits : k.position < drawn[c]
        BY <1>1, <2>2, CommitFinds DEF IInv
      <3>2. \A k \in commits' \ commits : k.position = drawn[c]
        BY <2>2 DEF Commit, Log!CommitOf
      <3>3. \A e \in events' \ events : e.position = drawn[c]
        BY <2>2, <3>1, EventsMember DEF Commit
      <3>4. \A e \in events : e.position < drawn[c]
        BY <1>1, <3>1 DEF IInv, PositionsDrawn
      <3> QED
        BY <2>2, <3>1, <3>2, <3>3, <3>4 DEF Commit
    <2> QED
      BY <1>1, <2>1, <2>2, OnlyCommitPublishes DEF IInv
  <1>2. IInv /\ [Next]_vars => [A]_vars
    BY <1>1
  <1> QED
    BY <1>2, Invariance, PTL DEF Spec, ReplayOrder

\* A request whose command is durable with its fingerprint is never refused:
\* the recheck under the command lock answers it before any other check.
THEOREM RetryNeverRefusedHolds == Spec => RetryNeverRefused
  <1> DEFINE A == \A c \in Clients :
                    StaleStream(c) \/ UniverseMissing(c) => Replayable(req[c]) = {}
  <1>1. ASSUME IInv
        PROVE  A
    BY <1>1 DEF IInv, FenceSerializes, StaleStream, UniverseMissing, Replayable
  <1>2. IInv /\ [Next]_vars => [A]_vars
    BY <1>1
  <1> QED
    BY <1>2, Invariance, PTL DEF Spec, RetryNeverRefused

-----------------------------------------------------------------------------
\* A call that ends with an answer is a step of the log that acknowledges.
LEMMA AnswerAcknowledges ==
  ASSUME NEW c \in Clients, NEW k \in commits, Answer(c, k)
  PROVE  Log!LogNext
  BY DEF Answer, Finish, durable, Log!LogNext, Log!Acknowledge

\* The adapter implements the abstract commit log: COMMIT is Publish, every
\* answer is Acknowledge, and all other steps leave the log alone.
THEOREM Refinement == Spec => ImplementsCommandLog
  <1>1. Init => Log!LogInit
    BY DEF Init
  <1>2. ASSUME IInv, [Next]_vars
        PROVE  [Log!LogNext]_(Log!logVars)
    <2>1. ASSUME NEW c \in Clients, Commit(c)
          PROVE  Log!LogNext
      <3>1. Log!Publish(req[c], drawn[c])
        BY <1>2, <2>1, CommitFinds DEF IInv, Commit, Log!Publish, Prior
      <3> QED
        BY <1>2, <2>1, <3>1, CommitFinds DEF IInv, Log!LogNext
    <2>2. ASSUME NEW c \in Clients, Lookup(c) \/ Recheck(c)
          PROVE  [Log!LogNext]_(Log!logVars)
      <3>1. ASSUME NEW k \in Replayable(req[c]), Answer(c, k)
            PROVE  Log!LogNext
        BY <3>1, AnswerAcknowledges DEF Replayable, Prior
      <3> QED
        BY <2>2, <3>1 DEF Lookup, Recheck, Fail, Finish, durable, Log!logVars
    <2>3. ASSUME NEW c \in Clients, Reply(c)
          PROVE  Log!LogNext
      BY <1>2, <2>3, AnswerAcknowledges DEF Reply, IInv, FenceSerializes
    <2>4. ASSUME NEW c \in Clients, Progress(c), ~Commit(c), ~Lookup(c), ~Recheck(c), ~Reply(c)
          PROVE  UNCHANGED Log!logVars
      BY <2>4 DEF Progress, RefuseCoverage, LockFence, LockCommand, LockUniverse,
                  UniverseMissing, LockStream, StaleStream, InsertCommit, Fail, Finish,
                  durable, Log!logVars
    <2>5. ASSUME NEW c \in Clients, NEW r \in Requests, Call(c, r)
          PROVE  UNCHANGED Log!logVars
      BY <2>5 DEF Call, durable, Log!logVars
    <2>6. ASSUME NEW c \in Clients, Crash(c)
          PROVE  UNCHANGED Log!logVars
      BY <2>6 DEF Crash, Finish, durable, Log!logVars
    <2>7. ASSUME NEW u \in Universes, CreateUniverse(u)
          PROVE  UNCHANGED Log!logVars
      BY <2>7 DEF CreateUniverse, Log!logVars
    <2>8. CASE UNCHANGED vars
      BY <2>8 DEF vars, Log!logVars
    <2> QED
      BY <1>2, <2>1, <2>2, <2>3, <2>4, <2>5, <2>6, <2>7, <2>8 DEF Next
  <1> QED
    BY <1>1, <1>2, Invariance, PTL DEF Spec, ImplementsCommandLog, Log!LogSpec
=============================================================================
