---------------------------- MODULE WorkspaceProofs ----------------------------
(***************************************************************************)
(* A workspace moves as allowed, the versions of a proposition form a      *)
(* chain and a link is detached once, for any number of users, threads,    *)
(* workspaces, directions and links.  The handlers check and copy what     *)
(* they read before they append; the proof shows that whoever still holds  *)
(* the length of its stream has read what is still so.  A direction that   *)
(* is born from a conclusion has its link and its crystal, and a crystal   *)
(* its conclusion, although the streams they rest on are those of others.  *)
(***************************************************************************)
EXTENDS Workspace, TLAPS

\* The part of the type invariant the argument needs.
Shapes ==
  /\ next \in [{"universe"} -> [Addresses -> Nat]]
  /\ intent \in [Commands -> Requests]
  /\ pc \in [Threads -> {"idle", "read", "append"}]
  /\ call \in [Threads -> Commands \cup {None}]
  /\ DOMAIN state = Threads
  /\ \A t \in Threads : pc[t] # "idle" => call[t] \in Commands /\ intent[call[t]].op # None

\* Every event lies below the length of its stream; detachments are of links.
Bounded ==
  \A f \in facts :
    /\ f.command \in Commands
    /\ f.at \in Addresses /\ f.sequence \in Nat /\ f.sequence < Length(f.at)
    /\ f.type = "workspace_direction_detached" => f.at \in {"link"} \X Commands

History == Bounded /\ PositionsFollowTransitions /\ RephrasingsChain /\ DetachedIsFinal

\* The kind of stream an operation that creates none appends to.
KindOf(op) ==
  IF op = "detach" THEN "link" ELSE IF op \in DirectionOps THEN "direction" ELSE "workspace"

\* An intent names streams of its own or an existing target of the right kind, and
\* its expected sequence has been the length of its stream.
Behind(k, r) ==
  /\ r.command = k
  /\ r.op = None => \A kind \in Kinds : Length(<<kind, k>>) = 0
  /\ r.op \in DOMAIN Creates => r.expected = 0
  /\ r.op \notin DOMAIN Creates \cup {None} =>
       /\ r.target \in {KindOf(r.op)} \X (Commands \ {k})
       /\ Exists(r.target)
  /\ r.op # None => r.expected <= Length(Stream(r))

IntentsBehind == \A k \in Commands : \A r \in {intent[k]} : Behind(k, r)

\* What a handler has checked and copied is what the log says.
Confirmed(r, s) ==
  /\ r.op \in PositionOps => Position(r.target) \in AllowedPositionTransitions[r.op]
  /\ r.op = "detach" => ~Detached(r.target)
  /\ r.op = "rephrase" => s.version = VersionBefore(r.target, Length(r.target))

\* Whoever holds the length of its stream has read what is still so.
Current ==
  \A t \in Threads : \A r \in {Request(t)}, s \in {state[t]} :
    pc[t] = "append" /\ r.expected = Length(Stream(r)) => Confirmed(r, s)

WInv == Shapes /\ IntentsBehind /\ Current /\ History

-----------------------------------------------------------------------------
\* The invariant holds before the first command.
LEMMA WInvInit == Init => WInv
  <1> SUFFICES ASSUME Init
               PROVE  WInv
    OBVIOUS
  <1>1. \A a \in Addresses : Length(a) = 0
    BY DEF Init, Length
  <1>2. \A k \in Commands : Unissued(k) \in Requests
    BY DEF Unissued, Requests
  <1>3. Shapes
    BY <1>2 DEF Init, Shapes
  <1>4. IntentsBehind
    <2>1. \A k \in Commands : intent[k].command = k /\ intent[k].op = None
      BY DEF Init, Unissued
    <2> QED
      BY <1>1, <2>1 DEF IntentsBehind, Behind, Addresses, Creates, None
  <1>5. Current
    BY DEF Init, Current
  <1>6. History
    BY DEF Init, History, Bounded, PositionsFollowTransitions, RephrasingsChain, DetachedIsFinal, Of
  <1> QED
    BY <1>3, <1>4, <1>5, <1>6 DEF WInv

-----------------------------------------------------------------------------
\* The steps that leave the log alone keep what is said of the log.
LEMMA LogUnchanged ==
  ASSUME UNCHANGED durable
  PROVE  /\ \A a : Length(a)' = Length(a)
         /\ \A a : Exists(a)' = Exists(a)
         /\ \A a : Detached(a)' = Detached(a)
         /\ \A a : Position(a)' = Position(a)
         /\ \A a, n : VersionBefore(a, n)' = VersionBefore(a, n)
         /\ History => History'
  <1>1. \A a : Length(a)' = Length(a) /\ Exists(a)' = Exists(a) /\ Detached(a)' = Detached(a)
    BY DEF durable, Length, Exists, Detached
  <1>2. \A a, n, types : Before(a, n, types)' = Before(a, n, types)
    BY DEF durable, Before
  <1>3. \A a, n : PositionBefore(a, n)' = PositionBefore(a, n)
    <2> SUFFICES ASSUME NEW a, NEW n
                 PROVE  PositionBefore(a, n)' = PositionBefore(a, n)
      OBVIOUS
    <2>1. Before(a, n, DOMAIN PositionAfter)' = Before(a, n, DOMAIN PositionAfter)
      BY <1>2
    <2> QED
      BY <2>1 DEF PositionBefore
  <1>4. \A a, n : VersionBefore(a, n)' = VersionBefore(a, n)
    BY <1>2 DEF VersionBefore, Latest
  <1>5. \A a : Position(a)' = Position(a)
    BY <1>1, <1>3 DEF Position
  <1>6. History => History'
    BY <1>1, <1>3, <1>4 DEF durable, History, Bounded, PositionsFollowTransitions,
                            RephrasingsChain, DetachedIsFinal, Of
  <1> QED
    BY <1>1, <1>4, <1>5, <1>6

\* Nor do they touch what an intent was bound to.
LEMMA IntentsKept ==
  ASSUME IntentsBehind, UNCHANGED durable, UNCHANGED intent
  PROVE  IntentsBehind'
  <1> SUFFICES ASSUME NEW k \in Commands, NEW r, r = intent'[k]
               PROVE  Behind(k, r)'
    BY DEF IntentsBehind
  <1>1. Behind(k, r)
    BY DEF IntentsBehind
  <1> QED
    BY <1>1, LogUnchanged DEF Behind

\* A step of one handler that leaves the log alone keeps the invariant if whoever
\* goes on to append has what it read confirmed.
LEMMA HandlerStep ==
  ASSUME WInv, NEW t \in Threads, UNCHANGED <<durable, intent>>,
         pc' \in [Threads -> {"idle", "read", "append"}],
         call' \in [Threads -> Commands \cup {None}],
         DOMAIN state' = Threads,
         \A u \in Threads \ {t} : pc'[u] = pc[u] /\ call'[u] = call[u] /\ state'[u] = state[u],
         pc'[t] # "idle" => call'[t] \in Commands /\ intent[call'[t]].op # None,
         pc'[t] = "append" => Confirmed(intent[call'[t]], state'[t])
  PROVE  WInv'
  <1>1. Shapes'
    BY DEF WInv, Shapes, durable
  <1>2. IntentsBehind'
    BY IntentsKept DEF WInv
  <1>3. Current'
    <2> SUFFICES ASSUME NEW u \in Threads, NEW r, r = Request(u)', NEW s, s = state'[u],
                        pc'[u] = "append", r.expected = Length(Stream(r))'
                 PROVE  Confirmed(r, s)'
      BY DEF Current
    <2>1. Confirmed(r, s)
      <3>1. CASE u = t
        BY <3>1 DEF Request
      <3>2. CASE u # t
        <4>1. r = Request(u) /\ s = state[u] /\ pc[u] = "append"
          BY <3>2 DEF Request
        <4>2. r.expected = Length(Stream(r))
          BY LogUnchanged
        <4> QED
          BY <4>1, <4>2 DEF WInv, Current
      <3> QED
        BY <3>1, <3>2
    <2> QED
      BY <2>1, LogUnchanged DEF Confirmed
  <1> QED
    BY <1>1, <1>2, <1>3, LogUnchanged DEF WInv

\* An answer, a refusal and a lost thread leave the log alone.
LEMMA EndStep ==
  ASSUME WInv, NEW t \in Threads, End(t), UNCHANGED durable
  PROVE  WInv'
  BY HandlerStep DEF End, WInv, Shapes, None

\* A request that arrives, the first time or again, keeps the invariant.
LEMMA SendStep ==
  ASSUME WInv, NEW t \in Threads, NEW k \in Commands, Send(t, k)
  PROVE  WInv'
  BY HandlerStep DEF Send, WInv, Shapes

\* A handler that reads the log goes on only with what the log confirms.
LEMMA ReadStep ==
  ASSUME WInv, NEW t \in Threads, Read(t)
  PROVE  WInv'
  <1>1. pc[t] = "read" /\ UNCHANGED <<durable, intent, call>> /\ pc' = [pc EXCEPT ![t] = "append"]
    BY DEF Read
  <1>2. Request(t) = intent[call'[t]]
    BY <1>1 DEF Request
  <1>3. Confirmed(Request(t), state'[t])
    BY DEF Read, Admissible, Confirmed, WInv, Shapes
  <1>4. DOMAIN state' = Threads /\ \A u \in Threads \ {t} : state'[u] = state[u]
    BY DEF Read, WInv, Shapes
  <1> QED
    BY <1>1, <1>2, <1>3, <1>4, HandlerStep DEF WInv, Shapes

-----------------------------------------------------------------------------
\* The stream of an intent is an address.
LEMMA StreamType ==
  ASSUME NEW k \in Commands, NEW r \in Requests, Behind(k, r), r.op # None
  PROVE  Stream(r) \in Addresses
  <1>1. CASE r.op \in DOMAIN Creates
    <2>1. Creates[r.op] \in Kinds
      BY <1>1 DEF Creates, Kinds
    <2> QED
      BY <1>1, <2>1 DEF Stream, Own, Addresses, Requests
  <1>2. CASE r.op \notin DOMAIN Creates
    BY <1>2 DEF Stream, Behind, Addresses, Kinds, KindOf
  <1> QED
    BY <1>1, <1>2

\* An intent is bound to what the screen shows.
LEMMA IssueStep ==
  ASSUME WInv, NEW k \in Commands, NEW op \in Ops, Issue(k, op)
  PROVE  WInv'
  <1>1. PICK target \in Targets(op), other \in Others(op), ref \in Refs(op) :
          intent' = [intent EXCEPT ![k] =
                       [Draft(k, op, target, other, ref) EXCEPT
                          !.expected = Length(Stream(Draft(k, op, target, other, ref)))]]
    BY DEF Issue
  <1> DEFINE d == Draft(k, op, target, other, ref)
  <1>2. intent[k].op = None /\ UNCHANGED <<durable, pc, call, state>>
    BY DEF Issue
  <1>3. /\ d = [command |-> k, op |-> op, target |-> target, other |-> other,
                ref |-> ref, expected |-> 0]
        /\ op # None
    BY DEF Draft, None, Ops, WorkspaceOps, DirectionOps, PositionOps, AllowedPositionTransitions
  <1>4. /\ target \in Addresses \cup {None}
        /\ op \notin DOMAIN Creates => target \in {KindOf(op)} \X Commands /\ Exists(target)
    <2>1. DOMAIN Creates = {"workspace", "direction", "attach", "crystal", "crystallize"}
      BY DEF Creates
    <2>2. CASE op \in WorkspaceOps
      <3>1. op \notin DirectionOps \cup {"detach"}
        BY <2>2 DEF WorkspaceOps, DirectionOps, PositionOps, AllowedPositionTransitions
      <3> QED
        BY <2>2, <3>1 DEF Targets, Existing, KindOf, Addresses, Kinds
    <2>3. CASE op \in DirectionOps
      <3>1. op \notin WorkspaceOps \cup {"detach"}
        BY <2>3 DEF WorkspaceOps, DirectionOps, PositionOps, AllowedPositionTransitions
      <3> QED
        BY <2>3, <3>1 DEF Targets, Existing, KindOf, Addresses, Kinds
    <2>4. CASE op \notin WorkspaceOps \cup DirectionOps
      BY <2>1, <2>4 DEF Targets, Existing, KindOf, Addresses, Kinds, Ops
    <2> QED
      BY <2>2, <2>3, <2>4
  <1>5. other \in Addresses \cup {None}
    BY DEF Others, Existing, Addresses, Kinds
  <1>6. ref \in Commands \cup {None}
    BY DEF Refs, Of, None, WInv, History, Bounded
  <1>7. d \in Requests
    BY <1>3, <1>4, <1>5, <1>6 DEF Requests
  <1>8. Stream(d) \in Addresses /\ (op \in DOMAIN Creates => Length(Stream(d)) = 0)
    <2>1. CASE op \in DOMAIN Creates
      <3>1. Creates[op] \in Kinds
        BY <2>1 DEF Creates, Kinds
      <3>2. Stream(d) = <<Creates[op], k>>
        BY <1>3, <2>1 DEF Stream, Own
      <3>3. \A kind \in Kinds : Length(<<kind, k>>) = 0
        BY <1>2 DEF WInv, IntentsBehind, Behind
      <3> QED
        BY <3>1, <3>2, <3>3 DEF Addresses
    <2>2. CASE op \notin DOMAIN Creates
      BY <1>3, <1>4, <2>2 DEF Stream, Addresses, Kinds, KindOf
    <2> QED
      BY <2>1, <2>2
  <1> DEFINE n == Length(Stream(d))
             r == [command |-> k, op |-> op, target |-> target, other |-> other,
                   ref |-> ref, expected |-> n]
  <1>9. n \in Nat
    BY <1>8 DEF Length, WInv, Shapes
  <1>10. /\ intent' = [intent EXCEPT ![k] = r]
         /\ intent'[k] = r
         /\ \A j \in Commands \ {k} : intent'[j] = intent[j]
    <2> HIDE DEF d, n
    <2>1. [d EXCEPT !.expected = n] = r
      BY <1>3
    <2>2. intent' = [intent EXCEPT ![k] = [d EXCEPT !.expected = n]]
      BY <1>1 DEF d, n
    <2> HIDE DEF r
    <2> QED
      BY <2>1, <2>2 DEF WInv, Shapes
  <1>11. Stream(r) = Stream(d)
    BY <1>3 DEF Stream, Own
  <1>12. r \in Requests
    BY <1>3, <1>4, <1>5, <1>6, <1>9 DEF Requests
  <1>13. Behind(k, r)
    <2>1. Length(Stream(r)) = n
      BY <1>11
    <2>2. op \notin DOMAIN Creates => target \in {KindOf(op)} \X (Commands \ {k})
      <3> SUFFICES ASSUME op \notin DOMAIN Creates
                   PROVE  target # <<KindOf(op), k>>
        BY <1>4
      <3>1. Length(<<KindOf(op), k>>) = 0
        BY <1>2 DEF WInv, IntentsBehind, Behind, KindOf, Kinds
      <3>2. Length(target) > 0
        BY <1>4 DEF Exists
      <3> QED
        BY <3>1, <3>2
    <2> HIDE DEF n
    <2> QED
      BY <1>3, <1>4, <1>8, <1>9, <2>1, <2>2 DEF Behind, n
  <1> HIDE DEF d, n, r
  <1>14. Shapes'
    <2>1. intent' \in [Commands -> Requests]
      BY <1>10, <1>12 DEF WInv, Shapes
    <2>2. \A t \in Threads : pc[t] # "idle" => call[t] # k
      BY <1>2 DEF WInv, Shapes
    <2> QED
      BY <1>2, <1>10, <2>1, <2>2 DEF WInv, Shapes, durable
  <1>15. IntentsBehind'
    <2> SUFFICES ASSUME NEW j \in Commands, NEW q, q = intent'[j]
                 PROVE  Behind(j, q)'
      BY DEF IntentsBehind
    <2>1. Behind(j, q)
      BY <1>10, <1>13 DEF WInv, IntentsBehind
    <2> QED
      BY <1>2, <2>1, LogUnchanged DEF Behind
  <1>16. Current'
    <2> SUFFICES ASSUME NEW t \in Threads, NEW q, q = Request(t)', NEW s, s = state'[t],
                        pc'[t] = "append", q.expected = Length(Stream(q))'
                 PROVE  Confirmed(q, s)'
      BY DEF Current
    <2>1. q = Request(t) /\ s = state[t] /\ pc[t] = "append"
      BY <1>2, <1>10 DEF WInv, Shapes, Request
    <2>2. q.expected = Length(Stream(q))
      BY <1>2, LogUnchanged
    <2>3. Confirmed(q, s)
      BY <2>1, <2>2 DEF WInv, Current
    <2> QED
      BY <1>2, <2>3, LogUnchanged DEF Confirmed
  <1> QED
    BY <1>2, <1>14, <1>15, <1>16, LogUnchanged DEF WInv

-----------------------------------------------------------------------------
\* The streams a commit extends.
Written(r, s) == {Stream(r)} \cup Further(r, s)

\* The event types the properties speak of come from the main event of a commit.
LEMMA EventTypes ==
  /\ \A op \in Ops, p \in PositionOps \cup {"detach", "rephrase"} :
       EventType[op] = EventType[p] => op = p
  /\ \A p \in PositionOps \cup {"detach", "rephrase"} :
       /\ p \notin DOMAIN Creates \cup {None}
       /\ EventType[p] \notin {"workspace_created", "direction_created", "workspace_direction_attached"}
  /\ EventType["detach"] = "workspace_direction_detached"
  /\ EventType["rephrase"] = "direction_proposition_rephrased"
  <1>1. PositionOps = {"pause", "reopen", "conclude", "branch", "absorb"}
    BY DEF PositionOps, AllowedPositionTransitions
  <1>2. Ops = {"pause", "reopen", "conclude", "branch", "absorb", "note", "anchor", "attach",
               "crystal", "crystallize", "declare", "rephrase", "workspace", "direction", "detach"}
    BY <1>1 DEF Ops, WorkspaceOps, DirectionOps
  <1>3. DOMAIN Creates = {"workspace", "direction", "attach", "crystal", "crystallize"}
    BY DEF Creates
  <1> QED
    BY <1>1, <1>2, <1>3 DEF EventType, None

\* What a commit adds, and what it has checked under the fence of the log.
LEMMA PublishAdds ==
  ASSUME WInv, NEW t \in Threads, Publish(t), NEW r, r = Request(t), NEW s, s = state[t]
  PROVE  /\ Written(r, s) \subseteq Addresses
         /\ r.expected \in Nat /\ Length(Stream(r)) = r.expected
         /\ \A a \in Further(r, s) : a[2] = call[t] /\ a # Stream(r) /\ Length(a) = 0
         /\ \A a \in Addresses :
              Length(a)' = IF a \in Written(r, s) THEN Length(a) + 1 ELSE Length(a)
         /\ facts \subseteq facts'
         /\ \A f \in facts' \ facts :
              /\ f.command = call[t] /\ f.at \in Written(r, s) /\ f.sequence = Length(f.at)
              /\ \/ /\ f.at = Stream(r) /\ f.type = EventType[r.op]
                    /\ r.op = "rephrase" => f.ref = s.version
                 \/ /\ f.at \in Further(r, s)
                    /\ f.type \in {"workspace_created", "direction_created",
                                   "workspace_direction_attached"}
         /\ \A f, g \in facts' \ facts : f.at = g.at => f = g
         /\ End(t)
  <1>1. /\ call[t] \in Commands /\ r \in Requests /\ r.op \in Ops /\ r.op # None
        /\ Behind(call[t], r) /\ r.command = call[t]
    BY DEF Publish, WInv, Shapes, IntentsBehind, Behind, Request, Requests
  <1>2. Stream(r) \in Addresses
    BY <1>1, StreamType
  <1>3. r.op \in DOMAIN Creates => Stream(r) = <<Creates[r.op], call[t]>>
    BY <1>1 DEF Stream, Own
  <1>4. r.op \notin DOMAIN Creates => Stream(r) = r.target /\ r.target[2] # call[t]
    BY <1>1 DEF Stream, Behind
  <1>5. \A a \in Further(r, s) :
          a[2] = call[t] /\ a \in Addresses /\ a # Stream(r)
          /\ CreatedBy[a[1]] \in {"workspace_created", "direction_created", "workspace_direction_attached"}
    <2>1. CASE r.op = "branch"
      BY <1>1, <1>4, <2>1 DEF Further, Own, Creates, CreatedBy, Addresses, Kinds
    <2>2. CASE r.op = "crystallize"
      <3>1. Stream(r) = <<"crystallization", call[t]>>
        BY <1>3, <2>2 DEF Creates
      <3>2. \A a \in Further(r, s) : a \in {"direction", "link"} \X {call[t]}
        BY <1>1, <2>2 DEF Further, Own
      <3> QED
        BY <1>1, <3>1, <3>2 DEF CreatedBy, Addresses, Kinds
    <2> QED
      BY <2>1, <2>2 DEF Further
  <1>6. LET row == Row(r, s) IN
        /\ row.universe = "universe"
        /\ row.expected = [a \in Written(r, s) |-> IF a = Stream(r) THEN r.expected ELSE 0]
        /\ row.appends = [a \in Written(r, s) |-> 1]
    BY DEF Row, Written
  <1>7. /\ Log!Publish(Row(r, s), last + 1)
        /\ facts' = facts \cup FactsOf(r, s, last + 1)
        /\ End(t)
    BY DEF Publish
  <1>8. r.expected \in Nat
    BY <1>1 DEF Requests
  <1>9. \A a \in Written(r, s) : Length(a) = IF a = Stream(r) THEN r.expected ELSE 0
    BY <1>6, <1>7 DEF Log!Publish, Length
  <1>10. next' = [next EXCEPT !["universe"] =
                   [a \in Addresses |-> IF a \in Written(r, s)
                      THEN (IF a = Stream(r) THEN r.expected ELSE 0) + 1
                      ELSE next["universe"][a]]]
    BY <1>6, <1>7 DEF Log!Publish, Log!Advanced
  <1>11. Written(r, s) \subseteq Addresses
    BY <1>2, <1>5 DEF Written
  <1>12. \A a \in Addresses :
           Length(a)' = IF a \in Written(r, s) THEN Length(a) + 1 ELSE Length(a)
    BY <1>9, <1>10 DEF Length, WInv, Shapes
  <1>13. \A f \in FactsOf(r, s, last + 1) :
           /\ f.command = call[t]
           /\ \/ /\ f.at = Stream(r) /\ f.sequence = r.expected /\ f.type = EventType[r.op]
                 /\ r.op = "rephrase" => f.ref = s.version
              \/ f.at \in Further(r, s) /\ f.sequence = 0 /\ f.type = CreatedBy[f.at[1]]
    BY <1>1 DEF FactsOf, Fact
  <1>14. \A a \in Further(r, s) : Length(a) = 0
    BY <1>5, <1>9 DEF Written
  <1>15. Length(Stream(r)) = r.expected
    BY <1>9 DEF Written
  <1>16. \A f, g \in FactsOf(r, s, last + 1) : f.at = g.at => f = g
    <2>1. \A f \in FactsOf(r, s, last + 1) :
            f = IF f.at = Stream(r) THEN Fact(EventType[r.op], f.at, r.expected, last + 1, r, s)
                                    ELSE Fact(CreatedBy[f.at[1]], f.at, 0, last + 1, r, s)
      BY <1>5 DEF FactsOf, Fact
    <2> QED
      BY <2>1
  <1>17. \A f \in facts' \ facts : f \in FactsOf(r, s, last + 1)
    BY <1>7
  <1>18. \A f, g \in facts' \ facts : f.at = g.at => f = g
    BY <1>16, <1>17
  <1> QED
    BY <1>5, <1>7, <1>8, <1>11, <1>12, <1>13, <1>14, <1>15, <1>17, <1>18 DEF Written

\* The streams a commit extends belong to its command or have events already.
LEMMA PublishTargets ==
  ASSUME WInv, NEW t \in Threads, Publish(t), NEW r, r = Request(t), NEW s, s = state[t],
         NEW a \in Written(r, s)
  PROVE  a[2] = call[t] \/ Length(a) # 0
  <1>1. Behind(call[t], r) /\ r.op # None
    BY DEF Publish, WInv, Shapes, IntentsBehind, Request
  <1>2. CASE a \in Further(r, s)
    BY <1>2, PublishAdds
  <1>3. CASE a = Stream(r) /\ r.op \in DOMAIN Creates
    BY <1>1, <1>3 DEF Stream, Own, Behind
  <1>4. CASE a = Stream(r) /\ r.op \notin DOMAIN Creates
    BY <1>1, <1>4 DEF Stream, Behind, Exists
  <1> QED
    BY <1>2, <1>3, <1>4 DEF Written

\* A commit changes nothing below the lengths of the streams.
LEMMA PublishKeeps ==
  ASSUME WInv, NEW t \in Threads, Publish(t),
         NEW a \in Addresses, NEW n \in Nat, n <= Length(a)
  PROVE  /\ PositionBefore(a, n)' = PositionBefore(a, n)
         /\ VersionBefore(a, n)' = VersionBefore(a, n)
  <1>1. \A f \in facts' : f.at = a /\ f.sequence < n => f \in facts
    <2> SUFFICES ASSUME NEW f \in facts', f.at = a, f \notin facts
                 PROVE  ~(f.sequence < n)
      OBVIOUS
    <2>1. f.sequence = Length(a)
      BY PublishAdds
    <2>2. Length(a) \in Nat
      BY DEF WInv, Shapes, Length
    <2> QED
      BY <2>1, <2>2
  <1>2. facts \subseteq facts'
    BY PublishAdds
  <1>3. \A types : Before(a, n, types)' = Before(a, n, types)
    BY <1>1, <1>2 DEF Before
  <1>4. Before(a, n, DOMAIN PositionAfter)' = Before(a, n, DOMAIN PositionAfter)
    BY <1>3
  <1>5. PositionBefore(a, n)' = PositionBefore(a, n)
    BY <1>4 DEF PositionBefore
  <1>6. Before(a, n, Propositions)' = Before(a, n, Propositions)
    BY <1>3
  <1>7. VersionBefore(a, n)' = VersionBefore(a, n)
    BY <1>6 DEF VersionBefore
  <1> QED
    BY <1>5, <1>7

\* Whoever still holds the length of its stream after a commit of another thread has
\* a stream the commit did not extend.
LEMMA PublishCurrent ==
  ASSUME WInv, NEW t \in Threads, Publish(t)
  PROVE  Current'
  <1> SUFFICES ASSUME NEW u \in Threads, NEW r, r = Request(u)', NEW s, s = state'[u],
                      pc'[u] = "append", r.expected = Length(Stream(r))'
               PROVE  Confirmed(r, s)'
    BY DEF Current
  <1> DEFINE T == Written(Request(t), state[t])
             a == r.target
  <1>1. /\ \A b \in Addresses : Length(b)' = IF b \in T THEN Length(b) + 1 ELSE Length(b)
        /\ \A f \in facts' \ facts : f.at \in T
        /\ facts \subseteq facts'
        /\ End(t)
    BY PublishAdds
  <1>2. u # t
    BY <1>1 DEF End, WInv, Shapes
  <1>3. r = Request(u) /\ s = state[u] /\ pc[u] = "append"
    BY <1>1, <1>2 DEF End, WInv, Shapes, Request
  <1>4. call[u] \in Commands /\ Behind(call[u], r) /\ r \in Requests /\ r.op # None
    BY <1>3 DEF WInv, Shapes, IntentsBehind, Request
  <1>5. SUFFICES ASSUME r.op \in PositionOps \cup {"detach", "rephrase"}
                 PROVE  Confirmed(r, s)'
    BY DEF Confirmed
  <1>6. r.op \notin DOMAIN Creates
    BY <1>5, EventTypes
  <1>7. Stream(r) = a /\ a \in Addresses /\ r.expected <= Length(a)
    BY <1>4, <1>6, StreamType DEF Stream, Behind
  <1>8. Length(a) \in Nat /\ r.expected \in Nat
    BY <1>4, <1>7 DEF WInv, Shapes, Length, Requests
  <1>9. Length(a)' = r.expected
    BY <1>7
  <1> HIDE DEF T
  <1>10. a \notin T /\ Length(a)' = Length(a) /\ Length(a) = r.expected
    BY <1>1, <1>7, <1>8, <1>9
  <1>11. Confirmed(r, s)
    BY <1>3, <1>7, <1>10 DEF WInv, Current
  <1>12. Detached(a)' = Detached(a)
    BY <1>1, <1>10 DEF Detached
  <1>13. \A types : Before(a, Length(a), types)' = Before(a, Length(a), types)
    <2> SUFFICES ASSUME NEW types
                 PROVE  {f \in facts' : f.at = a /\ f.sequence < r.expected /\ f.type \in types}
                      = {f \in facts : f.at = a /\ f.sequence < r.expected /\ f.type \in types}
      BY <1>9, <1>10 DEF Before
    <2> QED
      BY <1>1, <1>10
  <1>14. Before(a, Length(a), DOMAIN PositionAfter)' = Before(a, Length(a), DOMAIN PositionAfter)
    BY <1>13
  <1>15. Position(a)' = Position(a)
    BY <1>14 DEF Position, PositionBefore
  <1>16. Before(a, Length(a), Propositions)' = Before(a, Length(a), Propositions)
    BY <1>13
  <1>17. VersionBefore(a, Length(a))' = VersionBefore(a, Length(a))
    BY <1>16 DEF VersionBefore
  <1> QED
    BY <1>11, <1>12, <1>15, <1>17 DEF Confirmed

\* What a commit adds to the history was so when its handler read, and the length
\* its stream still has says that it is so.
LEMMA PublishHistory ==
  ASSUME WInv, NEW t \in Threads, Publish(t)
  PROVE  History'
  <1> SUFFICES ASSUME NEW r, r = Request(t), NEW s, s = state[t]
               PROVE  History'
    OBVIOUS
  <1> DEFINE T == Written(r, s)
  <1>1. /\ T \subseteq Addresses
        /\ Length(Stream(r)) = r.expected
        /\ \A a \in Further(r, s) : a[2] = call[t] /\ a # Stream(r) /\ Length(a) = 0
        /\ \A a \in Addresses : Length(a)' = IF a \in T THEN Length(a) + 1 ELSE Length(a)
        /\ facts \subseteq facts'
        /\ \A f \in facts' \ facts :
             /\ f.command = call[t] /\ f.at \in T /\ f.sequence = Length(f.at)
             /\ \/ /\ f.at = Stream(r) /\ f.type = EventType[r.op]
                   /\ r.op = "rephrase" => f.ref = s.version
                \/ /\ f.at \in Further(r, s)
                   /\ f.type \in {"workspace_created", "direction_created",
                                  "workspace_direction_attached"}
    BY PublishAdds
  <1>2. \A a \in Addresses : Length(a) \in Nat
    BY DEF WInv, Shapes, Length
  <1>3. /\ call[t] \in Commands /\ r \in Requests /\ r.op \in Ops /\ Behind(call[t], r)
        /\ r.op # None /\ pc[t] = "append"
    BY DEF Publish, WInv, Shapes, IntentsBehind, Request, Requests
  <1>4. Confirmed(r, s)
    BY <1>1, <1>3 DEF WInv, Current
  <1>5. ASSUME NEW f \in facts' \ facts, NEW op \in PositionOps \cup {"detach", "rephrase"},
               f.type = EventType[op]
        PROVE  /\ r.op = op /\ f.at = r.target /\ f.sequence = Length(r.target)
               /\ r.target \in {KindOf(op)} \X Commands
               /\ op = "rephrase" => f.ref = s.version
    <2>1. f.at = Stream(r) /\ f.type = EventType[r.op]
      BY <1>1, <1>5, EventTypes
    <2>2. r.op = op
      BY <1>3, <1>5, <2>1, EventTypes
    <2>3. r.op \notin DOMAIN Creates \cup {None}
      BY <2>2, EventTypes
    <2>4. Stream(r) = r.target /\ r.target \in {KindOf(op)} \X Commands
      BY <1>3, <2>2, <2>3 DEF Stream, Behind
    <2>5. op = "rephrase" => f.ref = s.version
      BY <1>1, <1>5, <2>2, EventTypes
    <2> QED
      BY <1>1, <2>1, <2>2, <2>4, <2>5
  <1> HIDE DEF T
  <1>6. Bounded'
    <2> SUFFICES ASSUME NEW f \in facts'
                 PROVE  /\ f.command \in Commands
                        /\ f.at \in Addresses /\ f.sequence \in Nat /\ f.sequence < Length(f.at)'
                        /\ f.type = "workspace_direction_detached" => f.at \in {"link"} \X Commands
      BY DEF Bounded, Length
    <2>1. CASE f \in facts
      <3>1. /\ f.command \in Commands /\ f.at \in Addresses
            /\ f.sequence \in Nat /\ f.sequence < Length(f.at)
            /\ f.type = "workspace_direction_detached" => f.at \in {"link"} \X Commands
        BY <2>1 DEF WInv, History, Bounded
      <3> QED
        BY <1>1, <1>2, <3>1
    <2>2. CASE f \notin facts
      <3>1. f.type = "workspace_direction_detached" => f.at \in {"link"} \X Commands
        BY <1>5, <2>2, EventTypes DEF KindOf
      <3> QED
        BY <1>1, <1>2, <1>3, <2>2, <3>1
    <2> QED
      BY <2>1, <2>2
  <1>7. PositionsFollowTransitions'
    <2> SUFFICES ASSUME NEW op \in PositionOps, NEW f \in facts', f.type = EventType[op]
                 PROVE  PositionBefore(f.at, f.sequence)' \in AllowedPositionTransitions[op]
      BY DEF PositionsFollowTransitions, Of
    <2>1. /\ f.at \in Addresses /\ f.sequence \in Nat /\ f.sequence <= Length(f.at)
          /\ PositionBefore(f.at, f.sequence) \in AllowedPositionTransitions[op]
      <3>1. CASE f \in facts
        <4>1. f.at \in Addresses /\ f.sequence \in Nat /\ f.sequence < Length(f.at)
          BY <3>1 DEF WInv, History, Bounded
        <4>2. PositionBefore(f.at, f.sequence) \in AllowedPositionTransitions[op]
          BY <3>1 DEF WInv, History, PositionsFollowTransitions, Of
        <4> QED
          BY <1>2, <4>1, <4>2
      <3>2. CASE f \notin facts
        <4>1. r.op = op /\ f.at = r.target /\ f.sequence = Length(r.target) /\ f.at \in T
          BY <1>1, <1>5, <3>2
        <4>2. f.at \in Addresses
          BY <1>1, <4>1
        <4> QED
          BY <1>2, <1>4, <4>1, <4>2 DEF Confirmed, Position
      <3> QED
        BY <3>1, <3>2
    <2>2. PositionBefore(f.at, f.sequence)' = PositionBefore(f.at, f.sequence)
      BY <2>1, PublishKeeps
    <2> QED
      BY <2>1, <2>2
  <1>8. RephrasingsChain'
    <2> SUFFICES ASSUME NEW f \in facts', f.type = EventType["rephrase"]
                 PROVE  f.ref = VersionBefore(f.at, f.sequence)'
      BY EventTypes DEF RephrasingsChain, Of
    <2>1. /\ f.at \in Addresses /\ f.sequence \in Nat /\ f.sequence <= Length(f.at)
          /\ f.ref = VersionBefore(f.at, f.sequence)
      <3>1. CASE f \in facts
        <4>1. f.at \in Addresses /\ f.sequence \in Nat /\ f.sequence < Length(f.at)
          BY <3>1 DEF WInv, History, Bounded
        <4>2. f.ref = VersionBefore(f.at, f.sequence)
          BY <3>1, EventTypes DEF WInv, History, RephrasingsChain, Of
        <4> QED
          BY <1>2, <4>1, <4>2
      <3>2. CASE f \notin facts
        <4>1. /\ r.op = "rephrase" /\ f.at = r.target /\ f.sequence = Length(r.target)
              /\ f.ref = s.version /\ f.at \in T
          BY <1>1, <1>5, <3>2
        <4>2. f.at \in Addresses
          BY <1>1, <4>1
        <4> QED
          BY <1>2, <1>4, <4>1, <4>2 DEF Confirmed
      <3> QED
        BY <3>1, <3>2
    <2>2. VersionBefore(f.at, f.sequence)' = VersionBefore(f.at, f.sequence)
      BY <2>1, PublishKeeps
    <2> QED
      BY <2>1, <2>2
  <1>9. DetachedIsFinal'
    <2> SUFFICES ASSUME NEW f \in facts', NEW g \in facts',
                        f.type = EventType["detach"], g.at = f.at, g # f
                 PROVE  g.sequence < f.sequence
      BY EventTypes DEF DetachedIsFinal
    <2>1. CASE f \in facts /\ g \in facts
      BY <2>1, EventTypes DEF WInv, History, DetachedIsFinal
    <2>2. CASE f \notin facts /\ g \in facts
      BY <1>1, <2>2 DEF WInv, History, Bounded
    <2>3. CASE f \in facts /\ g \notin facts
      <3>1. /\ f.at \in Addresses /\ f.at \in {"link"} \X Commands
            /\ f.sequence \in Nat /\ f.sequence < Length(f.at)
        BY <2>3, EventTypes DEF WInv, History, Bounded
      <3>2. Detached(f.at) /\ Length(f.at) # 0
        BY <1>2, <2>3, <3>1, EventTypes DEF Detached
      <3>3. f.at = Stream(r)
        BY <1>1, <2>3, <3>2
      <3>4. r.op \notin DOMAIN Creates
        BY <1>1, <1>3, <3>2, <3>3 DEF Behind
      <3>5. f.at = r.target /\ r.target \in {KindOf(r.op)} \X Commands
        BY <1>3, <3>3, <3>4 DEF Stream, Behind
      <3>6. r.op = "detach"
        BY <3>1, <3>5 DEF KindOf
      <3> QED
        BY <1>4, <3>2, <3>5, <3>6 DEF Confirmed
    <2>4. CASE f \notin facts /\ g \notin facts
      BY <2>4, PublishAdds
    <2> QED
      BY <2>1, <2>2, <2>3, <2>4
  <1> QED
    BY <1>6, <1>7, <1>8, <1>9 DEF History

\* A commit keeps the invariant.
LEMMA PublishStep ==
  ASSUME WInv, NEW t \in Threads, Publish(t)
  PROVE  WInv'
  <1> SUFFICES ASSUME NEW r, r = Request(t), NEW s, s = state[t]
               PROVE  WInv'
    OBVIOUS
  <1> DEFINE T == Written(r, s)
  <1>1. /\ T \subseteq Addresses
        /\ \A a \in Addresses : Length(a)' = IF a \in T THEN Length(a) + 1 ELSE Length(a)
        /\ End(t)
    BY PublishAdds
  <1>2. \A a \in Addresses : Length(a) \in Nat
    BY DEF WInv, Shapes, Length
  <1>3. \A a \in T : a[2] = call[t] \/ Length(a) # 0
    BY PublishTargets
  <1>4. call[t] \in Commands /\ intent[call[t]].op # None /\ UNCHANGED intent
    BY <1>1 DEF Publish, WInv, Shapes, End
  <1> HIDE DEF T
  <1>5. Shapes'
    <2>1. next' = Log!Advanced(Row(r, s))
      BY DEF Publish, Log!Publish
    <2>2. Row(r, s).universe = "universe"
      BY DEF Row
    <2>3. next' = [next EXCEPT !["universe"] = next'["universe"]]
          /\ next'["universe"] = [a \in Addresses |-> next'["universe"][a]]
      BY <2>1, <2>2 DEF Log!Advanced, WInv, Shapes
    <2>4. \A a \in Addresses : next'["universe"][a] \in Nat
      BY <1>1, <1>2 DEF Length
    <2>5. next'["universe"] \in [Addresses -> Nat]
      BY <2>3, <2>4
    <2>6. next' \in [{"universe"} -> [Addresses -> Nat]]
      BY <2>3, <2>5 DEF WInv, Shapes
    <2> QED
      BY <1>1, <2>6 DEF WInv, Shapes, End, None
  <1>6. IntentsBehind'
    <2> SUFFICES ASSUME NEW k \in Commands, NEW q, q = intent'[k]
                 PROVE  Behind(k, q)'
      BY DEF IntentsBehind
    <2>1. Behind(k, q) /\ q \in Requests
      BY <1>4 DEF WInv, Shapes, IntentsBehind
    <2>2. q.op = None => \A kind \in Kinds : Length(<<kind, k>>)' = 0
      <3> SUFFICES ASSUME q.op = None, NEW kind \in Kinds
                   PROVE  Length(<<kind, k>>)' = 0
        OBVIOUS
      <3>1. Length(<<kind, k>>) = 0 /\ <<kind, k>> \in Addresses /\ <<kind, k>>[2] = k
        BY <2>1 DEF Behind, Addresses
      <3>2. <<kind, k>> \notin T
        BY <1>3, <1>4, <3>1
      <3> QED
        BY <1>1, <3>1, <3>2
    <2>3. \A a \in Addresses : Length(a)' \in Nat /\ Length(a) <= Length(a)'
      BY <1>1, <1>2
    <2>4. q.op # None => q.expected <= Length(Stream(q))'
      <3> SUFFICES ASSUME q.op # None
                   PROVE  q.expected <= Length(Stream(q))'
        OBVIOUS
      <3>1. Stream(q) \in Addresses /\ q.expected <= Length(Stream(q)) /\ q.expected \in Nat
        BY <2>1, StreamType DEF Behind, Requests
      <3> QED
        BY <1>2, <2>3, <3>1
    <2>5. q.op \notin DOMAIN Creates \cup {None} => Exists(q.target)'
      <3> SUFFICES ASSUME q.op \notin DOMAIN Creates \cup {None}
                   PROVE  Exists(q.target)'
        OBVIOUS
      <3>1. Exists(q.target) /\ q.target \in Addresses
        BY <2>1 DEF Behind, Addresses, Kinds, KindOf
      <3> QED
        BY <1>2, <2>3, <3>1 DEF Exists
    <2> QED
      BY <2>1, <2>2, <2>4, <2>5 DEF Behind
  <1> QED
    BY <1>5, <1>6, PublishCurrent, PublishHistory DEF WInv

-----------------------------------------------------------------------------
\* Every step keeps the invariant.
LEMMA WInvStep == WInv /\ [Next]_vars => WInv'
  <1> SUFFICES ASSUME WInv, [Next]_vars
               PROVE  WInv'
    OBVIOUS
  <1>1. ASSUME NEW k \in Commands, NEW op \in Ops, Issue(k, op)
        PROVE  WInv'
    BY <1>1, IssueStep
  <1>2. ASSUME NEW t \in Threads, NEW k \in Commands, Send(t, k)
        PROVE  WInv'
    BY <1>2, SendStep
  <1>3. ASSUME NEW t \in Threads, Read(t)
        PROVE  WInv'
    BY <1>3, ReadStep
  <1>4. ASSUME NEW t \in Threads, Replay(t) \/ Refuse(t) \/ Abandon(t)
        PROVE  WInv'
    BY <1>4, EndStep DEF Replay, Refuse, RefuseRead, RefuseAppend, Abandon
  <1>5. ASSUME NEW t \in Threads, Publish(t)
        PROVE  WInv'
    BY <1>5, PublishStep
  <1>6. CASE UNCHANGED vars
    <2>1. UNCHANGED durable /\ UNCHANGED intent /\ UNCHANGED <<pc, call, state>>
      BY <1>6 DEF vars, durable
    <2>2. Shapes'
      BY <2>1 DEF WInv, Shapes, durable
    <2>3. Current'
      <3> SUFFICES ASSUME NEW t \in Threads, NEW r, r = Request(t)', NEW s, s = state'[t],
                          pc'[t] = "append", r.expected = Length(Stream(r))'
                   PROVE  Confirmed(r, s)'
        BY DEF Current
      <3>1. Confirmed(r, s)
        BY <2>1, LogUnchanged DEF WInv, Current, Request
      <3> QED
        BY <2>1, <3>1, LogUnchanged DEF Confirmed
    <2> QED
      BY <2>1, <2>2, <2>3, LogUnchanged, IntentsKept DEF WInv
  <1> QED
    BY <1>1, <1>2, <1>3, <1>4, <1>5, <1>6 DEF Next

\* The invariant of the workspace commands: WInv holds in every reachable state.
LEMMA WInvariance == Spec => []WInv
  BY WInvInit, WInvStep, PTL DEF Spec

\* Every move of a workspace (_assert_position_transition) starts from a position
\* that allows it, for any number of users, threads and workspaces.
THEOREM PositionsFollowTransitionsHolds == Spec => []PositionsFollowTransitions
  <1>1. WInv => PositionsFollowTransitions
    BY DEF WInv, History
  <1> QED
    BY <1>1, WInvariance, PTL

\* The versions of a proposition (rephrase_direction) form a chain.
THEOREM RephrasingsChainHolds == Spec => []RephrasingsChain
  <1>1. WInv => RephrasingsChain
    BY DEF WInv, History
  <1> QED
    BY <1>1, WInvariance, PTL

\* Nothing follows the detachment of a link (detach_direction_link).
THEOREM DetachedIsFinalHolds == Spec => []DetachedIsFinal
  <1>1. WInv => DetachedIsFinal
    BY DEF WInv, History
  <1> QED
    BY <1>1, WInvariance, PTL

-----------------------------------------------------------------------------
\* Crystals and the directions born with them.
Crystals == {"crystal", "crystallize"}

\* A workspace with a conclusion has a latest one.
LatestConclusion ==
  \A f \in Of("workspace_concluded") : \E g \in Of("workspace_concluded") :
    /\ g.at = f.at
    /\ \A h \in Of("workspace_concluded") : h.at = f.at => h.sequence <= g.sequence

Dated == last \in Nat /\ \A f \in facts : f.position \in Nat /\ f.position <= last

\* A link leads to a direction that exists.
LinksLead == \A f \in Of("workspace_direction_attached") : f.to \in Addresses /\ Exists(f.to)

\* What an intent refers to.
Asks(r) ==
  /\ r.op \in Crystals => r.ref \in Commands
  /\ r.op = "direction" => r.target = None
  /\ r.op \in {"attach", "crystal"} => r.other \in Addresses /\ Exists(r.other)
  /\ r.op = "crystallize" => r.other = None \/ (r.other \in Addresses /\ Exists(r.other))

\* What a handler has found: the conclusion of its crystal, and no link to a direction
\* that its own commit has yet to create.
Grounds(r, s) ==
  /\ r.op \in Crystals =>
       \E g \in Of("workspace_concluded") : g.at = r.target /\ g.command = r.ref
  /\ r.op = "crystallize" /\ r.other = None /\ s.linked => Exists(<<"direction", r.command>>)

LogGrounded == Dated /\ LatestConclusion /\ LinksLead /\ CrystalIsGrounded /\ NoOrphanDirection

GInv ==
  /\ WInv /\ LogGrounded
  /\ \A k \in Commands : Asks(intent[k])
  /\ \A t \in Threads : pc[t] = "append" => Grounds(Request(t), state[t])

\* The invariant holds before the first command.
LEMMA GInvInit == Init => GInv
  <1> SUFFICES ASSUME Init
               PROVE  GInv
    OBVIOUS
  <1>1. LogGrounded
    BY DEF Init, LogGrounded, Dated, LatestConclusion, LinksLead, CrystalIsGrounded, NoOrphanDirection, Of
  <1>2. \A k \in Commands : Asks(intent[k])
    <2>1. \A k \in Commands : intent[k].op = None
      BY DEF Init, Unissued
    <2> QED
      BY <2>1 DEF Asks, Crystals, None
  <1> QED
    BY <1>1, <1>2, WInvInit DEF Init, GInv

\* Steps that leave the log alone keep what is said of it.
LEMMA GroundUnchanged ==
  ASSUME UNCHANGED durable
  PROVE  /\ LogGrounded => LogGrounded'
         /\ \A r : Asks(r) => Asks(r)'
         /\ \A r, s : Grounds(r, s) => Grounds(r, s)'
  <1>1. UNCHANGED <<facts, next, last>>
    BY DEF durable
  <1>2. NoOrphanDirection => NoOrphanDirection'
    BY <1>1 DEF NoOrphanDirection, Of
  <1>3. \A a : Exists(a)' = Exists(a)
    BY LogUnchanged
  <1>4. \A type : Of(type)' = Of(type)
    BY <1>1 DEF Of
  <1>5. LogGrounded => LogGrounded'
    BY <1>1, <1>2, <1>3, <1>4 DEF LogGrounded, Dated, LatestConclusion, LinksLead, CrystalIsGrounded
  <1> QED
    BY <1>3, <1>4, <1>5 DEF Asks, Grounds

\* A step of one handler that leaves the log and the intents alone.
LEMMA GroundStep ==
  ASSUME GInv, WInv', NEW t \in Threads, UNCHANGED <<durable, intent>>,
         \A u \in Threads \ {t} : pc'[u] = pc[u] /\ call'[u] = call[u] /\ state'[u] = state[u],
         pc'[t] = "append" => Grounds(intent[call'[t]], state'[t])
  PROVE  GInv'
  <1>1. LogGrounded' /\ \A k \in Commands : Asks(intent[k])'
    BY GroundUnchanged DEF GInv
  <1>2. ASSUME NEW u \in Threads, pc'[u] = "append", NEW r, r = intent[call'[u]], NEW s, s = state'[u]
        PROVE  Grounds(r, s)'
    <2>1. CASE u = t
      BY <1>2, <2>1, GroundUnchanged
    <2>2. CASE u # t
      BY <1>2, <2>2, GroundUnchanged DEF GInv, Request
    <2> QED
      BY <2>1, <2>2
  <1>3. \A u \in Threads : pc'[u] = "append" => Grounds(Request(u), state[u])'
    BY <1>2 DEF Request, Grounds
  <1> QED
    BY <1>1, <1>3 DEF GInv

\* The conclusion that is shown for a workspace is one that was made there.
LEMMA ConclusionMade ==
  ASSUME WInv, LatestConclusion, NEW w, NEW k \in Commands, Conclusion(w) = k
  PROVE  \E g \in Of("workspace_concluded") : g.at = w /\ g.command = k
  <1> DEFINE told == Before(w, Length(w), {"workspace_concluded"})
  <1>1. None \notin Commands
    BY NoneAssumption
  <1>2. told # {} /\ Latest(told).command = k
    BY <1>1 DEF Conclusion
  <1>3. told = {g \in Of("workspace_concluded") : g.at = w}
    BY DEF Before, Of, WInv, History, Bounded
  <1>4. \E g \in told : \A h \in told : h.sequence <= g.sequence
    <2>1. PICK f \in told : TRUE
      BY <1>2
    <2>2. PICK g \in Of("workspace_concluded") :
            g.at = f.at /\ \A h \in Of("workspace_concluded") : h.at = f.at => h.sequence <= g.sequence
      BY <1>3, <2>1 DEF LatestConclusion
    <2>3. f.at = w
      BY <1>3, <2>1
    <2> HIDE DEF told
    <2>4. g \in told /\ \A h \in told : h.sequence <= g.sequence
      BY <1>3, <2>2, <2>3
    <2> QED
      BY <2>4
  <1>5. Latest(told) \in told
    BY <1>4 DEF Latest
  <1> QED
    BY <1>2, <1>3, <1>5

\* A handler that reads finds the conclusion and no link to what does not exist.
LEMMA ReadGrounds ==
  ASSUME GInv, WInv', NEW t \in Threads, Read(t)
  PROVE  GInv'
  <1>1. /\ pc[t] = "read" /\ UNCHANGED <<durable, intent, call>> /\ Admissible(Request(t))
        /\ state'[t].linked = (Request(t).op = "crystallize" /\ Linked(Request(t)))
        /\ \A u \in Threads \ {t} : pc'[u] = pc[u] /\ call'[u] = call[u] /\ state'[u] = state[u]
    BY DEF Read, GInv, WInv, Shapes
  <1>2. ASSUME NEW r, r = Request(t)
        PROVE  Grounds(r, state'[t])
    <2>1. call[t] \in Commands /\ r = intent[call[t]] /\ r.command = call[t]
      BY <1>1, <1>2 DEF GInv, WInv, Shapes, IntentsBehind, Behind, Request
    <2>2. Asks(r)
      BY <2>1 DEF GInv
    <2>3. r.op \in Crystals => \E g \in Of("workspace_concluded") : g.at = r.target /\ g.command = r.ref
      BY <1>1, <1>2, <2>2, ConclusionMade DEF GInv, LogGrounded, Asks, Crystals, Admissible
    <2>4. ASSUME r.op = "crystallize", r.other = None, state'[t].linked
          PROVE  Exists(<<"direction", r.command>>)
      <3>1. LiveLinks(r.target, <<"direction", r.command>>) # {}
        BY <1>1, <1>2, <2>4 DEF Linked, Direction, Own
      <3> QED
        BY <3>1 DEF LiveLinks, GInv, LogGrounded, LinksLead
    <2> QED
      BY <2>3, <2>4 DEF Grounds
  <1>3. Grounds(intent[call'[t]], state'[t])
    BY <1>1, <1>2 DEF Request
  <1> QED
    BY <1>1, <1>3, GroundStep

\* A request refers to what the screen shows.
LEMMA IssueGrounds ==
  ASSUME GInv, WInv', NEW k \in Commands, NEW op \in Ops, Issue(k, op)
  PROVE  GInv'
  <1>1. PICK target \in Targets(op), other \in Others(op), ref \in Refs(op) :
          intent' = [intent EXCEPT ![k] =
                       [Draft(k, op, target, other, ref) EXCEPT
                          !.expected = Length(Stream(Draft(k, op, target, other, ref)))]]
    BY DEF Issue
  <1>2. intent[k].op = None /\ UNCHANGED <<durable, pc, call, state>>
    BY DEF Issue
  <1>3. /\ intent'[k].op = op /\ intent'[k].target = target /\ intent'[k].other = other
        /\ intent'[k].ref = ref
        /\ \A j \in Commands \ {k} : intent'[j] = intent[j]
    BY <1>1 DEF GInv, WInv, Shapes, Draft
  <1>4. ASSUME NEW r, r = intent'[k]
        PROVE  Asks(r)
    <2>1. op \in Crystals => ref \in Commands
      BY DEF Refs, Crystals, Of, GInv, WInv, History, Bounded
    <2>2. op = "direction" => target = None
      BY DEF Targets, WorkspaceOps, DirectionOps, PositionOps, AllowedPositionTransitions
    <2>3. op \in {"attach", "crystal"} => other \in Addresses /\ Exists(other)
      BY DEF Others, Existing, Addresses, Kinds
    <2>4. op = "crystallize" => other = None \/ (other \in Addresses /\ Exists(other))
      BY DEF Others, Existing, Addresses, Kinds
    <2> QED
      BY <1>3, <1>4, <2>1, <2>2, <2>3, <2>4 DEF Asks
  <1>5. \A j \in Commands : \A r : r = intent'[j] => Asks(r)
    BY <1>3, <1>4 DEF GInv
  <1>6. \A j \in Commands : Asks(intent[j])'
    <2>1. ASSUME NEW j \in Commands, NEW r, r = intent'[j]
          PROVE  Asks(r)'
      BY <1>2, <1>5, <2>1, GroundUnchanged
    <2> QED
      BY <2>1 DEF Asks
  <1>7. ASSUME NEW t \in Threads, pc[t] = "append", NEW r, r = Request(t)
        PROVE  r = Request(t)' /\ Grounds(r, state[t])'
    <2>1. call[t] \in Commands \ {k}
      BY <1>2, <1>7 DEF GInv, WInv, Shapes
    <2> QED
      BY <1>2, <1>3, <1>7, <2>1, GroundUnchanged DEF GInv, Request
  <1>8. \A t \in Threads : pc'[t] = "append" => Grounds(Request(t), state[t])'
    BY <1>2, <1>7 DEF Grounds
  <1> QED
    BY <1>2, <1>6, <1>8, GroundUnchanged DEF GInv

-----------------------------------------------------------------------------
\* The events of a commit.
LEMMA Born ==
  ASSUME GInv, NEW t \in Threads, Publish(t), NEW r, r = Request(t), NEW s, s = state[t],
         NEW new, new = FactsOf(r, s, last + 1)
  PROVE  /\ facts' = facts \cup new /\ last' = last + 1
         /\ r.op \in Ops /\ r.command = call[t] /\ Asks(r) /\ Grounds(r, s)
         /\ \A f \in new :
              /\ f.position = last + 1 /\ f.from = r.target /\ f.to = Direction(r)
              /\ f.type \in {"workspace_concluded", "workspace_crystallization_attached"}
                   => f.type = EventType[r.op]
              /\ f.type = "workspace_crystallization_attached" => r.op \in Crystals /\ f.ref = r.ref
              /\ f.type = "workspace_direction_attached" => r.op \in {"attach", "crystallize"}
              /\ f.type = "direction_created" =>
                   r.op = "direction" \/ (r.op = "crystallize" /\ r.other = None)
  <1>1. facts' = facts \cup new /\ last' = last + 1 /\ pc[t] = "append"
    BY DEF Publish
  <1>2. call[t] \in Commands /\ r \in Requests /\ r.op # None /\ r = intent[call[t]]
    BY <1>1 DEF GInv, WInv, Shapes, Request
  <1>3. r.command = call[t] /\ r.op \in Ops
    BY <1>2 DEF GInv, WInv, IntentsBehind, Behind, Requests
  <1>4. Asks(r) /\ Grounds(r, s)
    BY <1>1, <1>2 DEF GInv
  <1>5. Ops = {"pause", "reopen", "conclude", "branch", "absorb", "note", "anchor", "attach",
               "crystal", "crystallize", "declare", "rephrase", "workspace", "direction", "detach"}
    BY DEF Ops, WorkspaceOps, DirectionOps, PositionOps, AllowedPositionTransitions
  <1>6. \A a \in Further(r, s) :
          \/ r.op = "branch" /\ a[1] = "workspace"
          \/ r.op = "crystallize" /\ r.other = None /\ a[1] = "direction"
          \/ r.op = "crystallize" /\ a[1] = "link"
    BY DEF Further, Own
  <1>7. ASSUME NEW f \in new
        PROVE  /\ f.position = last + 1 /\ f.from = r.target /\ f.to = Direction(r)
               /\ f.ref = IF r.op = "rephrase" THEN s.version ELSE r.ref
               /\ \/ f.type = EventType[r.op]
                  \/ \E a \in Further(r, s) : f.type = CreatedBy[a[1]]
    BY <1>7 DEF FactsOf, Fact
  <1>8. ASSUME NEW f \in new, \E a \in Further(r, s) : f.type = CreatedBy[a[1]]
        PROVE  \/ f.type = "workspace_created"
               \/ f.type = "direction_created" /\ r.op = "crystallize" /\ r.other = None
               \/ f.type = "workspace_direction_attached" /\ r.op = "crystallize"
    BY <1>6, <1>8 DEF CreatedBy
  <1>9. /\ EventType[r.op] = "workspace_crystallization_attached" => r.op \in Crystals
        /\ EventType[r.op] = "workspace_direction_attached" => r.op = "attach"
        /\ EventType[r.op] = "direction_created" => r.op = "direction"
    BY <1>3, <1>5 DEF EventType, Crystals
  <1>10. ASSUME NEW f \in new
         PROVE  /\ f.type \in {"workspace_concluded", "workspace_crystallization_attached"}
                     => f.type = EventType[r.op]
                /\ f.type = "workspace_crystallization_attached" => r.op \in Crystals /\ f.ref = r.ref
                /\ f.type = "workspace_direction_attached" => r.op \in {"attach", "crystallize"}
                /\ f.type = "direction_created" =>
                     r.op = "direction" \/ (r.op = "crystallize" /\ r.other = None)
    <2>1. CASE f.type = EventType[r.op]
      BY <1>7, <1>9, <2>1 DEF Crystals
    <2>2. CASE \E a \in Further(r, s) : f.type = CreatedBy[a[1]]
      BY <1>8, <2>2
    <2> QED
      BY <1>7, <2>1, <2>2
  <1> QED
    BY <1>1, <1>3, <1>4, <1>7, <1>10

\* The commit of a new direction, its link and its crystal.
Together(new, d, r) ==
  \E m, l \in new :
    /\ new = {m, l, d} /\ m # d /\ l # d /\ d.at = Direction(r)
    /\ m.type = "workspace_crystallization_attached" /\ l.type = "workspace_direction_attached"

\* A direction born with a crystal has its link and its crystal beside it.
LEMMA BornTogether ==
  ASSUME GInv, NEW t \in Threads, Publish(t), NEW r, r = Request(t), NEW s, s = state[t],
         NEW new, new = FactsOf(r, s, last + 1),
         NEW d \in new, d.type = "direction_created", d.from # None
  PROVE  Together(new, d, r)
  <1>1. /\ r.op \in Ops /\ r.command = call[t] /\ Asks(r) /\ Grounds(r, s) /\ d.from = r.target
        /\ r.op = "direction" \/ (r.op = "crystallize" /\ r.other = None)
    BY Born
  <1>2. r.op = "crystallize" /\ r.other = None
    BY <1>1 DEF Asks
  <1>3. ~s.linked
    <2>1. Own("direction", r) \in Further(r, s)
      BY <1>2 DEF Further
    <2>2. Length(Own("direction", r)) = 0
      BY <2>1, PublishAdds DEF GInv
    <2> QED
      BY <1>1, <1>2, <2>2 DEF Grounds, Exists, Own
  <1>4. Further(r, s) = {Own("direction", r), Own("link", r)}
    BY <1>2, <1>3 DEF Further
  <1> DEFINE m == Fact("workspace_crystallization_attached", Stream(r), r.expected, last + 1, r, s)
             l == Fact("workspace_direction_attached", Own("link", r), 0, last + 1, r, s)
             e == Fact("direction_created", Own("direction", r), 0, last + 1, r, s)
  <1>5. new = {m, l, e}
    BY <1>2, <1>4 DEF FactsOf, EventType, CreatedBy, Own
  <1>6. m.type = "workspace_crystallization_attached" /\ l.type = "workspace_direction_attached"
        /\ e.type = "direction_created" /\ e.at = Own("direction", r)
    BY DEF Fact
  <1> HIDE DEF m, l, e
  <1>7. d = e /\ m # d /\ l # d
    BY <1>5, <1>6
  <1>8. Direction(r) = Own("direction", r)
    BY <1>2 DEF Direction
  <1> QED
    BY <1>5, <1>6, <1>7, <1>8 DEF Together

\* A commit keeps the log grounded.
LEMMA PublishGrounded ==
  ASSUME GInv, WInv', NEW t \in Threads, Publish(t)
  PROVE  LogGrounded'
  <1> SUFFICES ASSUME NEW r, r = Request(t), NEW s, s = state[t], NEW new, new = FactsOf(r, s, last + 1)
               PROVE  LogGrounded'
    OBVIOUS
  <1>1. /\ facts' = facts \cup new /\ last' = last + 1
        /\ r.op \in Ops /\ r.command = call[t] /\ Asks(r) /\ Grounds(r, s)
        /\ \A f \in new :
             /\ f.position = last + 1 /\ f.from = r.target /\ f.to = Direction(r)
             /\ f.type = "workspace_crystallization_attached" => r.op \in Crystals /\ f.ref = r.ref
             /\ f.type = "workspace_direction_attached" => r.op \in {"attach", "crystallize"}
    BY Born
  <1>2. /\ Written(r, s) \subseteq Addresses
        /\ \A a \in Addresses : Length(a)' = IF a \in Written(r, s) THEN Length(a) + 1 ELSE Length(a)
        /\ \A f \in facts' \ facts : f.sequence = Length(f.at)
        /\ \A f, g \in facts' \ facts : f.at = g.at => f = g
    BY PublishAdds DEF GInv
  <1>3. /\ last \in Nat /\ \A f \in facts : f.position \in Nat /\ f.position <= last
        /\ \A a \in Addresses : Length(a) \in Nat
    BY DEF GInv, LogGrounded, Dated, WInv, Shapes, Length
  <1>4. \A a \in Addresses : Exists(a) => Exists(a)'
    BY <1>2, <1>3 DEF Exists
  <1>5. Dated'
    BY <1>1, <1>3 DEF Dated
  <1>6. LatestConclusion'
    <2> SUFFICES ASSUME NEW f \in facts', f.type = "workspace_concluded"
                 PROVE  \E g \in facts' : /\ g.type = "workspace_concluded" /\ g.at = f.at
                          /\ \A h \in facts' : h.type = "workspace_concluded" /\ h.at = f.at
                                                 => h.sequence <= g.sequence
      BY DEF LatestConclusion, Of
    <2>1. CASE \E g \in facts' \ facts : g.type = "workspace_concluded" /\ g.at = f.at
      <3>1. PICK g \in facts' \ facts : g.type = "workspace_concluded" /\ g.at = f.at
        BY <2>1
      <3>2. \A h \in facts : h.sequence \in Nat /\ h.sequence < Length(h.at) /\ h.at \in Addresses
        BY DEF GInv, WInv, History, Bounded
      <3>3. g.sequence = Length(f.at) /\ f.at \in Addresses
        BY <1>2, <3>1 DEF WInv, History, Bounded
      <3>4. ASSUME NEW h \in facts', h.at = f.at
            PROVE  h.sequence <= g.sequence
        <4>1. CASE h \in facts
          BY <1>3, <3>2, <3>3, <3>4, <4>1
        <4>2. CASE h \notin facts
          BY <1>2, <1>3, <3>1, <3>3, <3>4, <4>2
        <4> QED
          BY <4>1, <4>2
      <3> QED
        BY <3>1, <3>4
    <2>2. CASE ~\E g \in facts' \ facts : g.type = "workspace_concluded" /\ g.at = f.at
      <3>1. f \in facts
        BY <2>2
      <3> QED
        BY <1>1, <2>2, <3>1 DEF GInv, LogGrounded, LatestConclusion, Of
    <2> QED
      BY <2>1, <2>2
  <1>7. LinksLead'
    <2> SUFFICES ASSUME NEW f \in facts', f.type = "workspace_direction_attached"
                 PROVE  f.to \in Addresses /\ Exists(f.to)'
      BY DEF LinksLead, Of, Exists, Length
    <2>1. CASE f \in facts
      BY <1>4, <2>1 DEF GInv, LogGrounded, LinksLead, Of
    <2>2. CASE f \in new
      <3>1. f.to = Direction(r) /\ r.op \in {"attach", "crystallize"}
        BY <1>1, <2>2
      <3>2. CASE r.op = "crystallize" /\ r.other = None
        <4>1. Direction(r) \in Written(r, s)
          BY <3>2 DEF Direction, Written, Further
        <4> QED
          BY <1>2, <1>3, <3>1, <4>1 DEF Exists
      <3>3. CASE ~(r.op = "crystallize" /\ r.other = None)
        <4>1. r.other \in Addresses /\ Exists(r.other) /\ f.to = r.other
          BY <1>1, <3>1, <3>3 DEF Asks, Direction
        <4> QED
          BY <1>4, <4>1
      <3> QED
        BY <3>2, <3>3
    <2> QED
      BY <1>1, <2>1, <2>2
  <1>8. CrystalIsGrounded'
    <2> SUFFICES ASSUME NEW f \in facts', f.type = "workspace_crystallization_attached"
                 PROVE  \E g \in facts' : /\ g.type = "workspace_concluded"
                                          /\ g.at = f.from /\ g.command = f.ref /\ g.position < f.position
      BY DEF CrystalIsGrounded, Of
    <2>1. CASE f \in facts
      BY <1>1, <2>1 DEF GInv, LogGrounded, CrystalIsGrounded, Of
    <2>2. CASE f \in new
      <3>1. PICK g \in facts : g.type = "workspace_concluded" /\ g.at = r.target /\ g.command = r.ref
        BY <1>1, <2>2 DEF Grounds, Of
      <3>2. g.position < f.position
        BY <1>1, <1>3, <2>2, <3>1
      <3> QED
        BY <1>1, <2>2, <3>1, <3>2
    <2> QED
      BY <1>1, <2>1, <2>2
  <1>9. NoOrphanDirection'
    <2> SUFFICES ASSUME NEW d \in facts', d.type = "direction_created", d.from # None,
                        NEW kin, kin = {f \in facts' : f.position = d.position /\ f # d}
                 PROVE  /\ {f.type : f \in kin} =
                             {"workspace_direction_attached", "workspace_crystallization_attached"}
                        /\ \A f, g \in kin : f.from = d.from /\ f.to = d.at /\ (f.type = g.type => f = g)
      BY DEF NoOrphanDirection, Of
    <2>1. CASE d \in facts
      <3>1. kin = {f \in facts : f.position = d.position /\ f # d}
        BY <1>1, <1>3, <2>1
      <3> QED
        BY <2>1, <3>1 DEF GInv, LogGrounded, NoOrphanDirection, Of
    <2>2. CASE d \in new
      <3>1. Together(new, d, r)
        BY <2>2, BornTogether
      <3>2. PICK m \in new, l \in new :
              /\ new = {m, l, d} /\ m # d /\ l # d /\ d.at = Direction(r)
              /\ m.type = "workspace_crystallization_attached" /\ l.type = "workspace_direction_attached"
        BY <3>1 DEF Together
      <3>3. kin = {m, l}
        <4>1. \A f \in facts : f.position # d.position
          BY <1>1, <1>3, <2>2
        <4> QED
          BY <1>1, <2>2, <3>2, <4>1
      <3>4. {f.type : f \in kin} =
              {"workspace_direction_attached", "workspace_crystallization_attached"}
        BY <3>2, <3>3
      <3> QED
        BY <1>1, <2>2, <3>2, <3>3, <3>4
    <2> QED
      BY <1>1, <2>1, <2>2
  <1> QED
    BY <1>5, <1>6, <1>7, <1>8, <1>9 DEF LogGrounded

\* A commit keeps what the intents and the other handlers rest on.
LEMMA PublishGrounds ==
  ASSUME GInv, WInv', NEW t \in Threads, Publish(t)
  PROVE  GInv'
  <1>1. /\ \A a \in Addresses : Length(a)' \in {Length(a), Length(a) + 1}
        /\ facts \subseteq facts' /\ End(t)
    BY PublishAdds DEF GInv
  <1>2. \A a \in Addresses : Exists(a) => Exists(a)'
    BY <1>1 DEF Exists, GInv, WInv, Shapes, Length
  <1>3. UNCHANGED intent /\ pc'[t] = "idle"
        /\ \A u \in Threads \ {t} : pc'[u] = pc[u] /\ call'[u] = call[u] /\ state'[u] = state[u]
    BY <1>1 DEF End, GInv, WInv, Shapes
  <1>4. ASSUME NEW k \in Commands, NEW r, r = intent[k]
        PROVE  Asks(r)'
    BY <1>2, <1>4 DEF GInv, Asks
  <1>5. ASSUME NEW u \in Threads, pc'[u] = "append",
               NEW r, r = intent[call'[u]], NEW s, s = state'[u]
        PROVE  Grounds(r, s)'
    <2>1. u # t /\ pc[u] = "append"
      BY <1>3, <1>5
    <2>2. r = Request(u) /\ Grounds(r, s)
      BY <1>3, <1>5, <2>1 DEF Request, GInv
    <2>3. r.command \in Commands
      BY <2>1, <2>2 DEF GInv, WInv, Shapes, Request, Requests
    <2>4. <<"direction", r.command>> \in Addresses
      BY <2>3 DEF Addresses, Kinds
    <2> QED
      BY <1>1, <1>2, <2>2, <2>4 DEF Grounds, Of
  <1>6. \A k \in Commands : Asks(intent[k])'
    BY <1>3, <1>4 DEF Asks
  <1>7. \A u \in Threads : pc'[u] = "append" => Grounds(Request(u), state[u])'
    BY <1>3, <1>5 DEF Request, Grounds
  <1> QED
    BY <1>6, <1>7, PublishGrounded DEF GInv

\* Every step keeps the invariant.
LEMMA GInvStep == GInv /\ [Next]_vars => GInv'
  <1> SUFFICES ASSUME GInv, [Next]_vars
               PROVE  GInv'
    OBVIOUS
  <1>1. WInv'
    BY WInvStep DEF GInv
  <1>2. ASSUME NEW t \in Threads, (\E k \in Commands : Send(t, k)) \/ Replay(t) \/ Refuse(t) \/ Abandon(t)
        PROVE  GInv'
    <2>1. /\ pc'[t] # "append" /\ UNCHANGED <<durable, intent>>
          /\ \A u \in Threads \ {t} : pc'[u] = pc[u] /\ call'[u] = call[u] /\ state'[u] = state[u]
      BY <1>2 DEF Send, Replay, Refuse, RefuseRead, RefuseAppend, Abandon, End, GInv, WInv, Shapes
    <2> QED
      BY <1>1, <2>1, GroundStep
  <1>3. CASE UNCHANGED vars
    <2>1. UNCHANGED <<durable, intent, pc, call, state>>
      BY <1>3 DEF vars, durable
    <2>2. \A k \in Commands : Asks(intent[k])'
      BY <2>1, GroundUnchanged DEF GInv
    <2>3. ASSUME NEW t \in Threads, pc[t] = "append"
          PROVE  Grounds(intent[call[t]], state[t])'
      <3>1. \A r, s : r = intent[call[t]] /\ s = state[t] => Grounds(r, s)'
        BY <2>1, <2>3, GroundUnchanged DEF GInv, Request
      <3> QED
        BY <2>1, <3>1 DEF Grounds
    <2> QED
      BY <1>1, <2>1, <2>2, <2>3, GroundUnchanged DEF GInv, Request
  <1> QED
    BY <1>1, <1>2, <1>3, IssueGrounds, ReadGrounds, PublishGrounds DEF Next

\* So it always holds.
LEMMA GInvariance == Spec => []GInv
  BY GInvInit, GInvStep, PTL DEF Spec

\* A crystal (attach_crystallization, crystallize_to_direction) leads back to a
\* conclusion of its workspace, though the workspace may move on while it is made.
THEOREM CrystalIsGroundedHolds == Spec => []CrystalIsGrounded
  <1>1. GInv => CrystalIsGrounded
    BY DEF GInv, LogGrounded
  <1> QED
    BY <1>1, GInvariance, PTL

\* A direction born with a crystal is committed with its link and its crystal, though
\* the handler decides on the link from links it read before.
THEOREM NoOrphanDirectionHolds == Spec => []NoOrphanDirection
  <1>1. GInv => NoOrphanDirection
    BY DEF GInv, LogGrounded
  <1> QED
    BY <1>1, GInvariance, PTL
-----------------------------------------------------------------------------
\* These handlers, too, use the log as CommandLog promises it.

\* What a handler has in hand, and the streams it would extend.
LEMMA WrittenType ==
  ASSUME WInv, NEW t \in Threads, pc[t] # "idle", NEW r, r = Request(t), NEW s
  PROVE  /\ r \in Requests /\ r.op # None /\ r.expected \in Nat
         /\ Written(r, s) \in SUBSET Addresses
         /\ Stream(r) \notin Further(r, s)
  <1>1. r \in Requests /\ r.op # None /\ call[t] \in Commands /\ Behind(call[t], r) /\ r.command = call[t]
    BY DEF WInv, Shapes, IntentsBehind, Behind, Request
  <1>2. Stream(r) \in Addresses
    BY <1>1, StreamType
  <1>3. r.op \in DOMAIN Creates => Stream(r) = <<Creates[r.op], call[t]>>
    BY <1>1 DEF Stream, Own
  <1>4. r.op \notin DOMAIN Creates => Stream(r) = r.target /\ r.target[2] # call[t]
    BY <1>1 DEF Stream, Behind
  <1>5. \A a \in Further(r, s) : a[2] = call[t] /\ a \in Addresses /\ a # Stream(r)
    <2>1. CASE r.op = "branch"
      BY <1>1, <1>4, <2>1 DEF Further, Own, Creates, Addresses, Kinds
    <2>2. CASE r.op = "crystallize"
      <3>1. Stream(r) = <<"crystallization", call[t]>>
        BY <1>3, <2>2 DEF Creates
      <3>2. \A a \in Further(r, s) : a \in {"direction", "link"} \X {call[t]}
        BY <1>1, <2>2 DEF Further, Own
      <3> QED
        BY <1>1, <3>1, <3>2 DEF Addresses, Kinds
    <2> QED
      BY <2>1, <2>2 DEF Further
  <1>6. r.expected \in Nat
    BY <1>1 DEF Requests
  <1> QED
    BY <1>1, <1>2, <1>5, <1>6 DEF Written

\* What a handler passes to append is a request of the store.
LEMMA RowType ==
  ASSUME WInv, NEW t \in Threads, pc[t] # "idle"
  PROVE  Row(Request(t), state[t]) \in Rows
  <1>1. PICK r, s : r = Request(t) /\ s = state[t]
    OBVIOUS
  <1>2. r \in Requests /\ r.expected \in Nat
    BY <1>1, WrittenType
  <1>3. PICK T \in SUBSET Addresses : T = Written(r, s)
    BY <1>1, WrittenType
  <1>4. PICK e : e = [a \in T |-> IF a = Stream(r) THEN r.expected ELSE 0]
    OBVIOUS
  <1>5. e \in [T -> Nat] /\ DOMAIN e = T
    BY <1>2, <1>4
  <1>6. e \in UNION {[A -> Nat] : A \in SUBSET Addresses}
    BY <1>5
  <1>7. Row(r, s) =
          [universe |-> "universe", command |-> r.command,
           body |-> [op |-> r.op, target |-> r.target, other |-> r.other, ref |-> r.ref],
           expected |-> e, appends |-> [a \in DOMAIN e |-> 1]]
    BY <1>3, <1>4, <1>5 DEF Row, Written
  <1>8. Row(r, s) \in Rows
    <2> DEFINE RowOf(q, f) ==
                 [universe |-> "universe", command |-> q.command,
                  body |-> [op |-> q.op, target |-> q.target, other |-> q.other, ref |-> q.ref],
                  expected |-> f, appends |-> [a \in DOMAIN f |-> 1]]
               Lengths == UNION {[A -> Nat] : A \in SUBSET Addresses}
    <2>1. Rows = {RowOf(q, f) : q \in Requests, f \in Lengths}
      BY DEF Rows
    <2>2. Row(r, s) = RowOf(r, e)
      BY <1>7
    <2>3. e \in Lengths
      BY <1>6
    <2> HIDE DEF RowOf, Lengths
    <2> QED
      BY <1>2, <2>1, <2>2, <2>3
  <1> QED
    BY <1>1, <1>8

\* What the store keeps of events.
Recorded(F) ==
  {[universe |-> "universe", address |-> f.at, sequence |-> f.sequence, position |-> f.position] : f \in F}

\* The events a handler writes are those its row announces: one on each target, at
\* the sequence the row expects there.
LEMMA FactsFollowRow ==
  ASSUME WInv, NEW t \in Threads, pc[t] # "idle", NEW p
  PROVE  Recorded(FactsOf(Request(t), state[t], p)) = Log!EventsOf(Row(Request(t), state[t]), p)
  <1>1. PICK r, s : r = Request(t) /\ s = state[t]
    OBVIOUS
  <1>2. PICK n \in Nat : n = r.expected
    BY <1>1, WrittenType
  <1>3. PICK T : T = Written(r, s)
    OBVIOUS
  <1>4. Stream(r) \notin Further(r, s)
    BY <1>1, WrittenType
  <1> DEFINE Seen(f) ==
               [universe |-> "universe", address |-> f.at, sequence |-> f.sequence, position |-> f.position]
             At(a, q) == [universe |-> "universe", address |-> a, sequence |-> q, position |-> p]
             Expects(a) == IF a = Stream(r) THEN n ELSE 0
             Main == Fact(EventType[r.op], Stream(r), r.expected, p, r, s)
             Created(a) == Fact(CreatedBy[a[1]], a, 0, p, r, s)
  <1>5. Seen(Main) = At(Stream(r), Expects(Stream(r)))
    BY <1>2 DEF Fact
  <1>6. \A a \in Further(r, s) : Seen(Created(a)) = At(a, Expects(a))
    BY <1>4 DEF Fact
  <1>7. FactsOf(r, s, p) = {Main} \cup {Created(a) : a \in Further(r, s)}
    BY DEF FactsOf
  <1>8. {Seen(f) : f \in FactsOf(r, s, p)} = {At(a, Expects(a)) : a \in T}
    <2> HIDE DEF Seen, At, Expects, Main, Created
    <2>1. {Seen(f) : f \in FactsOf(r, s, p)} = {Seen(Main)} \cup {Seen(Created(a)) : a \in Further(r, s)}
      BY <1>7
    <2>2. {Seen(Created(a)) : a \in Further(r, s)} = {At(a, Expects(a)) : a \in Further(r, s)}
      BY <1>6
    <2>3. {At(a, Expects(a)) : a \in T}
          = {At(Stream(r), Expects(Stream(r)))} \cup {At(a, Expects(a)) : a \in Further(r, s)}
      BY <1>3 DEF Written
    <2> QED
      BY <1>5, <2>1, <2>2, <2>3
  <1>9. Log!EventsOf(Row(r, s), p) = {At(a, Expects(a)) : a \in T}
    <2>1. PICK row : row = Row(r, s)
      OBVIOUS
    <2>2. /\ row.universe = "universe"
          /\ row.expected = [a \in T |-> Expects(a)]
          /\ row.appends = [a \in T |-> 1]
      BY <1>2, <1>3, <2>1 DEF Row, Written
    <2>3. \A a \in T : row.expected[a] .. (row.expected[a] + row.appends[a] - 1) = {Expects(a)}
      BY <2>2
    <2>4. DOMAIN row.expected = T
      BY <2>2
    <2> HIDE DEF Expects
    <2>5. Log!EventsOf(row, p) =
            UNION {{At(a, q) : q \in row.expected[a] .. (row.expected[a] + row.appends[a] - 1)} :
                   a \in DOMAIN row.expected}
      <3>1. row.universe = "universe"
        BY <2>2
      <3> QED
        BY ONLY <3>1 DEF Log!EventsOf, At
    <2>6. \A a \in T : {At(a, q) : q \in row.expected[a] .. (row.expected[a] + row.appends[a] - 1)}
                       = {At(a, q) : q \in {Expects(a)}}
      BY <2>3
    <2> HIDE DEF At
    <2>7. Log!EventsOf(row, p) = UNION {{At(a, q) : q \in {Expects(a)}} : a \in T}
      BY <2>4, <2>5, <2>6
    <2> QED
      BY <2>1, <2>7
  <1> HIDE DEF Seen, At, Expects
  <1>10. {Seen(f) : f \in FactsOf(r, s, p)} = Log!EventsOf(Row(r, s), p)
    BY <1>8, <1>9
  <1> QED
    BY <1>1, <1>10 DEF Seen, Recorded

\* Commits are numbered as they come.
Positioned == last \in Nat /\ \A k \in commits : k.position \in Nat /\ k.position <= last

\* Unless the command is known or a stream is stale, nothing that Publish asks of the
\* log is missing, and the events it adds are those of its row.
Unblocked(t) ==
  LET row == Row(Request(t), state[t])
  IN pc[t] = "append" /\ ~Committed(t) /\ ~Stale(t) =>
       /\ \A k \in commits : ~Log!SameCommand(k, row) /\ k.position < last + 1
       /\ \A a \in DOMAIN row.expected : next[row.universe][a] = row.expected[a]
       /\ Recorded(FactsOf(Request(t), state[t], last + 1)) = Log!EventsOf(row, last + 1)

\* A step leaves the log alone or is the append of a handler.
LEMMA StepKinds ==
  ASSUME [Next]_vars
  PROVE  UNCHANGED durable \/ \E t \in Threads : Publish(t)
  BY DEF Next, vars, durable, Issue, Send, Read, Replay, Refuse, Abandon

LEMMA PositionedInit == Init => Positioned
  BY DEF Init, Positioned

LEMMA PositionedKept ==
  ASSUME Positioned, [Next]_vars
  PROVE  Positioned'
  <1>1. CASE UNCHANGED durable
    BY <1>1 DEF durable, Positioned
  <1>2. ASSUME NEW t \in Threads, Publish(t)
        PROVE  Positioned'
    <2>1. last' = last + 1 /\ last \in Nat /\ last' \in Nat
      BY <1>2 DEF Publish, Positioned
    <2>2. PICK row : commits' = commits \cup {Log!CommitOf(row, last + 1)}
      BY <1>2 DEF Publish, Log!Publish
    <2>3. \A k \in commits' : k \in commits \/ k.position = last + 1
      BY <2>2 DEF Log!CommitOf
    <2>4. \A k \in commits' : k.position \in Nat /\ k.position <= last'
      BY <2>1, <2>3 DEF Positioned
    <2> QED
      BY <2>1, <2>4 DEF Positioned
  <1> QED
    BY <1>1, <1>2, StepKinds

\* Nothing but the append of a handler writes, and what it passes is a request.
LEMMA LogStep ==
  ASSUME WInv, Positioned, [Next]_vars
  PROVE  [Log!LogNext]_<<commits, Events, next, {}>>
  <1>1. CASE UNCHANGED durable
    <2>1. Events' = Events
      BY <1>1 DEF durable, Events
    <2> QED
      BY <1>1, <2>1 DEF durable
  <1>2. ASSUME NEW t \in Threads, Publish(t)
        PROVE  Log!LogNext
    <2>1. PICK row : row = Row(Request(t), state[t])
      OBVIOUS
    <2>2. row \in Rows
      BY <1>2, <2>1, RowType DEF Publish
    <2>3. Log!Publish(row, last + 1)
      BY <1>2, <2>1 DEF Publish
    <2>4. last + 1 \in Nat
      BY DEF Positioned
    <2> QED
      BY <2>2, <2>3, <2>4 DEF Log!LogNext
  <1> QED
    BY <1>1, <1>2, StepKinds

\* The handlers of workspaces, directions and crystallisations use the log as
\* CommandLog promises it: what they append are requests of the store, and nothing
\* else writes.
THEOREM WorkspaceImplementsLog == Spec => Log!LogSpec
  <1>1. Init => Log!LogInit
    BY DEF Init, Log!LogInit, Events
  <1>2. WInv /\ Positioned /\ [Next]_vars => [Log!LogNext]_(Log!logVars)
    BY LogStep DEF Log!logVars
  <1> QED
    BY <1>1, <1>2, WInvariance, PositionedInit, PositionedKept, PTL DEF Spec, Log!LogSpec

\* A handler that reaches append is refused for no other reason than a known command or
\* a stale stream, and the events it writes, those of composite commands included, are
\* the ones its targets and expected sequences announce.
THEOREM AppendRefusesNothingElse == Spec => [](\A t \in Threads : Unblocked(t))
  <1>1. WInv /\ Positioned => \A t \in Threads : Unblocked(t)
    <2> SUFFICES ASSUME WInv, Positioned, NEW t \in Threads, pc[t] = "append", ~Committed(t), ~Stale(t)
                 PROVE  LET row == Row(Request(t), state[t]) IN
                        /\ \A k \in commits : ~Log!SameCommand(k, row) /\ k.position < last + 1
                        /\ \A a \in DOMAIN row.expected : next[row.universe][a] = row.expected[a]
                        /\ Recorded(FactsOf(Request(t), state[t], last + 1)) = Log!EventsOf(row, last + 1)
      BY DEF Unblocked
    <2>1. PICK row : row = Row(Request(t), state[t])
      OBVIOUS
    <2>2. \A k \in commits : ~Log!SameCommand(k, row)
      BY <2>1 DEF Committed, Prior
    <2>3. \A k \in commits : k.position < last + 1
      BY DEF Positioned
    <2>4. \A a \in DOMAIN row.expected : next[row.universe][a] = row.expected[a]
      BY <2>1 DEF Stale, Length, Row
    <2>5. Recorded(FactsOf(Request(t), state[t], last + 1)) = Log!EventsOf(row, last + 1)
      BY <2>1, FactsFollowRow
    <2> QED
      BY <2>1, <2>2, <2>3, <2>4, <2>5
  <1> QED
    BY <1>1, WInvariance, PositionedInit, PositionedKept, PTL DEF Spec
=============================================================================
