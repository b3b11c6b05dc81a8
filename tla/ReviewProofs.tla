----------------------------- MODULE ReviewProofs -----------------------------
(***************************************************************************)
(* What holds of review rounds and of the evidence gate, for any number of *)
(* users, threads, rounds and candidates.  The handlers check events that  *)
(* may be stale when they append; the expected sequence a client took from *)
(* its screen makes up for it.                                             *)
(*                                                                         *)
(* In four parts: nothing follows what closes a stream; what the evidence  *)
(* gate records; what was shown or answered stays so; the handlers use the *)
(* log as CommandLog promises it.                                          *)
(***************************************************************************)
EXTENDS Review, TLAPS

Creates == {"start", "more"} \cup ProposalOps
Past(t) == pc[t] \in {"guard", "lookup", "generate", "append"}

\* The part of the type invariant the argument needs.
Shapes ==
  /\ next \in [{"universe"} -> [Addresses -> Nat]]
  /\ intent \in [Commands -> Requests]
  /\ pc \in [Threads -> {"idle", "read", "guard", "lookup", "generate", "append"}]
  /\ call \in [Threads -> Commands \cup {None}]
  /\ DOMAIN state = Threads
  /\ \A t \in Threads :
       /\ "open" \in DOMAIN state[t]
       /\ pc[t] # "idle" => call[t] \in Commands /\ intent[call[t]].op # None

\* Every event lies below the length of its stream.
Bounded ==
  \A f \in facts : f.at \in Addresses /\ f.sequence \in Nat /\ f.sequence < Length(f.at)

\* An intent names an existing target or streams of its own, and its expected
\* sequence has been the length of its stream.
Behind(k) ==
  /\ intent[k].command = k
  /\ intent[k].op = None => \A kind \in {"round", "challenge", "candidate"} : Length(<<kind, k>>) = 0
  /\ intent[k].op \in Creates => intent[k].expected = 0
  /\ intent[k].op \notin Creates \cup {None} => Exists(intent[k].target)
  /\ intent[k].op \in DecisionOps => intent[k].target \in {"candidate"} \X Commands
  /\ intent[k].op # None => intent[k].expected <= Length(Stream(intent[k]))

IntentsBehind == \A k \in Commands : Behind(k)

\* Once a stream is closed, whoever found it open has a stale expectation.
Fenced ==
  \A t \in Threads :
    /\ pc[t] = "append" /\ Request(t).op \in DecisionOps => state[t].open
    /\ /\ Past(t)
       /\ Request(t).op \in DecisionOps => state[t].open
       /\ Closed(Stream(Request(t)))
       => Request(t).expected < Length(Stream(Request(t)))

RInv == Shapes /\ Bounded /\ IntentsBehind /\ Fenced /\ ClosingIsFinal

-----------------------------------------------------------------------------
\* Where an intent appends is a stream.
LEMMA StreamType ==
  ASSUME Shapes, Bounded, IntentsBehind, NEW k \in Commands, intent[k].op # None
  PROVE  Stream(intent[k]) \in Addresses
  <1>1. intent[k].command = k
    BY DEF IntentsBehind, Behind
  <1>2. CASE intent[k].op \in Creates
    BY <1>1, <1>2 DEF Stream, Creates, Addresses, ProposalOps
  <1>3. CASE intent[k].op \notin Creates
    <2>1. intent[k].target \in Addresses
      BY <1>3 DEF IntentsBehind, Behind, Exists, Bounded
    <2> QED
      BY <1>3, <2>1 DEF Stream, Creates
  <1> QED
    BY <1>2, <1>3

\* The invariant holds before the first command.
LEMMA RInvInit == Init => RInv
  <1> SUFFICES ASSUME Init
               PROVE  RInv
    OBVIOUS
  <1>1. \A a \in Addresses : Length(a) = 0
    BY DEF Init, Length
  <1>2. \A k \in Commands : Unissued(k) \in Requests
    BY DEF Unissued, Requests
  <1>3. Shapes
    BY <1>2 DEF Init, Shapes, Unread
  <1>4. IntentsBehind
    <2>1. \A k \in Commands : intent[k].command = k /\ intent[k].op = None
      BY DEF Init, Unissued
    <2> QED
      BY <1>1, <2>1 DEF IntentsBehind, Behind, Addresses, Creates, ProposalOps, DecisionOps, None
  <1> QED
    BY <1>3, <1>4 DEF Init, RInv, Bounded, Fenced, Past, ClosingIsFinal

-----------------------------------------------------------------------------
\* The steps that leave the log alone keep what is said of the log.
LEMMA LogUnchanged ==
  ASSUME Bounded, ClosingIsFinal, UNCHANGED durable
  PROVE  /\ Bounded' /\ ClosingIsFinal'
         /\ \A a : Length(a)' = Length(a)
         /\ \A a : Exists(a)' = Exists(a)
         /\ \A a : Closed(a)' = Closed(a)
  BY DEF durable, Bounded, ClosingIsFinal, Length, Exists, Closed

\* Nor do they touch what an intent was bound to.
LEMMA IntentsKept ==
  ASSUME Bounded, ClosingIsFinal, IntentsBehind, UNCHANGED durable, UNCHANGED intent
  PROVE  IntentsBehind'
  <1> SUFFICES ASSUME NEW k \in Commands
               PROVE  Behind(k)'
    BY DEF IntentsBehind
  <1>1. Behind(k)
    BY DEF IntentsBehind
  <1>2. intent'[k] = intent[k]
    OBVIOUS
  <1>3. Stream(intent[k])' = Stream(intent[k])
    BY <1>2 DEF Stream
  <1>4. Length(Stream(intent[k]))' = Length(Stream(intent[k]))
    BY <1>3 DEF Length, durable
  <1>5. /\ \A a : Length(a)' = Length(a)
        /\ \A a : Exists(a)' = Exists(a)
    BY LogUnchanged
  <1>6. Exists(intent[k].target)' = Exists(intent[k].target)
    BY DEF Exists, durable
  <1> QED
    BY <1>1, <1>2, <1>4, <1>5, <1>6 DEF Behind

\* A call that ends, with or without an answer, keeps the invariant.
LEMMA EndStep ==
  ASSUME RInv, NEW t \in Threads, End(t), UNCHANGED durable
  PROVE  RInv'
  <1>1. Shapes'
    BY DEF RInv, Shapes, End, Unread, durable
  <1>2. IntentsBehind'
    BY IntentsKept DEF RInv, End
  <1>3. Fenced'
    BY LogUnchanged DEF RInv, Shapes, Fenced, End, Past, Request
  <1> QED
    BY <1>1, <1>2, <1>3, LogUnchanged DEF RInv

\* A step of the handler that neither ends the call nor changes the log.
LEMMA HandlerStep ==
  ASSUME RInv, NEW t \in Threads, NEW step \in {"guard", "lookup", "generate", "append"},
         pc[t] # "idle", Goto(t, step), UNCHANGED durable,
         DOMAIN state' = Threads,
         "open" \in DOMAIN state'[t],
         \A u \in Threads \ {t} : state'[u] = state[u],
         step = "append" /\ Request(t).op \in DecisionOps => state'[t].open,
         (Request(t).op \in DecisionOps => state'[t].open) /\ Closed(Stream(Request(t)))
           => Request(t).expected < Length(Stream(Request(t)))
  PROVE  RInv'
  <1>1. Shapes'
    BY DEF RInv, Shapes, Goto, durable
  <1>2. IntentsBehind'
    BY IntentsKept DEF RInv, Goto
  <1>3. Fenced'
    BY LogUnchanged DEF RInv, Shapes, Fenced, Goto, Past, Request
  <1> QED
    BY <1>1, <1>2, <1>3, LogUnchanged DEF RInv

\* A request is bound at its Issue to the length of its stream, and a stream its
\* command would create is still absent.
LEMMA IssueStep ==
  ASSUME RInv, NEW k \in Commands, NEW op \in Ops, Issue(k, op)
  PROVE  RInv'
  <1>1. PICK target \in Offered(op),
             relation \in IF op \in {"propose", "correct"} THEN Relations ELSE {None},
             material \in IF op \in ProposalOps THEN Materials ELSE {None} :
          intent' = [intent EXCEPT ![k] =
                       [Draft(k, op, target, relation, material) EXCEPT
                          !.expected = Length(Stream(Draft(k, op, target, relation, material)))]]
    BY DEF Issue
  <1> DEFINE d == Draft(k, op, target, relation, material)
             r == intent'[k]
  <1>2. intent[k].op = None /\ UNCHANGED <<durable, pc, call, state>>
    BY DEF Issue
  <1>3. /\ d = [command |-> k, op |-> op, target |-> target, relation |-> relation,
                material |-> material, expected |-> 0]
        /\ target \in Addresses \cup {Claim}
        /\ relation \in Relations \cup {None}
        /\ material \in Materials \cup {None}
        /\ op # "start" => target \in Addresses /\ Exists(target)
        /\ op \in DecisionOps => target[1] = "candidate"
    BY DEF Draft, Offered, RoundOps, ChallengeOps, DecisionOps, ProposalOps
  <1>4. r = [d EXCEPT !.expected = Length(Stream(d))] /\ \A j \in Commands \ {k} : intent'[j] = intent[j]
    BY <1>1 DEF RInv, Shapes
  <1>5. Stream(r) = Stream(d)
    BY <1>3, <1>4 DEF Stream
  <1>6. Stream(d) \in Addresses /\ (op \in Creates => Length(Stream(d)) = 0)
    <2>1. CASE op \in Creates
      <3>1. Stream(d) \in {"round", "challenge", "candidate"} \X {k}
        BY <1>3, <2>1 DEF Stream, Creates, ProposalOps
      <3>2. \A kind \in {"round", "challenge", "candidate"} : Length(<<kind, k>>) = 0
        BY <1>2 DEF RInv, IntentsBehind, Behind
      <3> QED
        BY <3>1, <3>2 DEF Addresses
    <2>2. CASE op \notin Creates
      BY <1>3, <2>2 DEF Stream, Creates
    <2> QED
      BY <2>1, <2>2
  <1>7. Length(Stream(d)) \in Nat
    BY <1>6 DEF Length, RInv, Shapes
  <1>8. r = [command |-> k, op |-> op, target |-> target, relation |-> relation,
             material |-> material, expected |-> Length(Stream(d))]
    BY <1>3, <1>4
  <1> HIDE DEF d, r
  <1>9. op # None
    BY DEF Ops, RoundOps, ProposalOps, ChallengeOps, DecisionOps, None
  <1>10. Shapes'
    <2>1. r \in Requests
      BY <1>3, <1>7, <1>8 DEF Requests
    <2>2. intent' \in [Commands -> Requests]
      BY <1>1, <2>1 DEF RInv, Shapes, r
    <2>3. \A t \in Threads : pc[t] # "idle" => call[t] # k
      BY <1>2 DEF RInv, Shapes
    <2> QED
      BY <1>2, <1>4, <2>2, <2>3 DEF RInv, Shapes, durable
  <1>11. IntentsBehind'
    <2>1. UNCHANGED <<next, facts>>
      BY <1>2 DEF durable
    <2>2. ASSUME NEW j \in Commands, j # k
          PROVE  Behind(j)'
      <3>1. Behind(j) /\ intent'[j] = intent[j]
        BY <1>4, <2>2 DEF RInv, IntentsBehind
      <3> QED
        BY <2>1, <3>1 DEF Behind, Length, Exists, Stream
    <2>3. Behind(k)'
      <3>1. /\ r.command = k
            /\ r.op = op
            /\ r.expected = Length(Stream(d))
            /\ r.target = target
        BY <1>8
      <3>2. Length(Stream(d)) <= Length(Stream(r))
        BY <1>5, <1>7
      <3>3. op \notin Creates => Exists(target) /\ target \in Addresses
        BY <1>3 DEF Creates
      <3>4. op \in DecisionOps => target \in {"candidate"} \X Commands
        BY <1>3, <3>3 DEF Addresses, Creates, DecisionOps, ProposalOps
      <3>5. /\ r.op # None
            /\ r.op \in Creates => r.expected = 0
            /\ r.op \notin Creates \cup {None} => Exists(r.target)
            /\ r.op \in DecisionOps => r.target \in {"candidate"} \X Commands
            /\ r.expected <= Length(Stream(r))
        BY <1>6, <1>9, <3>1, <3>2, <3>3, <3>4
      <3> QED
        BY <2>1, <3>1, <3>5 DEF Behind, Length, Exists, Stream, r
    <2> QED
      BY <2>2, <2>3 DEF IntentsBehind
  <1>12. Fenced'
    <2>1. \A t \in Threads : pc[t] # "idle" => intent'[call[t]] = intent[call[t]]
      BY <1>2, <1>4 DEF RInv, Shapes
    <2> QED
      BY <1>2, <2>1 DEF RInv, Fenced, Past, Request, Stream, Closed, Length, durable
  <1> QED
    BY <1>2, <1>10, <1>11, <1>12, LogUnchanged DEF RInv

\* A request that arrives, the first time or again, keeps the invariant.
LEMMA SendStep ==
  ASSUME RInv, NEW t \in Threads, NEW k \in Commands, Send(t, k)
  PROVE  RInv'
  <1>1. Shapes'
    BY DEF RInv, Shapes, Send, durable
  <1>2. IntentsBehind'
    BY IntentsKept DEF RInv, Send
  <1>3. Fenced'
    BY LogUnchanged DEF RInv, Shapes, Fenced, Send, Past, Request
  <1> QED
    BY <1>1, <1>2, <1>3, LogUnchanged DEF RInv, Send

\* A handler that reads the log finds its stream open, or refuses, or is a
\* decision that will refuse, or creates the stream.
LEMMA ReadStep ==
  ASSUME RInv, NEW t \in Threads, Read(t)
  PROVE  RInv'
  <1> DEFINE r == Request(t)
             step == AfterRead(r.op)
  <1>1. /\ pc[t] = "read" /\ Admissible(r) /\ Goto(t, step) /\ UNCHANGED durable
        /\ state' = [state EXCEPT ![t] =
             [open |-> ~Closed(Stream(r)),
              relation |-> IF r.op \in DecisionOps THEN CandidateRelation(r.target) ELSE None]]
    BY DEF Read
  <1>2. step \in {"guard", "lookup", "generate", "append"} /\ step # "append"
    BY DEF AfterRead
  <1>3. /\ DOMAIN state' = Threads
        /\ "open" \in DOMAIN state'[t]
        /\ state'[t].open = ~Closed(Stream(r))
        /\ \A u \in Threads \ {t} : state'[u] = state[u]
    BY <1>1 DEF RInv, Shapes
  <1>4. call[t] \in Commands /\ r.op # None /\ Behind(call[t])
    BY <1>1 DEF RInv, Shapes, IntentsBehind, Request
  <1>5. (r.op \in DecisionOps => state'[t].open) /\ Closed(Stream(r)) => r.expected < Length(Stream(r))
    <2>1. CASE r.op \in Creates
      <3>1. Closed(Stream(r)) => \E f \in facts : f.sequence \in Nat /\ f.sequence < Length(Stream(r)) /\ Length(Stream(r)) \in Nat
        BY DEF Closed, RInv, Bounded, Shapes, Length
      <3>2. r.expected = 0
        BY <1>4, <2>1 DEF Behind, Request
      <3> QED
        BY <3>1, <3>2
    <2>2. CASE r.op \in DecisionOps
      BY <1>3, <2>2
    <2>3. CASE r.op \notin Creates \cup DecisionOps
      <3>1. r.op \in Ops
        BY <1>4 DEF RInv, Shapes, Requests, Request
      <3>2. r.op = "verdict" \/ r.op \in ChallengeOps
        BY <2>3, <3>1 DEF Ops, RoundOps, Creates
      <3>3. ~Closed(r.target)
        BY <1>1, <3>2 DEF Admissible
      <3>4. Stream(r) = r.target
        BY <3>2 DEF Stream, ChallengeOps, ProposalOps
      <3> QED
        BY <3>3, <3>4
    <2> QED
      BY <2>1, <2>2, <2>3
  <1> HIDE DEF r, step
  <1> QED
    BY <1>1, <1>2, <1>3, <1>5, HandlerStep DEF r

\* The steps of a handler between its read and its append.
LEMMA WaitingStep ==
  ASSUME RInv, NEW t \in Threads, AcquireGuard(t) \/ Lookup(t) \/ Generate(t)
  PROVE  RInv'
  <1> DEFINE r == Request(t)
  <1>1. Past(t) /\ DOMAIN state = Threads /\ "open" \in DOMAIN state[t]
    BY DEF AcquireGuard, Lookup, Generate, Past, RInv, Shapes
  <1>2. (r.op \in DecisionOps => state[t].open) /\ Closed(Stream(r)) => r.expected < Length(Stream(r))
    BY <1>1 DEF RInv, Fenced
  <1>3. CASE AcquireGuard(t)
    BY <1>1, <1>2, <1>3, HandlerStep DEF AcquireGuard
  <1>4. CASE Lookup(t)
    <2>1. r.op \in DecisionOps => state[t].open
      BY <1>4 DEF Lookup, Decidable
    <2>2. (IF r.op = "start" THEN "generate" ELSE "append") \in {"guard", "lookup", "generate", "append"}
      OBVIOUS
    <2> QED
      BY <1>1, <1>2, <1>4, <2>1, <2>2, HandlerStep DEF Lookup
  <1>5. CASE Generate(t)
    <2>1. /\ DOMAIN state' = Threads
          /\ "open" \in DOMAIN state'[t]
          /\ state'[t].open = state[t].open
          /\ \A u \in Threads \ {t} : state'[u] = state[u]
      BY <1>1, <1>5 DEF Generate
    <2>2. \E step \in {"lookup", "append"} : Goto(t, step) /\ (step = "append" => r.op = "start")
      BY <1>5 DEF Generate
    <2> QED
      BY <1>1, <1>2, <1>5, <2>1, <2>2, HandlerStep DEF Generate, DecisionOps
  <1> QED
    BY <1>3, <1>4, <1>5

-----------------------------------------------------------------------------
\* What a commit adds, and what it has checked under the fence of the log.
LEMMA PublishAdds ==
  ASSUME RInv, NEW t \in Threads, Publish(t)
  PROVE  LET r == Request(t) s == state[t] T == Targets(r, s) IN
         /\ T \subseteq Addresses
         /\ Length(Stream(r)) = r.expected
         /\ r.expected \in Nat
         /\ \A a \in T \ {Stream(r)} : a = OwnChallenge(r) /\ Length(a) = 0
         /\ \A a \in Addresses : Length(a)' = IF a \in T THEN Length(a) + 1 ELSE Length(a)
         /\ \A f \in facts' \ facts : f.at \in T /\ f.sequence = Length(f.at)
         /\ \A f, g \in facts' \ facts : f.at = g.at => f = g
         /\ facts \subseteq facts'
         /\ UNCHANGED intent
  <1> DEFINE r == Request(t)
             s == state[t]
             T == Targets(r, s)
  <1>1. call[t] \in Commands /\ r.op # None /\ r.command = call[t] /\ Behind(call[t]) /\ r \in Requests
    BY DEF RInv, Shapes, IntentsBehind, Behind, Publish, Request
  <1>2. Stream(r) \in Addresses
    BY <1>1, StreamType DEF RInv, Request
  <1>3. OwnChallenge(r) \in Addresses
    BY <1>1 DEF OwnChallenge, Addresses
  <1>4. WithChallenge(r, s) => Stream(r) # OwnChallenge(r)
    <2>1. CASE r.op = "start"
      BY <2>1 DEF Stream, OwnChallenge
    <2>2. CASE r.op \in DecisionOps
      <3>1. Stream(r) = r.target
        BY <2>2 DEF Stream, DecisionOps, ProposalOps
      <3>2. r.target \in {"candidate"} \X Commands
        BY <1>1, <2>2 DEF Behind, Request
      <3> QED
        BY <3>1, <3>2 DEF OwnChallenge
    <2> QED
      BY <2>1, <2>2 DEF WithChallenge, DecisionOps
  <1>5. T \subseteq Addresses
    BY <1>2, <1>3 DEF Targets
  <1>6. \A a \in T \ {Stream(r)} : a = OwnChallenge(r)
    BY DEF Targets
  <1>7. LET row == Row(r, s) IN
        /\ row.universe = "universe"
        /\ row.expected = [a \in T |-> IF a = Stream(r) THEN r.expected ELSE 0]
        /\ row.appends = [a \in T |-> 1]
    BY DEF Row
  <1>8. Log!Publish(Row(r, s), last + 1) /\ facts' = facts \cup FactsOf(r, s, last + 1) /\ UNCHANGED intent
    BY DEF Publish, End
  <1>9. r.expected \in Nat
    BY <1>1 DEF Requests
  <1>10. \A a \in T : Length(a) = IF a = Stream(r) THEN r.expected ELSE 0
    BY <1>7, <1>8 DEF Log!Publish, Length
  <1>11. next' = [next EXCEPT !["universe"] =
                   [a \in Addresses |-> IF a \in T THEN (IF a = Stream(r) THEN r.expected ELSE 0) + 1
                                                   ELSE next["universe"][a]]]
    BY <1>7, <1>8 DEF Log!Publish, Log!Advanced
  <1>12. \A a \in Addresses : Length(a)' = IF a \in T THEN Length(a) + 1 ELSE Length(a)
    BY <1>10, <1>11 DEF Length, RInv, Shapes
  <1>13. \A f \in FactsOf(r, s, last + 1) :
           \/ f.at = Stream(r) /\ f.sequence = r.expected /\ f = MainFact(r, s, last + 1)
           \/ /\ WithChallenge(r, s) /\ f.at = OwnChallenge(r) /\ f.sequence = 0
              /\ f = ChallengeFact(r, last + 1)
    BY DEF FactsOf, MainFact, ChallengeFact
  <1>14. Stream(r) \in T /\ (WithChallenge(r, s) => OwnChallenge(r) \in T)
    BY DEF Targets
  <1> HIDE DEF r, s, T
  <1>15. \A f \in facts' \ facts : f.at \in T /\ f.sequence = Length(f.at)
    BY <1>4, <1>8, <1>10, <1>13, <1>14
  <1>16. \A f, g \in facts' \ facts : f.at = g.at => f = g
    BY <1>4, <1>8, <1>13
  <1> QED
    BY <1>5, <1>6, <1>8, <1>9, <1>10, <1>12, <1>14, <1>15, <1>16 DEF r, s, T

\* The streams a commit extends belong to its command or have events already.
LEMMA PublishTargets ==
  ASSUME RInv, NEW t \in Threads, Publish(t),
         NEW a \in Targets(Request(t), state[t])
  PROVE  a[2] = call[t] \/ Length(a) # 0
  <1> DEFINE r == Request(t)
  <1>1. r.op # None /\ r.command = call[t] /\ Behind(call[t])
    BY DEF RInv, Shapes, IntentsBehind, Behind, Publish, Request
  <1>2. CASE a = OwnChallenge(r)
    BY <1>1, <1>2 DEF OwnChallenge
  <1>3. CASE a = Stream(r) /\ r.op \in Creates
    BY <1>1, <1>3 DEF Stream, Creates
  <1>4. CASE a = Stream(r) /\ r.op \notin Creates
    <2>1. a = r.target
      BY <1>4 DEF Stream, Creates
    <2>2. Exists(a)
      BY <1>1, <1>4, <2>1 DEF Behind, Request
    <2>3. PICK f \in facts : f.at = a /\ a \in Addresses /\ f.sequence \in Nat /\ f.sequence < Length(a)
      BY <2>2 DEF Exists, RInv, Bounded
    <2>4. Length(a) \in Nat
      BY <2>3 DEF RInv, Shapes, Length
    <2> QED
      BY <2>3, <2>4
  <1> QED
    BY <1>2, <1>3, <1>4 DEF Targets

\* A commit keeps the invariant: whoever found the closed stream open now has
\* a stale expectation.
LEMMA PublishStep ==
  ASSUME RInv, NEW t \in Threads, Publish(t)
  PROVE  RInv'
  <1> DEFINE T == Targets(Request(t), state[t])
  <1>1. /\ T \subseteq Addresses
        /\ Length(Stream(Request(t))) = Request(t).expected
        /\ \A a \in T \ {Stream(Request(t))} : Length(a) = 0
        /\ \A a \in Addresses : Length(a)' = IF a \in T THEN Length(a) + 1 ELSE Length(a)
        /\ \A f \in facts' \ facts : f.at \in T /\ f.sequence = Length(f.at)
        /\ \A f, g \in facts' \ facts : f.at = g.at => f = g
        /\ facts \subseteq facts'
        /\ UNCHANGED intent
    BY PublishAdds
  <1>2. \A a \in Addresses : Length(a) \in Nat
    BY DEF RInv, Shapes, Length
  <1>3. \A a \in T : a[2] = call[t] \/ Length(a) # 0
    BY PublishTargets
  <1>4. /\ End(t)
        /\ call[t] \in Commands /\ intent[call[t]].op # None
    BY DEF Publish, RInv, Shapes
  <1> HIDE DEF T
  <1>5. Shapes'
    <2>1. next' = Log!Advanced(Row(Request(t), state[t]))
      BY DEF Publish, Log!Publish
    <2>2. Row(Request(t), state[t]).universe = "universe"
      BY DEF Row
    <2>3. next' \in [{"universe"} -> [Addresses -> Nat]]
      <3>1. next' = [next EXCEPT !["universe"] = next'["universe"]]
            /\ DOMAIN next'["universe"] = Addresses
        BY <2>1, <2>2 DEF Log!Advanced, RInv, Shapes
      <3>2. \A a \in Addresses : next'["universe"][a] \in Nat
        BY <1>1, <1>2 DEF Length
      <3>3. next'["universe"] = [a \in Addresses |-> next'["universe"][a]]
        BY <2>1, <2>2 DEF Log!Advanced, RInv, Shapes
      <3>4. next'["universe"] \in [Addresses -> Nat]
        BY <3>2, <3>3
      <3> QED
        BY <3>1, <3>4 DEF RInv, Shapes
    <2> QED
      BY <1>4, <2>3 DEF RInv, Shapes, End, Unread
  <1>6. Bounded'
    <2>1. \A f \in facts' : f \in facts \/ (f.at \in T /\ f.sequence = Length(f.at))
      BY <1>1
    <2>2. \A f \in facts' : f.at \in Addresses /\ f.sequence \in Nat /\ f.sequence < Length(f.at)'
      BY <1>1, <1>2, <2>1 DEF RInv, Bounded
    <2> QED
      BY <2>2 DEF Bounded, Length
  <1>7. IntentsBehind'
    <2>1. ASSUME NEW k \in Commands
          PROVE  Behind(k)'
      <3>1. Behind(k) /\ intent'[k] = intent[k]
        BY <1>1 DEF RInv, IntentsBehind
      <3>2. intent[k].op = None =>
              \A kind \in {"round", "challenge", "candidate"} : Length(<<kind, k>>)' = 0
        <4>1. SUFFICES ASSUME intent[k].op = None, NEW kind \in {"round", "challenge", "candidate"}
                       PROVE  Length(<<kind, k>>)' = 0
          OBVIOUS
        <4>2. Length(<<kind, k>>) = 0 /\ <<kind, k>> \in Addresses /\ <<kind, k>>[2] = k
          BY <3>1, <4>1 DEF Behind, Addresses
        <4>3. <<kind, k>> \notin T
          BY <1>3, <1>4, <4>1, <4>2
        <4> QED
          BY <1>1, <4>2, <4>3
      <3>3. intent[k].op # None => intent[k].expected <= Length(Stream(intent[k]))'
        <4>1. SUFFICES ASSUME intent[k].op # None
                       PROVE  intent[k].expected <= Length(Stream(intent[k]))'
          OBVIOUS
        <4> DEFINE a == Stream(intent[k])
        <4>2. a \in Addresses /\ intent[k].expected <= Length(a) /\ intent[k].expected \in Nat
          BY <3>1, <4>1, StreamType DEF RInv, Shapes, Requests, Behind
        <4>3. Length(a)' >= Length(a) /\ Length(a)' \in Nat
          <5>1. \A b \in Addresses : next'["universe"][b] >= Length(b) /\ next'["universe"][b] \in Nat
            BY <1>1, <1>2 DEF Length
          <5> QED
            BY <3>1, <4>2, <5>1 DEF Length, Stream
        <4> QED
          BY <1>2, <4>2, <4>3
      <3>4. intent[k].op \notin Creates \cup {None} => Exists(intent[k].target)'
        BY <1>1, <3>1 DEF Behind, Exists
      <3> QED
        BY <1>1, <3>1, <3>2, <3>3, <3>4 DEF Behind
    <2> QED
      BY <2>1 DEF IntentsBehind
  <1>8. Fenced'
    <2>1. ASSUME NEW u \in Threads, u # t
          PROVE  pc'[u] = pc[u] /\ call'[u] = call[u] /\ state'[u] = state[u] /\ intent' = intent
      BY <1>1, <1>4, <2>1 DEF End
    <2>2. pc'[t] = "idle"
      BY <1>4 DEF End, RInv, Shapes
    <2>3. ASSUME NEW u \in Threads, u # t, Past(u),
                 Request(u).op \in DecisionOps => state[u].open,
                 Closed(Stream(Request(u)))'
          PROVE  Request(u).expected < Length(Stream(Request(u)))'
      <3> DEFINE r == Request(u)
                 a == Stream(r)
      <3>1. /\ call[u] \in Commands /\ r.op # None /\ Behind(call[u])
            /\ a \in Addresses /\ r.expected \in Nat
        BY <2>3, StreamType DEF RInv, Shapes, IntentsBehind, Past, Request, Requests
      <3>2. r.expected <= Length(a)
        BY <3>1 DEF Behind, Request
      <3>3. r' = r /\ a' = a
        BY <2>1, <2>3 DEF Request, Stream
      <3>4. next'["universe"][a] = IF a \in T THEN Length(a) + 1 ELSE Length(a)
        BY <1>1, <3>1 DEF Length
      <3>5. Closed(a) \/ a \in T
        BY <1>1, <2>3, <3>3 DEF Closed
      <3>6. Closed(a) => r.expected < Length(a)
        BY <2>3 DEF RInv, Fenced
      <3>7. r.expected < next'["universe"][a]
        BY <1>2, <3>1, <3>2, <3>4, <3>5, <3>6
      <3> QED
        BY <3>3, <3>7 DEF Length
    <2>4. ASSUME NEW u \in Threads, u # t
          PROVE  /\ Past(u)' = Past(u) /\ Request(u)' = Request(u)
                 /\ Stream(Request(u))' = Stream(Request(u))
      BY <2>1, <2>4 DEF Past, Request, Stream
    <2> QED
      BY <2>1, <2>2, <2>3, <2>4 DEF RInv, Fenced, Past
  <1>9. ClosingIsFinal'
    <2>1. SUFFICES ASSUME NEW f \in facts', NEW g \in facts', f.type \in Closing, g.at = f.at, g # f
                   PROVE  g.sequence < f.sequence
      BY DEF ClosingIsFinal
    <2>2. CASE f \in facts /\ g \in facts
      BY <2>1, <2>2 DEF RInv, ClosingIsFinal
    <2>3. CASE f \notin facts /\ g \in facts
      BY <1>1, <2>1, <2>3 DEF RInv, Bounded
    <2>4. CASE f \in facts /\ g \notin facts
      <3>1. g.at \in T /\ Closed(g.at) /\ Length(g.at) # 0
        BY <1>1, <1>2, <2>1, <2>4 DEF Closed, RInv, Bounded
      <3>2. g.at = Stream(Request(t))
        BY <1>1, <3>1
      <3>3. Request(t).expected < Length(Stream(Request(t)))
        BY <3>1, <3>2 DEF RInv, Fenced, Publish, Past
      <3>4. Length(Stream(Request(t))) \in Nat
        BY <1>1, <1>2, <3>1, <3>2
      <3> QED
        BY <1>1, <3>3, <3>4
    <2>5. CASE f \notin facts /\ g \notin facts
      BY <1>1, <2>1, <2>5
    <2> QED
      BY <2>2, <2>3, <2>4, <2>5
  <1> QED
    BY <1>5, <1>6, <1>7, <1>8, <1>9 DEF RInv

-----------------------------------------------------------------------------
\* Every step keeps the invariant.
LEMMA RInvStep ==
  ASSUME RInv, [Next]_vars
  PROVE  RInv'
  <1>1. CASE UNCHANGED vars
    <2>1. UNCHANGED durable /\ UNCHANGED <<intent, pc, call, state>>
      BY <1>1 DEF vars, durable
    <2>2. Shapes'
      BY <2>1 DEF durable, RInv, Shapes
    <2>3. IntentsBehind'
      BY <2>1, IntentsKept DEF RInv
    <2>4. Fenced'
      BY <2>1, LogUnchanged DEF RInv, Fenced, Past, Request
    <2> QED
      BY <2>1, <2>2, <2>3, <2>4, LogUnchanged DEF RInv
  <1>2. ASSUME NEW t \in Threads, Replay(t) \/ Refuse(t) \/ Abandon(t)
        PROVE  RInv'
    BY <1>2, EndStep DEF Replay, Refuse, RefuseRead, RefuseGenerate, RefuseLookup, RefuseAppend, Abandon
  <1> QED
    BY <1>1, <1>2, IssueStep, SendStep, ReadStep, WaitingStep, PublishStep DEF Next

\* A round has one verdict, a deferred or withdrawn challenge and a decided
\* candidate see no later event, for any number of users, threads and rounds.
THEOREM ClosingIsFinalHolds == Spec => []ClosingIsFinal
  <1>1. RInv => ClosingIsFinal
    BY DEF RInv
  <1> QED
    BY <1>1, RInvInit, RInvStep, PTL DEF Spec

-----------------------------------------------------------------------------
\* The guard of command_execution admits one thread per command, so what the
\* lookup inside it found cannot change before that thread appends.
Guarded ==
  /\ \A t, u \in Threads : InGuard(t) /\ InGuard(u) /\ call[t] = call[u] => t = u
  /\ \A t \in Threads :
       pc[t] \in {"generate", "append"} /\ Request(t).op = "start" => ~Committed(t)

\* The key of the row a request passes to append.
LEMMA RowKey ==
  \A r, s : Row(r, s).universe = "universe" /\ Row(r, s).command = r.command
  BY DEF Row

\* The commits of a command are those with its id.
LEMMA PriorById ==
  ASSUME Shapes, IntentsBehind, NEW t \in Threads, pc[t] # "idle"
  PROVE  Prior(t) = {k \in commits : k.universe = "universe" /\ k.command = call[t]}
  <1>1. call[t] \in Commands /\ Request(t).command = call[t]
    BY DEF Shapes, IntentsBehind, Behind, Request
  <1>2. Row(Request(t), state[t]).universe = "universe" /\ Row(Request(t), state[t]).command = call[t]
    BY <1>1, RowKey
  <1> QED
    BY <1>2 DEF Prior, Log!SameCommand

\* No thread is in the guard before the first command.
LEMMA GuardedInit == Init => Guarded
  BY DEF Init, Guarded, InGuard

\* Every step keeps the guard: a commit of the command needs a thread of the
\* same command, and only one is inside.
LEMMA GuardedStep ==
  ASSUME RInv, RInv', Guarded, [Next]_vars
  PROVE  Guarded'
  <1>1. \A t \in Threads : pc[t] # "idle" =>
          /\ Committed(t) <=> \E k \in commits : k.universe = "universe" /\ k.command = call[t]
          /\ call[t] \in Commands /\ intent[call[t]].op # None
    BY PriorById DEF RInv, Shapes, Committed
  <1>2. \A t \in Threads : pc'[t] # "idle" =>
          (Committed(t)' <=> \E k \in commits' : k.universe = "universe" /\ k.command = call'[t])
    <2>1. ASSUME NEW t \in Threads, pc'[t] # "idle"
          PROVE  Prior(t)' = {k \in commits' : k.universe = "universe" /\ k.command = call'[t]}
      <3>1. call'[t] \in Commands /\ Request(t)'.command = call'[t]
        BY <2>1 DEF RInv, Shapes, IntentsBehind, Behind, Request
      <3>2. /\ Row(Request(t)', state'[t]).universe = "universe"
            /\ Row(Request(t)', state'[t]).command = call'[t]
        BY <3>1, RowKey
      <3> QED
        BY <3>2 DEF Prior, Log!SameCommand
    <2> QED
      BY <2>1 DEF Committed
  <1>3. CASE UNCHANGED <<commits, pc, call>> /\ \A t \in Threads : pc[t] # "idle" => intent'[call[t]] = intent[call[t]]
    BY <1>1, <1>2, <1>3 DEF Guarded, InGuard, Request
  <1>4. ASSUME NEW t \in Threads, pc'[t] \in {"idle", "read", "guard"}, UNCHANGED <<commits, intent>>,
               \A u \in Threads \ {t} : pc'[u] = pc[u] /\ call'[u] = call[u]
        PROVE  Guarded'
    BY <1>1, <1>2, <1>4 DEF Guarded, InGuard, Request
  <1>5. ASSUME NEW t \in Threads, pc'[t] \in {"lookup", "generate", "append"},
               UNCHANGED <<commits, intent, call>>, pc[t] # "idle",
               \A u \in Threads \ {t} : pc'[u] = pc[u],
               Request(t).op = "start" =>
                 /\ \A u \in Threads \ {t} : InGuard(u) => call[u] # call[t]
                 /\ pc'[t] # "lookup" => ~Committed(t)
        PROVE  Guarded'
    BY <1>1, <1>2, <1>5 DEF Guarded, InGuard, Request
  <1>6. ASSUME NEW k \in Commands, NEW op \in Ops, Issue(k, op)
        PROVE  Guarded'
    <2>1. \A j \in Commands \ {k} : intent'[j] = intent[j]
      BY <1>6 DEF Issue, RInv, Shapes
    <2> QED
      BY <1>1, <1>3, <1>6, <2>1 DEF Issue, durable
  <1>7. ASSUME NEW t \in Threads,
               \/ \E k \in Commands : Send(t, k)
               \/ Replay(t) \/ Refuse(t) \/ Abandon(t)
        PROVE  Guarded'
    <2>1. /\ pc'[t] \in {"idle", "read"}
          /\ UNCHANGED <<commits, intent>>
          /\ \A u \in Threads \ {t} : pc'[u] = pc[u] /\ call'[u] = call[u]
      BY <1>7 DEF Send, Replay, Refuse, RefuseRead, RefuseGenerate, RefuseLookup, RefuseAppend, Abandon, End,
                  durable, RInv, Shapes
    <2> QED
      BY <1>4, <2>1
  <1>8. ASSUME NEW t \in Threads, Read(t)
        PROVE  Guarded'
    <2>1. /\ pc'[t] = AfterRead(Request(t).op)
          /\ pc[t] = "read"
          /\ UNCHANGED <<commits, intent, call>>
          /\ \A u \in Threads \ {t} : pc'[u] = pc[u]
      BY <1>8 DEF Read, Goto, durable, RInv, Shapes
    <2>2. CASE Request(t).op = "start"
      BY <1>4, <2>1, <2>2 DEF AfterRead
    <2>3. CASE Request(t).op # "start"
      BY <1>5, <2>1, <2>3 DEF AfterRead
    <2> QED
      BY <2>2, <2>3
  <1>9. ASSUME NEW t \in Threads, AcquireGuard(t)
        PROVE  Guarded'
    <2>1. /\ pc'[t] = "lookup" /\ pc[t] = "guard"
          /\ UNCHANGED <<commits, intent, call>>
          /\ \A u \in Threads \ {t} : pc'[u] = pc[u]
          /\ \A u \in Threads : InGuard(u) => call[u] # call[t]
      BY <1>9 DEF AcquireGuard, Goto, durable, RInv, Shapes
    <2> QED
      BY <1>5, <2>1
  <1>10. ASSUME NEW t \in Threads, Lookup(t) \/ Generate(t)
         PROVE  Guarded'
    <2>1. /\ pc'[t] \in {"lookup", "generate", "append"} /\ pc[t] \in {"lookup", "generate"}
          /\ UNCHANGED <<commits, intent, call>>
          /\ \A u \in Threads \ {t} : pc'[u] = pc[u]
          /\ pc[t] = "lookup" => ~Committed(t)
      BY <1>10 DEF Lookup, Generate, Goto, durable, RInv, Shapes
    <2>2. Request(t).op = "start" =>
            /\ \A u \in Threads \ {t} : InGuard(u) => call[u] # call[t]
            /\ ~Committed(t)
      BY <2>1 DEF Guarded, InGuard
    <2> QED
      BY <1>5, <2>1, <2>2
  <1>11. ASSUME NEW t \in Threads, Publish(t)
         PROVE  Guarded'
    <2>1. /\ pc[t] = "append" /\ pc'[t] = "idle" /\ UNCHANGED intent
          /\ \A u \in Threads \ {t} : pc'[u] = pc[u] /\ call'[u] = call[u]
      BY <1>11 DEF Publish, End, RInv, Shapes
    <2>2. \A k \in commits' : k \in commits \/ k.command = call[t]
      <3>1. Request(t).command = call[t]
        BY <1>1, <2>1 DEF Request, RInv, IntentsBehind, Behind
      <3>2. Row(Request(t), state[t]).command = call[t]
        BY <3>1, RowKey
      <3> QED
        BY <1>11, <3>2 DEF Publish, Log!Publish, Log!CommitOf
    <2>3. ASSUME NEW u \in Threads, u # t, pc[u] \in {"generate", "append"}, Request(u).op = "start"
          PROVE  call[u] # call[t] /\ ~Committed(u)
      BY <2>1, <2>3 DEF Guarded, InGuard, Request
    <2> QED
      BY <1>1, <1>2, <2>1, <2>2, <2>3 DEF Guarded, InGuard, Request
  <1>12. CASE UNCHANGED vars
    BY <1>3, <1>12 DEF vars
  <1> QED
    BY <1>6, <1>7, <1>8, <1>9, <1>10, <1>11, <1>12 DEF Next

\* The guard never fails.
LEMMA GuardedAlways == Spec => [](RInv /\ Guarded)
  <1>1. Init => RInv /\ Guarded
    BY RInvInit, GuardedInit
  <1>2. RInv /\ Guarded /\ [Next]_vars => RInv' /\ Guarded'
    BY RInvStep, GuardedStep
  <1> QED
    BY <1>1, <1>2, PTL DEF Spec

\* The guard keeps the generator of first challenges from running for a command
\* that is already committed, or twice at once for one command.
THEOREM GuardedGenerationHolds == Spec => []GuardedGeneration
  <1>1. RInv /\ Guarded => GuardedGeneration
    BY DEF Guarded, GuardedGeneration, InGuard, Request
  <1> QED
    BY <1>1, GuardedAlways, PTL
-----------------------------------------------------------------------------
(***************************************************************************)
(* What the evidence gate records: no material that failed to parse is     *)
(* ever on record as silent, and a contradiction that is let stand has one *)
(* challenge, made by the same commit.  Both rest on the invariant above:  *)
(* a candidate is decided once, so the relation a handler read is the one  *)
(* the candidate still has when the handler appends.                       *)
(***************************************************************************)
Standing == {"evidence_relation_confirmed", "evidence_relation_corrected"}
IsCandidate(a) == a[1] = "candidate"

\* The material of a candidate was parsed: what no later event can take away.
ParsedFor(a) == \E g \in facts : g.at = a /\ g.sequence = 0 /\ g.basis[2] \in Parsed

Numbered == \A f, g \in facts : f.at = g.at /\ f.sequence = g.sequence => f = g

\* A candidate is proposed, then decided; nothing else tells a relation.
WellTold(f) ==
  IF IsCandidate(f.at)
  THEN /\ IF f.sequence = 0 THEN f.type = "evidence_relation_proposed" /\ f.relation \in Relations
                            ELSE f.type \in Decided
       /\ f.relation \in Relations \cup {None}
  ELSE f.type \notin Decided \cup {"evidence_relation_proposed"} /\ f.relation = None

CandidatesWell ==
  \A f \in facts :
    /\ WellTold(f)
    /\ IsCandidate(f.at) =>
         /\ \E g \in facts : g.at = f.at /\ g.sequence = 0
         /\ \A g \in facts : g.at = f.at => g.round = f.round

SilentWell == \A f \in facts : f.relation = "silent" => ParsedFor(f.at)

LetsStand(d) == d.type \in Standing /\ d.relation = "contradicts"
Faces(h) == h.type = "challenge_created" /\ IsCandidate(h.basis)
Twins(d, h) == h.basis = d.at /\ h.position = d.position /\ h.round = d.round

\* A contradiction that stands and its challenge come in one commit.
Matched ==
  /\ \A d \in facts : LetsStand(d) => \E h \in facts : Faces(h) /\ Twins(d, h)
  /\ \A h \in facts : Faces(h) => \E d \in facts : LetsStand(d) /\ Twins(d, h)
  /\ \A g, h \in facts : Faces(g) /\ Faces(h) /\ g.basis = h.basis => g = h

LogWell == Numbered /\ CandidatesWell /\ SilentWell /\ Matched

\* What an intent is about.
AskedWell(k) ==
  /\ intent[k].op = "start" => intent[k].target = Claim
  /\ intent[k].op \in {"propose", "correct"} => intent[k].relation \in Relations
  /\ intent[k].op = "verdict" => intent[k].target[1] = "round"
  /\ intent[k].op \in ChallengeOps => intent[k].target[1] = "challenge"

\* A handler holds no silence about a material that failed to parse.
Honest(r, s, step) ==
  /\ step = "guard" => r.op = "start"
  /\ step = "generate" => r.op \in {"start", "more", "generate"}
  /\ step \in {"lookup", "append"} /\ r.op \in DecisionOps =>
       (s.relation = "silent" => ParsedFor(r.target))
  /\ step \in {"lookup", "append"} /\ r.op = "generate" =>
       s.relation \in Relations /\ (s.relation = "silent" => r.material \in Parsed)
  /\ step \in {"lookup", "append"} /\ r.op = "propose" => (r.relation = "silent" => r.material \in Parsed)
  /\ step = "append" /\ r.op = "correct" => (r.relation = "silent" => ParsedFor(r.target))

States == state \in [Threads -> [open : BOOLEAN, relation : Relations \cup {None}]]

EInv ==
  /\ RInv /\ LogWell /\ States
  /\ \A k \in Commands : AskedWell(k)
  /\ \A t \in Threads : Honest(Request(t), state[t], pc[t])
-----------------------------------------------------------------------------
\* The invariant holds before the first command.
LEMMA EInvInit == Init => EInv
<1> SUFFICES ASSUME Init PROVE EInv
  OBVIOUS
<1>1. RInv
  BY RInvInit
<1>2. LogWell
  BY DEF Init, LogWell, Numbered, CandidatesWell, SilentWell, Matched
<1>3. States
  BY DEF Init, States, Unread
<1>4. \A k \in Commands : AskedWell(k)
  <2>1. \A k \in Commands : intent[k].op = None
    BY DEF Init, Unissued
  <2> QED BY <2>1 DEF AskedWell, None, ChallengeOps
<1>5. \A t \in Threads : Honest(Request(t), state[t], pc[t])
  BY DEF Init, Honest
<1> QED BY <1>1, <1>2, <1>3, <1>4, <1>5 DEF EInv

\* The relation shown for a candidate is one that an event of its stream told.
LEMMA RelationTold ==
  ASSUME RInv, LogWell, NEW c, Exists(c), IsCandidate(c)
  PROVE  \E f \in facts : f.at = c /\ f.relation = CandidateRelation(c) /\ f.relation \in Relations
<1> DEFINE told == {f \in facts : f.at = c /\ f.relation # None}
<1>1. PICK p \in facts : p.at = c /\ p.sequence = 0
  BY DEF Exists, LogWell, CandidatesWell
<1>2. p \in told
  <2>1. p.relation \in Relations
    BY <1>1 DEF LogWell, CandidatesWell, WellTold
  <2> QED BY <1>1, <2>1 DEF Relations, None
<1>3. \A f \in facts : f.at = c => f.sequence \in Nat
  BY DEF RInv, Bounded
<1>4. \A f \in told : f = p \/ f.type \in Closing
  <2>1. ASSUME NEW f \in told PROVE f = p \/ f.type \in Closing
    <3>1. CASE f.sequence = 0
      BY <1>1, <3>1 DEF LogWell, Numbered
    <3>2. CASE f.sequence # 0
      BY <3>2 DEF LogWell, CandidatesWell, WellTold, Closing
    <3> QED BY <3>1, <3>2
  <2> QED BY <2>1
<1>5. \E f \in told : \A g \in told : g.sequence <= f.sequence
  <2>1. CASE \E f \in told : f # p
    <3>1. PICK f \in told : f # p
      BY <2>1
    <3>2. \A g \in told : g # f => g.sequence < f.sequence
      BY <1>4, <3>1 DEF RInv, ClosingIsFinal
    <3> QED BY <1>3, <3>1, <3>2
  <2>2. CASE \A f \in told : f = p
    BY <1>1, <1>2, <2>2
  <2> QED BY <2>1, <2>2
<1>6. PICK f \in told : f.relation = CandidateRelation(c)
  BY <1>5 DEF CandidateRelation
<1>7. f.relation \in Relations
  BY <1>6 DEF LogWell, CandidatesWell, WellTold
<1> QED BY <1>6, <1>7

\* The material of a candidate is that of its first event.
LEMMA MaterialFact ==
  ASSUME Numbered, NEW g \in facts, g.sequence = 0
  PROVE  MaterialOf(g.at) = g.basis[2]
BY DEF MaterialOf, Numbered
-----------------------------------------------------------------------------
\* What is said of the log stays as long as the log does.
LEMMA LogKept ==
  ASSUME LogWell, UNCHANGED facts
  PROVE  LogWell' /\ \A a : ParsedFor(a)' = ParsedFor(a)
BY DEF LogWell, Numbered, CandidatesWell, SilentWell, Matched, ParsedFor, WellTold, IsCandidate,
       LetsStand, Faces, Twins

\* A step of one thread that leaves the log and the intents alone.
LEMMA ThreadStep ==
  ASSUME EInv, RInv', NEW t \in Threads, UNCHANGED durable, UNCHANGED intent,
         \A u \in Threads \ {t} : pc'[u] = pc[u] /\ call'[u] = call[u] /\ state'[u] = state[u],
         States', Honest(Request(t)', state'[t], pc'[t])
  PROVE  EInv'
<1>1. UNCHANGED facts
  BY DEF durable
<1>2. LogWell' /\ \A a : ParsedFor(a)' = ParsedFor(a)
  BY <1>1, LogKept DEF EInv
<1>4. \A k \in Commands : AskedWell(k)'
  BY DEF EInv, AskedWell
<1>5. ASSUME NEW u \in Threads
      PROVE  Honest(Request(u), state[u], pc[u])'
  <2>1. CASE u = t
    BY <1>1, <2>1 DEF Honest, ParsedFor
  <2>2. CASE u # t
    BY <1>1, <2>2 DEF EInv, Honest, ParsedFor, Request
  <2> QED BY <2>1, <2>2
<1> QED BY <1>2, <1>4, <1>5 DEF EInv

\* A call that ends holds nothing.
LEMMA EndingStep ==
  ASSUME EInv, RInv', NEW t \in Threads, End(t), UNCHANGED durable
  PROVE  EInv'
<1>1. pc'[t] = "idle" /\ state' = [state EXCEPT ![t] = Unread] /\ UNCHANGED intent
      /\ \A u \in Threads \ {t} : pc'[u] = pc[u] /\ call'[u] = call[u] /\ state'[u] = state[u]
  BY DEF End, EInv, RInv, Shapes
<1>2. States'
  BY <1>1 DEF EInv, States, Unread
<1>3. Honest(Request(t)', state'[t], pc'[t])
  BY <1>1 DEF Honest
<1> QED BY <1>1, <1>2, <1>3, ThreadStep

\* A request arrives: nothing is held yet.
LEMMA SendingStep ==
  ASSUME EInv, RInv', NEW t \in Threads, NEW k \in Commands, Send(t, k)
  PROVE  EInv'
<1>1. pc'[t] = "read" /\ UNCHANGED <<durable, intent, state>>
      /\ \A u \in Threads \ {t} : pc'[u] = pc[u] /\ call'[u] = call[u] /\ state'[u] = state[u]
  BY DEF Send, EInv, RInv, Shapes
<1>2. States'
  BY <1>1 DEF EInv, States
<1>3. Honest(Request(t)', state'[t], pc'[t])
  BY <1>1 DEF Honest
<1> QED BY <1>1, <1>2, <1>3, ThreadStep

\* A handler reads: the relation of a candidate is on record, and a proposal that is
\* silent about a failed parse is refused.
LEMMA ReadingStep ==
  ASSUME EInv, RInv', NEW t \in Threads, Read(t)
  PROVE  EInv'
<1> DEFINE r == Request(t)
<1>1. /\ pc[t] = "read" /\ pc'[t] = AfterRead(r.op) /\ UNCHANGED <<durable, intent, call>>
      /\ state' = [state EXCEPT ![t] =
             [open |-> ~Closed(Stream(r)),
              relation |-> IF r.op \in DecisionOps THEN CandidateRelation(r.target) ELSE None]]
      /\ \A u \in Threads \ {t} : pc'[u] = pc[u] /\ call'[u] = call[u] /\ state'[u] = state[u]
      /\ Admissible(r)
  BY DEF Read, Goto, EInv, RInv, Shapes
<1>2. r.op \in DecisionOps => Exists(r.target) /\ IsCandidate(r.target)
  <2>1. call[t] \in Commands /\ Behind(call[t])
    BY <1>1 DEF EInv, RInv, Shapes, IntentsBehind
  <2>2. DecisionOps \cap (Creates \cup {None}) = {}
    BY DEF DecisionOps, Creates, ProposalOps, None
  <2> QED BY <2>1, <2>2 DEF Behind, Request, IsCandidate
<1>3. r.op \in DecisionOps =>
        \E f \in facts : f.at = r.target /\ f.relation = CandidateRelation(r.target) /\ f.relation \in Relations
  BY <1>2, RelationTold DEF EInv
<1>4. state'[t].relation = (IF r.op \in DecisionOps THEN CandidateRelation(r.target) ELSE None)
      /\ state'[t] \in [open : BOOLEAN, relation : Relations \cup {None}]
  <2>1. state'[t] = [open |-> ~Closed(Stream(r)),
              relation |-> IF r.op \in DecisionOps THEN CandidateRelation(r.target) ELSE None]
    BY <1>1 DEF EInv, States
  <2>2. (~Closed(Stream(r))) \in BOOLEAN
    BY DEF Closed
  <2> QED BY <1>3, <2>1, <2>2
<1>5. States'
  BY <1>1, <1>4 DEF EInv, States
<1>6. r.op \in DecisionOps => (state'[t].relation = "silent" => ParsedFor(r.target))
  BY <1>3, <1>4 DEF EInv, LogWell, SilentWell
<1>7. r.op = "propose" => (r.relation = "silent" => r.material \in Parsed)
  BY <1>1 DEF Admissible, SilentUnparsed
<1>8. Request(t)' = r
  BY <1>1 DEF Request
<1> HIDE DEF r
<1>9. Honest(r, state'[t], pc'[t])
  BY <1>1, <1>6, <1>7 DEF Honest, AfterRead, DecisionOps
<1> QED BY <1>1, <1>5, <1>8, <1>9, ThreadStep

\* A handler goes on with what it holds.
LEMMA GoingStep ==
  ASSUME EInv, RInv', NEW t \in Threads, AcquireGuard(t) \/ Lookup(t)
  PROVE  EInv'
<1> DEFINE r == Request(t)
<1>1. /\ UNCHANGED <<durable, intent, call, state>> /\ pc[t] # "idle"
      /\ \A u \in Threads \ {t} : pc'[u] = pc[u] /\ call'[u] = call[u] /\ state'[u] = state[u]
  BY DEF AcquireGuard, Lookup, Goto, EInv, RInv, Shapes
<1>2. States'
  BY <1>1 DEF EInv, States
<1>3. Request(t)' = r /\ Honest(r, state[t], pc[t])
  BY <1>1 DEF Request, EInv
<1>4. CASE AcquireGuard(t)
  <2>1. pc[t] = "guard" /\ pc'[t] = "lookup"
    BY <1>4 DEF AcquireGuard, Goto, EInv, RInv, Shapes
  <2>2. r.op = "start"
    BY <1>3, <2>1 DEF Honest
  <2> HIDE DEF r
  <2>3. Honest(r, state'[t], pc'[t])
    BY <2>1, <2>2 DEF Honest, DecisionOps
  <2> QED BY <1>1, <1>2, <1>3, <2>3, ThreadStep
<1>5. CASE Lookup(t)
  <2>1. pc[t] = "lookup" /\ pc'[t] = (IF r.op = "start" THEN "generate" ELSE "append") /\ Decidable(r, state[t])
    BY <1>5 DEF Lookup, Goto, EInv, RInv, Shapes
  <2>2. r.op = "correct" => (r.relation = "silent" => ParsedFor(r.target))
    <3>1. SUFFICES ASSUME r.op = "correct", r.relation = "silent" PROVE ParsedFor(r.target)
      OBVIOUS
    <3>2. MaterialOf(r.target) \in Parsed
      BY <2>1, <3>1 DEF Decidable, SilentUnparsed, DecisionOps
    <3>3. Exists(r.target) /\ IsCandidate(r.target)
      <4>1. call[t] \in Commands /\ Behind(call[t])
        BY <1>1 DEF EInv, RInv, Shapes, IntentsBehind
      <4> QED BY <3>1, <4>1 DEF Behind, Request, IsCandidate, DecisionOps, Creates, ProposalOps, None
    <3>4. PICK g \in facts : g.at = r.target /\ g.sequence = 0
      BY <3>3 DEF Exists, EInv, LogWell, CandidatesWell
    <3>5. MaterialOf(r.target) = g.basis[2]
      BY <3>4, MaterialFact DEF EInv, LogWell
    <3> QED BY <3>2, <3>4, <3>5 DEF ParsedFor
  <2> HIDE DEF r
  <2>3. Honest(r, state'[t], pc'[t])
    BY <1>1, <1>3, <2>1, <2>2 DEF Honest
  <2> QED BY <1>1, <1>2, <1>3, <2>3, ThreadStep
<1> QED BY <1>4, <1>5

\* The generator answers, and is overruled on a failed parse.
LEMMA GeneratingStep ==
  ASSUME EInv, RInv', NEW t \in Threads, Generate(t)
  PROVE  EInv'
<1> DEFINE r == Request(t)
<1>1. /\ pc[t] = "generate" /\ pc'[t] = (IF r.op = "start" THEN "append" ELSE "lookup")
      /\ UNCHANGED <<durable, intent, call>>
      /\ \A u \in Threads \ {t} : pc'[u] = pc[u] /\ call'[u] = call[u] /\ state'[u] = state[u]
  BY DEF Generate, Goto, EInv, RInv, Shapes
<1>2. Request(t)' = r /\ Honest(r, state[t], pc[t])
  BY <1>1 DEF Request, EInv
<1>3. /\ States'
      /\ r.op = "generate" => state'[t].relation \in Relations /\ (state'[t].relation = "silent" => r.material \in Parsed)
  <2>1. CASE r.op # "generate"
    BY <2>1 DEF Generate, EInv, States
  <2>2. CASE r.op = "generate"
    <3>1. PICK relation \in Relations : state' = [state EXCEPT ![t].relation =
                IF r.material \in Parsed THEN relation ELSE "cannot_assess"]
      BY <2>2 DEF Generate
    <3>2. (IF r.material \in Parsed THEN relation ELSE "cannot_assess") \in Relations
      BY DEF Relations
    <3> QED BY <3>1, <3>2 DEF EInv, States
  <2> QED BY <2>1, <2>2
<1> HIDE DEF r
<1>4. Honest(r, state'[t], pc'[t])
  BY <1>1, <1>2, <1>3 DEF Honest, DecisionOps
<1> QED BY <1>1, <1>2, <1>3, <1>4, ThreadStep

\* A request names what the screen offers.
LEMMA IssuingStep ==
  ASSUME EInv, RInv', NEW k \in Commands, NEW op \in Ops, Issue(k, op)
  PROVE  EInv'
<1>1. PICK target \in Offered(op),
           relation \in IF op \in {"propose", "correct"} THEN Relations ELSE {None},
           material \in IF op \in ProposalOps THEN Materials ELSE {None} :
        intent' = [intent EXCEPT ![k] =
                     [Draft(k, op, target, relation, material) EXCEPT
                        !.expected = Length(Stream(Draft(k, op, target, relation, material)))]]
  BY DEF Issue
<1>2. intent[k].op = None /\ UNCHANGED <<durable, pc, call, state>> /\ UNCHANGED facts
  BY DEF Issue, durable
<1>3. /\ intent'[k].op = op /\ intent'[k].target = target /\ intent'[k].relation = relation
      /\ \A j \in Commands \ {k} : intent'[j] = intent[j]
  BY <1>1 DEF EInv, RInv, Shapes, Draft
<1>4. AskedWell(k)'
  BY <1>3 DEF AskedWell, Offered, RoundOps, ChallengeOps, ProposalOps
<1>5. \A j \in Commands : AskedWell(j)'
  BY <1>3, <1>4 DEF EInv, AskedWell
<1>6. ASSUME NEW t \in Threads
      PROVE  Honest(Request(t), state[t], pc[t])'
  <2>1. CASE pc[t] = "idle"
    BY <1>2, <2>1 DEF Honest
  <2>2. CASE pc[t] # "idle"
    <3>1. call[t] \in Commands \ {k}
      BY <1>2, <2>2 DEF EInv, RInv, Shapes
    <3>2. Request(t)' = Request(t)
      BY <1>2, <1>3, <3>1 DEF Request
    <3> QED BY <1>2, <3>2 DEF EInv, Honest, ParsedFor
  <2> QED BY <2>1, <2>2
<1>7. States'
  BY <1>2 DEF EInv, States
<1> QED BY <1>2, <1>5, <1>6, <1>7, LogKept DEF EInv
-----------------------------------------------------------------------------
\* The facts of a commit.
LEMMA Published ==
  ASSUME EInv, NEW t \in Threads, Publish(t),
         NEW r, r = Request(t), NEW s, s = state[t],
         NEW m, m = MainFact(r, s, last + 1), NEW c, c = ChallengeFact(r, last + 1)
  PROVE  /\ facts' = facts \cup {m} \cup (IF WithChallenge(r, s) THEN {c} ELSE {})
         /\ r.op \in Ops /\ r.command = call[t]
         /\ m.at = Stream(r) /\ m.sequence = r.expected /\ m.type = EventType[r.op]
         /\ m.round = RoundFor(r) /\ m.relation = Told(r, s) /\ m.position = last + 1
         /\ m.basis = <<"material", r.material>>
         /\ c.at = <<"challenge", call[t]>> /\ c.sequence = 0 /\ c.type = "challenge_created"
         /\ c.round = RoundFor(r) /\ c.relation = None /\ c.position = last + 1 /\ c.basis = r.target
         /\ Behind(call[t]) /\ AskedWell(call[t]) /\ Honest(r, s, "append") /\ intent[call[t]] = r
         /\ s.relation \in Relations \cup {None}
<1>1. pc[t] = "append" /\ facts' = facts \cup FactsOf(r, s, last + 1)
  BY DEF Publish
<1>2. call[t] \in Commands /\ r = intent[call[t]] /\ r.op # None /\ Behind(call[t]) /\ AskedWell(call[t])
  BY <1>1 DEF EInv, RInv, Shapes, IntentsBehind, Request
<1>3. r.op \in Ops /\ r.command = call[t]
  BY <1>2 DEF EInv, RInv, Shapes, Requests, Behind
<1>4. s.relation \in Relations \cup {None}
  BY DEF EInv, States
<1>5. Honest(r, s, "append")
  BY <1>1 DEF EInv
<1>6. FactsOf(r, s, last + 1) = {m} \cup (IF WithChallenge(r, s) THEN {c} ELSE {})
  BY DEF FactsOf
<1>7. /\ c.at = OwnChallenge(r) /\ c.sequence = 0 /\ c.type = "challenge_created"
      /\ c.round = RoundFor(r) /\ c.relation = None /\ c.position = last + 1 /\ c.basis = r.target
  BY DEF ChallengeFact
<1>8. /\ m.at = Stream(r) /\ m.sequence = r.expected /\ m.type = EventType[r.op]
      /\ m.round = RoundFor(r) /\ m.relation = Told(r, s) /\ m.position = last + 1
      /\ m.basis = <<"material", r.material>>
  BY DEF MainFact
<1> QED BY <1>1, <1>2, <1>3, <1>4, <1>5, <1>6, <1>7, <1>8 DEF OwnChallenge

\* Which operation extends which kind of stream.
LEMMA Kinds ==
  ASSUME NEW r, r.op \in Ops, AskedWell(r.command), Behind(r.command), intent[r.command] = r
  PROVE  /\ r.op \in ProposalOps => Stream(r) = <<"candidate", r.command>> /\ r.expected = 0
         /\ r.op \in DecisionOps => Stream(r) = r.target /\ IsCandidate(r.target) /\ Exists(r.target)
         /\ r.op \notin ProposalOps \cup DecisionOps => ~IsCandidate(Stream(r))
<1>1. CASE r.op \in ProposalOps
  BY <1>1 DEF ProposalOps, DecisionOps, Stream, Behind, Creates
<1>2. CASE r.op \in DecisionOps
  BY <1>2 DEF ProposalOps, DecisionOps, Stream, Behind, Creates, IsCandidate, None
<1>3. CASE r.op \notin ProposalOps \cup DecisionOps
  <2>1. r.op \in {"start", "more", "verdict"} \cup ChallengeOps
    BY <1>3 DEF Ops, RoundOps
  <2>2. CASE r.op \in {"start", "more"}
    BY <2>2 DEF Stream, IsCandidate, ProposalOps, DecisionOps
  <2>3. CASE r.op = "verdict"
    BY <2>3 DEF Stream, IsCandidate, ProposalOps, DecisionOps, AskedWell
  <2>4. CASE r.op \in ChallengeOps
    BY <2>4 DEF Stream, IsCandidate, ProposalOps, DecisionOps, AskedWell, ChallengeOps
  <2> QED BY <2>1, <2>2, <2>3, <2>4
<1> QED BY <1>1, <1>2, <1>3

\* What an operation records.
LEMMA Records ==
  ASSUME NEW op \in Ops
  PROVE  /\ op \in ProposalOps => EventType[op] = "evidence_relation_proposed"
         /\ op \in DecisionOps => EventType[op] \in Decided
         /\ op \notin ProposalOps \cup DecisionOps => EventType[op] \notin Decided \cup {"evidence_relation_proposed"}
         /\ EventType[op] \in Standing <=> op \in {"confirm", "correct"}
         /\ EventType[op] = "challenge_created" <=> op = "more"
BY DEF EventType, Ops, RoundOps, ChallengeOps, ProposalOps, DecisionOps, Decided, Standing

\* A commit keeps the streams numbered.
LEMMA NumberedStep ==
  ASSUME EInv, NEW t \in Threads, Publish(t)
  PROVE  Numbered'
<1>1. /\ \A f \in facts' \ facts : f.at \in Targets(Request(t), state[t]) /\ f.sequence = Length(f.at)
      /\ \A f, g \in facts' \ facts : f.at = g.at => f = g
  BY PublishAdds DEF EInv
<1>2. \A f \in facts : f.sequence < Length(f.at) /\ f.sequence \in Nat
  BY DEF EInv, RInv, Bounded
<1>3. \A f, g \in facts : f.at = g.at /\ f.sequence = g.sequence => f = g
  BY DEF EInv, LogWell, Numbered
<1>4. ASSUME NEW f \in facts', NEW g \in facts', f.at = g.at, f.sequence = g.sequence
      PROVE  f = g
  <2>1. CASE f \in facts /\ g \in facts
    BY <1>3, <1>4, <2>1
  <2>2. CASE f \notin facts /\ g \in facts
    BY <1>1, <1>2, <1>4, <2>2
  <2>3. CASE f \in facts /\ g \notin facts
    BY <1>1, <1>2, <1>4, <2>3
  <2>4. CASE f \notin facts /\ g \notin facts
    BY <1>1, <1>4, <2>4
  <2> QED BY <2>1, <2>2, <2>3, <2>4
<1> QED BY <1>4 DEF Numbered

\* The round of a candidate is that of any of its events.
LEMMA RoundOfCandidate ==
  ASSUME CandidatesWell, NEW f \in facts, IsCandidate(f.at)
  PROVE  RoundOf(f.at) = f.round
BY DEF CandidatesWell, RoundOf

\* A commit keeps the candidates: proposed first, then decided, in one round.
LEMMA CandidatesStep ==
  ASSUME EInv, NEW t \in Threads, Publish(t)
  PROVE  CandidatesWell'
<1> DEFINE r == Request(t)
           s == state[t]
           m == MainFact(r, s, last + 1)
           c == ChallengeFact(r, last + 1)
<1>1. /\ facts' = facts \cup {m} \cup (IF WithChallenge(r, s) THEN {c} ELSE {})
      /\ r.op \in Ops /\ r.command = call[t]
      /\ m.at = Stream(r) /\ m.sequence = r.expected /\ m.type = EventType[r.op]
      /\ m.round = RoundFor(r) /\ m.relation = Told(r, s)
      /\ c.at = <<"challenge", call[t]>> /\ c.type = "challenge_created" /\ c.relation = None
      /\ Behind(call[t]) /\ AskedWell(call[t]) /\ Honest(r, s, "append") /\ intent[call[t]] = r
      /\ s.relation \in Relations \cup {None}
  BY Published
<1>2. Length(Stream(r)) = r.expected /\ facts \subseteq facts'
  BY PublishAdds DEF EInv
<1> HIDE DEF r, s, m, c
<1>3. /\ r.op \in ProposalOps => Stream(r) = <<"candidate", r.command>> /\ r.expected = 0
      /\ r.op \in DecisionOps => Stream(r) = r.target /\ IsCandidate(r.target) /\ Exists(r.target)
      /\ r.op \notin ProposalOps \cup DecisionOps => ~IsCandidate(Stream(r))
  BY <1>1, Kinds
<1>4. \A f \in facts : f.sequence < Length(f.at) /\ f.sequence \in Nat
  BY DEF EInv, RInv, Bounded
<1>5. CandidatesWell
  BY DEF EInv, LogWell
<1>6. /\ r.op \in ProposalOps => m.type = "evidence_relation_proposed"
      /\ r.op \in DecisionOps => m.type \in Decided
      /\ r.op \notin ProposalOps \cup DecisionOps => m.type \notin Decided \cup {"evidence_relation_proposed"}
  BY <1>1, Records
<1>7. WellTold(m)
  <2>1. CASE r.op \in ProposalOps
    <3>1. m.relation \in Relations
      BY <1>1, <2>1 DEF Told, AskedWell, Honest, ProposalOps
    <3>2. IsCandidate(m.at) /\ m.sequence = 0
      BY <1>1, <1>3, <2>1 DEF IsCandidate
    <3> QED BY <1>6, <2>1, <3>1, <3>2 DEF WellTold
  <2>2. CASE r.op \in DecisionOps
    <3>1. IsCandidate(m.at) /\ m.sequence # 0
      BY <1>1, <1>2, <1>3, <1>4, <2>2 DEF Exists
    <3>2. m.relation \in Relations \cup {None}
      BY <1>1, <2>2 DEF Told, AskedWell
    <3> QED BY <1>6, <2>2, <3>1, <3>2 DEF WellTold
  <2>3. CASE r.op \notin ProposalOps \cup DecisionOps
    <3>1. m.relation = None
      BY <1>1, <2>3 DEF Told, ProposalOps, DecisionOps
    <3> QED BY <1>1, <1>3, <1>6, <2>3, <3>1 DEF WellTold
  <2> QED BY <2>1, <2>2, <2>3
<1>8. ~IsCandidate(c.at) /\ WellTold(c)
  BY <1>1 DEF WellTold, IsCandidate, Decided
<1>9. IsCandidate(m.at) => \E g \in facts' : g.at = m.at /\ g.sequence = 0
  <2>1. CASE r.op \in ProposalOps
    BY <1>1, <1>3, <2>1
  <2>2. CASE r.op \in DecisionOps
    BY <1>1, <1>2, <1>3, <1>5, <2>2 DEF Exists, CandidatesWell
  <2> QED BY <1>1, <1>3, <2>1, <2>2
<1>10. ASSUME NEW g \in facts, g.at = m.at, IsCandidate(m.at)
       PROVE  g.round = m.round
  <2>1. r.op \in DecisionOps
    BY <1>1, <1>2, <1>3, <1>4, <1>10
  <2>2. m.round = RoundOf(r.target) /\ m.at = r.target
    BY <1>1, <1>3, <2>1 DEF RoundFor, DecisionOps, RoundOps, ProposalOps
  <2> QED BY <1>5, <1>10, <2>2, RoundOfCandidate
<1>11. ASSUME NEW f \in facts'
       PROVE  /\ WellTold(f)
              /\ IsCandidate(f.at) =>
                   /\ \E g \in facts' : g.at = f.at /\ g.sequence = 0
                   /\ \A g \in facts' : g.at = f.at => g.round = f.round
  <2>1. CASE f \in facts
    BY <1>1, <1>2, <1>5, <1>8, <1>10, <2>1 DEF CandidatesWell
  <2>2. CASE f = m
    BY <1>1, <1>7, <1>8, <1>9, <1>10, <2>2
  <2>3. CASE f = c
    BY <1>8, <2>3
  <2> QED BY <1>1, <2>1, <2>2, <2>3
<1> QED BY <1>11 DEF CandidatesWell, WellTold

\* A commit records no silence about a failed parse.
LEMMA SilentStep ==
  ASSUME EInv, NEW t \in Threads, Publish(t)
  PROVE  SilentWell'
<1> DEFINE r == Request(t)
           s == state[t]
           m == MainFact(r, s, last + 1)
           c == ChallengeFact(r, last + 1)
<1>1. /\ facts' = facts \cup {m} \cup (IF WithChallenge(r, s) THEN {c} ELSE {})
      /\ r.op \in Ops /\ r.command = call[t]
      /\ m.at = Stream(r) /\ m.sequence = r.expected /\ m.relation = Told(r, s)
      /\ m.basis = <<"material", r.material>> /\ c.relation = None
      /\ Behind(call[t]) /\ AskedWell(call[t]) /\ Honest(r, s, "append") /\ intent[call[t]] = r
  BY Published
<1> HIDE DEF r, s, m, c
<1> DEFINE parsed(a) == \E g \in facts' : g.at = a /\ g.sequence = 0 /\ g.basis[2] \in Parsed
<1>2. \A a : ParsedFor(a) => parsed(a)
  BY <1>1 DEF ParsedFor
<1>3. /\ r.op \in ProposalOps => r.expected = 0
      /\ r.op \in DecisionOps => Stream(r) = r.target
  BY <1>1, Kinds
<1>4. m.relation = "silent" => parsed(m.at)
  <2>1. SUFFICES ASSUME m.relation = "silent" PROVE parsed(m.at)
    OBVIOUS
  <2>2. CASE r.op \in ProposalOps
    <3>1. r.material \in Parsed
      BY <1>1, <2>1, <2>2 DEF Told, Honest, ProposalOps
    <3>2. m \in facts' /\ m.sequence = 0 /\ m.basis[2] \in Parsed
      BY <1>1, <1>3, <2>2, <3>1
    <3> QED BY <3>2
  <2>3. CASE r.op \in {"confirm", "correct"}
    <3>1. ParsedFor(r.target)
      BY <1>1, <2>1, <2>3 DEF Told, Honest, DecisionOps
    <3>2. r.target = m.at
      BY <1>1, <1>3, <2>3 DEF DecisionOps
    <3> QED BY <1>2, <3>1, <3>2
  <2> QED BY <1>1, <2>1, <2>2, <2>3 DEF Told, ProposalOps, None
<1>5. \A f \in facts : f.relation = "silent" => parsed(f.at)
  BY <1>2 DEF EInv, LogWell, SilentWell
<1> QED BY <1>1, <1>4, <1>5 DEF SilentWell, None, ParsedFor

\* A commit that lets a contradiction stand brings its challenge, and no other
\* commit brings one: a candidate that has its challenge is decided.
LEMMA MatchedStep ==
  ASSUME EInv, NEW t \in Threads, Publish(t)
  PROVE  Matched'
<1> DEFINE r == Request(t)
           s == state[t]
           m == MainFact(r, s, last + 1)
           c == ChallengeFact(r, last + 1)
           raised == WithChallenge(r, s)
<1>1. /\ facts' = facts \cup {m} \cup (IF raised THEN {c} ELSE {})
      /\ r.op \in Ops /\ r.command = call[t]
      /\ m.at = Stream(r) /\ m.sequence = r.expected /\ m.type = EventType[r.op]
      /\ m.round = RoundFor(r) /\ m.relation = Told(r, s) /\ m.position = last + 1
      /\ m.basis = <<"material", r.material>>
      /\ c.type = "challenge_created"
      /\ c.round = RoundFor(r) /\ c.relation = None /\ c.position = last + 1 /\ c.basis = r.target
      /\ Behind(call[t]) /\ AskedWell(call[t]) /\ intent[call[t]] = r
  BY Published
<1>2. Length(Stream(r)) = r.expected /\ r.expected \in Nat
  BY PublishAdds DEF EInv
<1>3. Closed(Stream(r)) /\ r.op \in DecisionOps => r.expected < Length(Stream(r))
  BY DEF EInv, RInv, Fenced, Publish, Past
<1>4. raised <=> \/ r.op = "start"
                 \/ r.op = "confirm" /\ s.relation = "contradicts"
                 \/ r.op = "correct" /\ r.relation = "contradicts"
  BY DEF WithChallenge
<1> HIDE DEF r, s, m, c, raised
<1>5. r.op \in DecisionOps => Stream(r) = r.target /\ IsCandidate(r.target)
  BY <1>1, Kinds
<1>6. /\ m.type \in Standing <=> r.op \in {"confirm", "correct"}
      /\ m.type = "challenge_created" <=> r.op = "more"
  BY <1>1, Records
<1>7. Matched
  BY DEF EInv, LogWell
<1>8. ~Faces(m) /\ ~LetsStand(c)
  BY <1>1 DEF Faces, LetsStand, IsCandidate, Standing
<1>9. LetsStand(m) <=> raised /\ r.op # "start"
  BY <1>1, <1>4, <1>6 DEF LetsStand, Told
<1>10. raised => (Faces(c) <=> r.op # "start")
  BY <1>1, <1>4, <1>5 DEF Faces, IsCandidate, AskedWell, Claim, DecisionOps
<1>11. raised /\ r.op # "start" => Twins(m, c) /\ r.op \in DecisionOps
  BY <1>1, <1>4, <1>5 DEF Twins, DecisionOps
<1>12. \A g \in facts : Faces(g) /\ raised /\ Faces(c) => g.basis # c.basis
  <2>1. SUFFICES ASSUME NEW g \in facts, Faces(g), raised, Faces(c), g.basis = c.basis
                 PROVE  FALSE
    OBVIOUS
  <2>2. PICK d \in facts : LetsStand(d) /\ Twins(d, g)
    BY <1>7, <2>1 DEF Matched
  <2>3. r.op \in DecisionOps /\ d.at = Stream(r)
    BY <1>1, <1>5, <1>10, <1>11, <2>1, <2>2 DEF Twins
  <2>4. Closed(Stream(r))
    BY <2>2, <2>3 DEF Closed, LetsStand, Standing, Closing, Decided
  <2> QED BY <1>2, <1>3, <2>3, <2>4
<1>13. \A d \in facts' : LetsStand(d) => \E h \in facts' : Faces(h) /\ Twins(d, h)
  BY <1>1, <1>7, <1>8, <1>9, <1>10, <1>11 DEF Matched
<1>14. \A h \in facts' : Faces(h) => \E d \in facts' : LetsStand(d) /\ Twins(d, h)
  BY <1>1, <1>7, <1>8, <1>9, <1>10, <1>11 DEF Matched
<1>15. \A g, h \in facts' : Faces(g) /\ Faces(h) /\ g.basis = h.basis => g = h
  BY <1>1, <1>7, <1>8, <1>12 DEF Matched
<1> QED BY <1>13, <1>14, <1>15 DEF Matched, LetsStand, Faces, Twins, IsCandidate

\* A commit ends the call of its thread and holds for the others what held.
LEMMA PublishingStep ==
  ASSUME EInv, RInv', NEW t \in Threads, Publish(t)
  PROVE  EInv'
<1>1. LogWell'
  BY NumberedStep, CandidatesStep, SilentStep, MatchedStep DEF LogWell
<1>2. facts \subseteq facts' /\ UNCHANGED intent
  BY PublishAdds DEF EInv
<1>3. pc'[t] = "idle" /\ state' = [state EXCEPT ![t] = Unread]
      /\ \A u \in Threads \ {t} : pc'[u] = pc[u] /\ call'[u] = call[u] /\ state'[u] = state[u]
  BY DEF Publish, End, EInv, RInv, Shapes
<1>4. States'
  BY <1>3 DEF EInv, States, Unread
<1>5. \A k \in Commands : AskedWell(k)'
  BY <1>2 DEF EInv, AskedWell
<1>6. ASSUME NEW u \in Threads
      PROVE  Honest(Request(u), state[u], pc[u])'
  <2>1. CASE u = t
    BY <1>3, <2>1 DEF Honest
  <2>2. CASE u # t
    BY <1>2, <1>3, <2>2 DEF EInv, Honest, ParsedFor, Request
  <2> QED BY <2>1, <2>2
<1> QED BY <1>1, <1>4, <1>5, <1>6 DEF EInv

\* Every step keeps the invariant.
LEMMA EInvStep == EInv /\ [Next]_vars => EInv'
<1> SUFFICES ASSUME EInv, [Next]_vars PROVE EInv'
  OBVIOUS
<1>1. RInv'
  BY RInvStep DEF EInv
<1>2. ASSUME NEW t \in Threads, Replay(t) \/ Refuse(t) \/ Abandon(t)
      PROVE  EInv'
  BY <1>1, <1>2, EndingStep DEF Replay, Refuse, RefuseRead, RefuseGenerate, RefuseLookup, RefuseAppend, Abandon
<1>3. CASE UNCHANGED vars
  <2>1. UNCHANGED <<facts, intent, pc, call, state>>
    BY <1>3 DEF vars, durable
  <2> QED BY <1>1, <2>1, LogKept DEF EInv, States, AskedWell, Honest, ParsedFor, Request
<1> QED BY <1>1, <1>2, <1>3, IssuingStep, SendingStep, ReadingStep, GoingStep, GeneratingStep,
           PublishingStep DEF Next

\* So it always holds.
LEMMA EInvariance == Spec => []EInv
<1>1. EInv /\ [Next]_vars => EInv'
  BY EInvStep
<1> QED BY <1>1, EInvInit, PTL DEF Spec

\* A material that failed to parse is never on record as silent, whoever told the
\* relation and however many decide at once.
THEOREM SilentOnlyIfParsedHolds == Spec => []SilentOnlyIfParsed
<1>1. EInv => SilentOnlyIfParsed
  <2>1. SUFFICES ASSUME EInv, NEW f \in facts, f.relation = "silent"
                 PROVE  MaterialOf(f.at) \in Parsed
    BY DEF SilentOnlyIfParsed
  <2>2. PICK g \in facts : g.at = f.at /\ g.sequence = 0 /\ g.basis[2] \in Parsed
    BY <2>1 DEF EInv, LogWell, SilentWell, ParsedFor
  <2> QED BY <2>1, <2>2, MaterialFact DEF EInv, LogWell
<1> QED BY <1>1, EInvariance, PTL

\* A contradiction that is let stand has exactly one challenge, of the same commit,
\* in the round of its candidate, for any number of rival decisions and retries.
THEOREM ContradictionIsChallengedHolds == Spec => []ContradictionIsChallenged
<1>1. EInv => ContradictionIsChallenged
  <2>1. SUFFICES ASSUME EInv, NEW f \in facts, f.type = "evidence_relation_proposed"
                 PROVE  LET standing == {d \in facts : /\ d.at = f.at
                                   /\ d.type \in {"evidence_relation_confirmed",
                                                 "evidence_relation_corrected"}
                                   /\ d.relation = "contradicts"}
                            facing == {h \in facts : h.type = "challenge_created" /\ h.basis = f.at}
                        IN /\ \A g, h \in facing : g = h
                           /\ {<<d.position, f.round>> : d \in standing} = {<<h.position, h.round>> : h \in facing}
    BY DEF ContradictionIsChallenged
  <2> DEFINE standing == {d \in facts : d.at = f.at /\ LetsStand(d)}
             facing == {h \in facts : h.type = "challenge_created" /\ h.basis = f.at}
  <2>2. IsCandidate(f.at)
    BY <2>1 DEF EInv, LogWell, CandidatesWell, WellTold
  <2>3. \A h \in facts : h \in facing <=> Faces(h) /\ h.basis = f.at
    BY <2>2 DEF Faces
  <2>4. \A g, h \in facing : g = h
    BY <2>1, <2>3 DEF EInv, LogWell, Matched
  <2>5. \A d \in standing : \E h \in facing : h.position = d.position /\ h.round = f.round
    BY <2>1, <2>2, <2>3 DEF EInv, LogWell, Matched, CandidatesWell, Twins
  <2>6. \A h \in facing : \E d \in standing : h.position = d.position /\ h.round = f.round
    BY <2>1, <2>2, <2>3 DEF EInv, LogWell, Matched, CandidatesWell, Twins
  <2>7. {<<d.position, f.round>> : d \in standing} = {<<h.position, h.round>> : h \in facing}
    BY <2>5, <2>6
  <2> QED BY <2>4, <2>7 DEF LetsStand, Standing
<1> QED BY <1>1, EInvariance, PTL
-----------------------------------------------------------------------------
(***************************************************************************)
(* What was shown or answered stays so.  A challenge only moves towards    *)
(* its resolution, and a decided candidate keeps its status and its        *)
(* relation.  A command that is sent again rebuilds the fingerprint of its *)
(* commit, whatever its handler read and when, so starting a round,        *)
(* proposing evidence and deciding on it are answered again and never      *)
(* refused.                                                                *)
(***************************************************************************)
\* The relation a candidate was proposed with.
Carries(a, relation) == \E g \in facts : g.at = a /\ g.sequence = 0 /\ g.relation = relation

Corrected(a) == Has(a, "evidence_relation_corrected")
Confirmed(a) == Has(a, "evidence_relation_confirmed")

\* A confirmation repeats the proposal; a rejection or a withdrawal tells no relation.
ToldWell ==
  \A f \in facts :
    /\ f.type = "evidence_relation_confirmed" => Carries(f.at, f.relation)
    /\ f.type \in {"evidence_relation_rejected", "evidence_relation_withdrawn"} => f.relation = None

\* A challenge has a stream of its own, and its events are of one round.
IsChallenge(a) == a[1] = "challenge"
OneRound ==
  /\ \A f \in facts : f.type = "challenge_created" => IsChallenge(f.at)
  /\ \A f, g \in facts : f.at = g.at /\ IsChallenge(f.at) => f.round = g.round

\* Who is about to confirm holds the proposal, or comes too late.
Holds(r, s) == r.op = "confirm" => Carries(r.target, s.relation) \/ Corrected(r.target)

Held == \A t \in Threads : Past(t) => Holds(Request(t), state[t])

\* A commit is the row of its intent, and that of a confirmation is about the proposal.
Kept(k) ==
  /\ k.command \in Commands /\ intent[k.command].op # None
  /\ intent[k.command].op = "propose" =>
       (intent[k.command].relation = "silent" => intent[k.command].material \in Parsed)
  /\ \E relation \in Relations \cup {None} :
       /\ k.fingerprint = Log!Fingerprint(Row(intent[k.command], [open |-> TRUE, relation |-> relation]))
       /\ intent[k.command].op = "confirm" =>
            Confirmed(intent[k.command].target) /\ Carries(intent[k.command].target, relation)

Steady == ToldWell /\ OneRound /\ Held /\ \A k \in commits : Kept(k)
SInv == EInv /\ Steady
-----------------------------------------------------------------------------
\* What a handler holds shows in the row of a confirmation only.
LEMMA SameRow ==
  ASSUME NEW r, NEW s, NEW z, r.op = "confirm" => s.relation = z.relation
  PROVE  Row(r, s) = Row(r, z)
<1>1. WithChallenge(r, s) <=> WithChallenge(r, z)
  BY DEF WithChallenge
<1>2. Targets(r, s) = Targets(r, z)
  BY <1>1 DEF Targets
<1> QED BY <1>2 DEF Row

\* A candidate is not both confirmed and corrected.
LEMMA OneDecision ==
  ASSUME RInv, NEW a, Confirmed(a)
  PROVE  ~Corrected(a)
<1>1. SUFFICES ASSUME NEW f \in facts, NEW g \in facts, f.at = a, g.at = a,
                      f.type = "evidence_relation_confirmed", g.type = "evidence_relation_corrected"
               PROVE  FALSE
  BY DEF Confirmed, Corrected, Has
<1>2. f # g /\ f.type \in Closing /\ g.type \in Closing /\ f.sequence \in Nat /\ g.sequence \in Nat
  BY <1>1 DEF Closing, Decided, RInv, Bounded
<1> QED BY <1>1, <1>2 DEF RInv, ClosingIsFinal

\* Nor was it proposed with two relations.
LEMMA OneProposal ==
  ASSUME Numbered, NEW a, NEW x, NEW y, Carries(a, x), Carries(a, y)
  PROVE  x = y
BY DEF Numbered, Carries

\* The invariant holds before the first command.
LEMMA SInvInit == Init => SInv
<1> SUFFICES ASSUME Init PROVE SInv
  OBVIOUS
<1>1. EInv
  BY EInvInit
<1> QED BY <1>1 DEF Init, SInv, Steady, ToldWell, OneRound, Held, Past

\* A step of one thread that leaves the log and the intents alone.
LEMMA QuietStep ==
  ASSUME SInv, EInv', NEW t \in Threads, UNCHANGED durable, UNCHANGED intent,
         \A u \in Threads \ {t} : pc'[u] = pc[u] /\ call'[u] = call[u] /\ state'[u] = state[u],
         Past(t)' => Holds(Request(t)', state'[t])
  PROVE  SInv'
<1>1. UNCHANGED facts /\ UNCHANGED commits
  BY DEF durable
<1>2. ToldWell' /\ OneRound'
  BY <1>1 DEF SInv, Steady, ToldWell, OneRound, Carries, IsChallenge
<1>3. \A k \in commits' : Kept(k)'
  BY <1>1 DEF SInv, Steady, Kept, Carries, Confirmed, Has
<1>4. ASSUME NEW u \in Threads, Past(u)'
      PROVE  Holds(Request(u), state[u])'
  <2>1. CASE u = t
    BY <1>1, <1>4, <2>1 DEF Holds, Carries, Corrected, Has
  <2>2. CASE u # t
    BY <1>1, <1>4, <2>2 DEF SInv, Steady, Held, Past, Holds, Carries, Corrected, Has, Request
  <2> QED BY <2>1, <2>2
<1> QED BY <1>2, <1>3, <1>4 DEF SInv, Steady, Held

\* A call that ends, or one that has just arrived, holds nothing.
LEMMA EdgeStep ==
  ASSUME SInv, EInv', NEW t \in Threads, UNCHANGED durable,
         End(t) \/ \E k \in Commands : Send(t, k)
  PROVE  SInv'
<1>1. /\ ~Past(t)' /\ UNCHANGED intent
      /\ \A u \in Threads \ {t} : pc'[u] = pc[u] /\ call'[u] = call[u] /\ state'[u] = state[u]
  BY DEF End, Send, Past, SInv, EInv, RInv, Shapes
<1> QED BY <1>1, QuietStep

\* Who reads a candidate to confirm it reads the proposal, unless it was corrected.
LEMMA ReadingHolds ==
  ASSUME SInv, EInv', NEW t \in Threads, Read(t)
  PROVE  SInv'
<1> DEFINE r == Request(t)
<1>1. /\ pc[t] = "read" /\ UNCHANGED <<durable, intent, call>>
      /\ state' = [state EXCEPT ![t] =
             [open |-> ~Closed(Stream(r)),
              relation |-> IF r.op \in DecisionOps THEN CandidateRelation(r.target) ELSE None]]
      /\ \A u \in Threads \ {t} : pc'[u] = pc[u] /\ call'[u] = call[u] /\ state'[u] = state[u]
  BY DEF Read, Goto, SInv, EInv, RInv, Shapes
<1>2. Request(t)' = r
  BY <1>1 DEF Request
<1>3. r.op = "confirm" => Exists(r.target) /\ IsCandidate(r.target)
  <2>1. call[t] \in Commands /\ Behind(call[t])
    BY <1>1 DEF SInv, EInv, RInv, Shapes, IntentsBehind
  <2> QED BY <2>1 DEF Behind, Request, IsCandidate, DecisionOps, Creates, ProposalOps, None
<1>4. Holds(r, state'[t])
  <2>1. SUFFICES ASSUME r.op = "confirm"
                 PROVE  Carries(r.target, state'[t].relation) \/ Corrected(r.target)
    BY DEF Holds
  <2>2. PICK f \in facts : f.at = r.target /\ f.relation = CandidateRelation(r.target) /\ f.relation \in Relations
    BY <1>3, <2>1, RelationTold DEF SInv, EInv
  <2>3. state'[t].relation = f.relation
    <3>1. state'[t] = [open |-> ~Closed(Stream(r)),
              relation |-> IF r.op \in DecisionOps THEN CandidateRelation(r.target) ELSE None]
      BY <1>1 DEF SInv, EInv, States
    <3> QED BY <2>1, <2>2, <3>1 DEF DecisionOps
  <2>4. CASE f.sequence = 0
    BY <2>2, <2>3, <2>4 DEF Carries
  <2>5. CASE f.sequence # 0
    <3>1. f.type \in Decided
      BY <1>3, <2>1, <2>2, <2>5 DEF SInv, EInv, LogWell, CandidatesWell, WellTold
    <3>2. f.type \notin {"evidence_relation_rejected", "evidence_relation_withdrawn"}
      BY <2>2 DEF SInv, Steady, ToldWell, Relations, None
    <3>3. CASE f.type = "evidence_relation_confirmed"
      BY <2>2, <2>3, <3>3 DEF SInv, Steady, ToldWell
    <3>4. CASE f.type = "evidence_relation_corrected"
      BY <2>2, <3>4 DEF Corrected, Has
    <3> QED BY <3>1, <3>2, <3>3, <3>4 DEF Decided
  <2> QED BY <2>4, <2>5
<1> HIDE DEF r
<1> QED BY <1>1, <1>2, <1>4, QuietStep

\* The other steps of a handler leave a confirmation what it holds.
LEMMA WaitingHolds ==
  ASSUME SInv, EInv', NEW t \in Threads, AcquireGuard(t) \/ Lookup(t) \/ Generate(t)
  PROVE  SInv'
<1> DEFINE r == Request(t)
<1>1. /\ Past(t) /\ UNCHANGED <<durable, intent, call>>
      /\ \A u \in Threads \ {t} : pc'[u] = pc[u] /\ call'[u] = call[u] /\ state'[u] = state[u]
  BY DEF AcquireGuard, Lookup, Generate, Goto, Past, SInv, EInv, RInv, Shapes, States
<1>2. Request(t)' = r /\ Holds(r, state[t])
  BY <1>1 DEF Request, SInv, Steady, Held
<1>3. r.op = "confirm" => state'[t] = state[t]
  BY DEF AcquireGuard, Lookup, Generate
<1> HIDE DEF r
<1> QED BY <1>1, <1>2, <1>3, QuietStep DEF Holds

\* A request names its own command, which has no commit yet.
LEMMA IssuingHolds ==
  ASSUME SInv, EInv', NEW k \in Commands, NEW op \in Ops, Issue(k, op)
  PROVE  SInv'
<1>1. /\ intent[k].op = None /\ UNCHANGED <<durable, pc, call, state>>
      /\ UNCHANGED facts /\ UNCHANGED commits
      /\ \A j \in Commands \ {k} : intent'[j] = intent[j]
  BY DEF Issue, durable, SInv, EInv, RInv, Shapes
<1>2. ToldWell' /\ OneRound'
  BY <1>1 DEF SInv, Steady, ToldWell, OneRound, Carries, IsChallenge
<1>3. ASSUME NEW j \in commits'
      PROVE  Kept(j)'
  <2>1. Kept(j)
    BY <1>1, <1>3 DEF SInv, Steady
  <2>2. intent'[j.command] = intent[j.command]
    BY <1>1, <2>1 DEF Kept
  <2> QED BY <1>1, <2>1, <2>2 DEF Kept, Carries, Confirmed, Has
<1>4. ASSUME NEW u \in Threads, Past(u)'
      PROVE  Holds(Request(u), state[u])'
  <2>1. call[u] \in Commands \ {k}
    BY <1>1, <1>4 DEF Past, SInv, EInv, RInv, Shapes
  <2>2. Request(u)' = Request(u) /\ Past(u)
    BY <1>1, <1>4, <2>1 DEF Request, Past
  <2> QED BY <1>1, <2>2 DEF SInv, Steady, Held, Holds, Carries, Corrected, Has
<1> QED BY <1>2, <1>3, <1>4 DEF SInv, Steady, Held
-----------------------------------------------------------------------------
\* A log that grows carries and tells what it did.
LEMMA Growing ==
  ASSUME facts \subseteq facts'
  PROVE  /\ \A a, x : Carries(a, x) => Carries(a, x)'
         /\ \A a, x : Has(a, x) => Has(a, x)'
BY DEF Carries, Has

\* A confirmation is committed with the relation of the proposal.
LEMMA ConfirmedAsProposed ==
  ASSUME SInv, NEW t \in Threads, Publish(t), Request(t).op = "confirm"
  PROVE  Carries(Request(t).target, state[t].relation) /\ Stream(Request(t)) = Request(t).target
<1> DEFINE r == Request(t)
<1>1. Length(Stream(r)) = r.expected /\ r.expected \in Nat
  BY PublishAdds DEF SInv, EInv
<1>2. r.op \in DecisionOps /\ Past(t) /\ Stream(r) = r.target
  BY DEF DecisionOps, ProposalOps, Publish, Past, Stream
<1>3. ~Closed(Stream(r))
  BY <1>1, <1>2 DEF SInv, EInv, RInv, Fenced, Publish
<1>4. ~Corrected(r.target)
  BY <1>2, <1>3 DEF Closed, Corrected, Has, Closing, Decided
<1> QED BY <1>2, <1>4 DEF SInv, Steady, Held, Holds

\* A commit keeps what was told and the rounds of the challenges.
LEMMA ToldStep ==
  ASSUME SInv, NEW t \in Threads, Publish(t)
  PROVE  ToldWell' /\ OneRound'
<1> DEFINE r == Request(t)
           s == state[t]
           m == MainFact(r, s, last + 1)
           c == ChallengeFact(r, last + 1)
<1>1. /\ facts' = facts \cup {m} \cup (IF WithChallenge(r, s) THEN {c} ELSE {})
      /\ r.op \in Ops /\ r.command = call[t]
      /\ m.at = Stream(r) /\ m.type = EventType[r.op] /\ m.round = RoundFor(r) /\ m.relation = Told(r, s)
      /\ c.type = "challenge_created" /\ c.at = <<"challenge", call[t]>>
      /\ Behind(call[t]) /\ AskedWell(call[t]) /\ intent[call[t]] = r
  BY Published DEF SInv
<1>2. facts \subseteq facts'
  BY PublishAdds DEF SInv, EInv
<1>3. r.op = "confirm" => Carries(r.target, s.relation) /\ Stream(r) = r.target
  BY ConfirmedAsProposed
<1>4. /\ \A f \in facts' \ facts : f.at \in Targets(r, s)
      /\ \A a \in Targets(r, s) \ {Stream(r)} : Length(a) = 0
      /\ \A f, g \in facts' \ facts : f.at = g.at => f = g
      /\ Length(Stream(r)) = r.expected
  BY PublishAdds DEF SInv, EInv
<1> HIDE DEF r, s, m, c
<1>5. ToldWell'
  <2>1. ASSUME NEW f \in facts'
        PROVE  /\ f.type = "evidence_relation_confirmed" => Carries(f.at, f.relation)'
               /\ f.type \in {"evidence_relation_rejected", "evidence_relation_withdrawn"} => f.relation = None
    <3>1. CASE f \in facts
      BY <1>2, <3>1, Growing DEF SInv, Steady, ToldWell
    <3>2. CASE f = m
      <4>1. f.type = "evidence_relation_confirmed" => r.op = "confirm"
        BY <1>1, <3>2 DEF EventType, Ops, RoundOps, ChallengeOps, ProposalOps, DecisionOps
      <4>2. f.type \in {"evidence_relation_rejected", "evidence_relation_withdrawn"}
              => r.op \in {"reject", "withdraw_candidate"}
        BY <1>1, <3>2 DEF EventType, Ops, RoundOps, ChallengeOps, ProposalOps, DecisionOps
      <4>3. r.op = "confirm" => f.at = r.target /\ f.relation = s.relation
        BY <1>1, <1>3, <3>2 DEF Told
      <4>4. r.op \in {"reject", "withdraw_candidate"} => f.relation = None
        BY <1>1, <3>2 DEF Told
      <4>5. r.op = "confirm" => Carries(f.at, f.relation)
        BY <1>3, <4>3
      <4> QED BY <1>2, <4>1, <4>2, <4>4, <4>5, Growing
    <3>3. CASE f = c
      BY <1>1, <3>3
    <3> QED BY <1>1, <3>1, <3>2, <3>3
  <2> QED BY <2>1 DEF ToldWell
<1>6. ASSUME NEW f \in facts, NEW g \in facts' \ facts, f.at = g.at, IsChallenge(f.at)
      PROVE  f.round = g.round
  <2>1. Length(f.at) # 0
    BY DEF SInv, EInv, RInv, Bounded, Shapes, Length
  <2>2. g.at = Stream(r) /\ r.expected # 0
    BY <1>4, <1>6, <2>1
  <2>3. r.op \notin Creates
    BY <1>1, <2>2 DEF Behind
  <2>4. r.op \notin DecisionOps
    BY <1>1, <1>6, <2>2, Kinds DEF IsChallenge, IsCandidate
  <2>5. r.op # "verdict"
    BY <1>1, <1>6, <2>2 DEF AskedWell, Stream, IsChallenge, ProposalOps
  <2>6. r.op \in ChallengeOps
    BY <1>1, <2>3, <2>4, <2>5 DEF Ops, RoundOps, Creates
  <2>7. g = m
    <3>1. m \in facts' /\ m.at = g.at
      BY <1>1, <2>2
    <3>2. CASE m \in facts'\ facts
      BY <1>4, <3>1, <3>2
    <3>3. CASE m \in facts
      <4>1. g = c /\ WithChallenge(r, s)
        BY <1>1, <3>3
      <4> QED BY <2>6, <4>1 DEF WithChallenge, ChallengeOps
    <3> QED BY <3>1, <3>2, <3>3
  <2>8. g.round = RoundOf(f.at)
    <3>1. m.round = RoundOf(r.target) /\ Stream(r) = r.target
      BY <1>1, <2>6 DEF RoundFor, Stream, ChallengeOps, RoundOps, ProposalOps
    <3> QED BY <1>6, <2>2, <2>7, <3>1
  <2> QED BY <1>6, <2>8 DEF RoundOf, SInv, Steady, OneRound
<1>7. ASSUME NEW f \in facts', NEW g \in facts', f.at = g.at, IsChallenge(f.at)
      PROVE  f.round = g.round
  <2>1. CASE f \in facts /\ g \in facts
    BY <1>7, <2>1 DEF SInv, Steady, OneRound
  <2>2. CASE f \notin facts /\ g \notin facts
    BY <1>4, <1>7, <2>2
  <2> QED BY <1>6, <1>7, <2>1, <2>2
<1>8. m.type = "challenge_created" => IsChallenge(m.at)
  <2>1. m.type = "challenge_created" => r.op = "more"
    BY <1>1 DEF EventType, Ops, RoundOps, ChallengeOps, ProposalOps, DecisionOps
  <2>2. r.op = "more" => Stream(r) = <<"challenge", r.command>>
    BY DEF Stream
  <2> QED BY <1>1, <2>1, <2>2 DEF IsChallenge
<1>9. ASSUME NEW f \in facts', f.type = "challenge_created"
      PROVE  IsChallenge(f.at)
  <2>1. CASE f \in facts
    BY <1>9, <2>1 DEF SInv, Steady, OneRound
  <2> QED BY <1>1, <1>8, <1>9, <2>1 DEF IsChallenge
<1> QED BY <1>5, <1>7, <1>9 DEF OneRound, IsChallenge

\* The commit of a command is the row of its intent.
LEMMA KeptStep ==
  ASSUME SInv, NEW t \in Threads, Publish(t), NEW r, r = Request(t), NEW s, s = state[t],
         NEW m, m = MainFact(r, s, last + 1), NEW new, new = Log!CommitOf(Row(r, s), last + 1)
  PROVE  \A k \in commits' : Kept(k)'
<1>1. /\ m \in facts' /\ m.at = Stream(r) /\ m.type = EventType[r.op]
      /\ r.op \in Ops /\ r.command = call[t] /\ intent[call[t]] = r
      /\ Honest(r, s, "append") /\ s.relation \in Relations \cup {None}
  BY Published DEF SInv
<1>2. facts \subseteq facts' /\ UNCHANGED intent
  BY PublishAdds DEF SInv, EInv
<1>3. commits' = commits \cup {new}
  BY DEF Publish, Log!Publish
<1>4. new.command = call[t] /\ new.fingerprint = Log!Fingerprint(Row(r, s))
  BY <1>1 DEF Log!CommitOf, Row
<1>5. call[t] \in Commands /\ r.op # None
  BY DEF Publish, SInv, EInv, RInv, Shapes, Request
<1>6. r.op = "confirm" => Carries(r.target, s.relation) /\ Stream(r) = r.target
  BY ConfirmedAsProposed
<1>7. r.op = "confirm" => Confirmed(r.target)' /\ Carries(r.target, s.relation)'
  <2>1. SUFFICES ASSUME r.op = "confirm" PROVE Confirmed(r.target)' /\ Carries(r.target, s.relation)'
    OBVIOUS
  <2>2. m.type = "evidence_relation_confirmed" /\ m.at = r.target
    BY <1>1, <1>6, <2>1 DEF EventType, Ops, RoundOps, ChallengeOps, ProposalOps, DecisionOps
  <2> QED BY <1>1, <1>2, <1>6, <2>1, <2>2, Growing DEF Confirmed, Has
<1>8. Row(r, s) = Row(r, [open |-> TRUE, relation |-> s.relation])
  BY SameRow
<1>9. Kept(new)'
  <2>1. r.op = "propose" => (r.relation = "silent" => r.material \in Parsed)
    BY <1>1 DEF Honest
  <2> QED BY <1>1, <1>2, <1>4, <1>5, <1>7, <1>8, <2>1 DEF Kept
<1>10. ASSUME NEW k \in commits
       PROVE  Kept(k)'
  <2>1. Kept(k)
    BY DEF SInv, Steady
  <2> QED BY <1>2, <2>1, Growing DEF Kept, Confirmed
<1> QED BY <1>3, <1>9, <1>10

\* A commit keeps what its thread and the others hold.
LEMMA PublishingHolds ==
  ASSUME SInv, EInv', NEW t \in Threads, Publish(t)
  PROVE  SInv'
<1>1. ToldWell' /\ OneRound'
  BY ToldStep
<1>2. \A k \in commits' : Kept(k)'
  <2> DEFINE r == Request(t)
             s == state[t]
  <2>1. \A m, new : m = MainFact(r, s, last + 1) /\ new = Log!CommitOf(Row(r, s), last + 1)
          => \A k \in commits' : Kept(k)'
    BY KeptStep
  <2> QED BY <2>1
<1>3. facts \subseteq facts' /\ UNCHANGED intent
  BY PublishAdds DEF SInv, EInv
<1>4. pc'[t] = "idle"
      /\ \A u \in Threads \ {t} : pc'[u] = pc[u] /\ call'[u] = call[u] /\ state'[u] = state[u]
  BY DEF Publish, End, SInv, EInv, RInv, Shapes
<1>5. ASSUME NEW u \in Threads, Past(u)'
      PROVE  Holds(Request(u), state[u])'
  <2>1. u # t
    BY <1>4, <1>5 DEF Past
  <2>2. Past(u) /\ Request(u)' = Request(u) /\ state'[u] = state[u]
    BY <1>3, <1>4, <1>5, <2>1 DEF Past, Request
  <2>3. Holds(Request(u), state[u])
    BY <2>2 DEF SInv, Steady, Held
  <2> QED BY <1>3, <2>2, <2>3, Growing DEF Holds, Corrected
<1> QED BY <1>1, <1>2, <1>5 DEF SInv, Steady, Held

\* Every step keeps the invariant.
LEMMA SInvStep == SInv /\ [Next]_vars => SInv'
<1> SUFFICES ASSUME SInv, [Next]_vars PROVE SInv'
  OBVIOUS
<1>1. EInv'
  BY EInvStep DEF SInv
<1>2. ASSUME NEW t \in Threads,
             (\E k \in Commands : Send(t, k)) \/ Replay(t) \/ Refuse(t) \/ Abandon(t)
      PROVE  SInv'
  BY <1>1, <1>2, EdgeStep DEF Send, Replay, Refuse, RefuseRead, RefuseGenerate, RefuseLookup, RefuseAppend, Abandon
<1>3. CASE UNCHANGED vars
  <2>1. UNCHANGED <<commits, facts, intent, pc, call, state>>
    BY <1>3 DEF vars, durable
  <2>2. ToldWell' /\ OneRound'
    BY <2>1 DEF SInv, Steady, ToldWell, OneRound, Carries, IsChallenge
  <2>3. Held'
    BY <2>1 DEF SInv, Steady, Held, Past, Holds, Carries, Corrected, Has, Request
  <2>4. \A k \in commits' : Kept(k)'
    BY <2>1 DEF SInv, Steady, Kept, Carries, Confirmed, Has
  <2> QED BY <1>1, <2>2, <2>3, <2>4 DEF SInv, Steady
<1> QED BY <1>1, <1>2, <1>3, IssuingHolds, ReadingHolds, WaitingHolds, PublishingHolds DEF Next

\* So it always holds.
LEMMA SInvariance == Spec => []SInv
<1> QED BY SInvInit, SInvStep, PTL DEF Spec
-----------------------------------------------------------------------------
\* Whoever executes a committed command rebuilds its fingerprint: only a confirmation
\* depends on what was read, and that is the proposal.
LEMMA Refound ==
  ASSUME SInv, NEW t \in Threads, pc[t] \in {"lookup", "append"}
  PROVE  ~Conflicting(t)
<1>1. SUFFICES ASSUME NEW k \in Prior(t)
               PROVE  k.fingerprint = Log!Fingerprint(Row(Request(t), state[t]))
  BY DEF Conflicting
<1>2. k \in commits /\ k.command = call[t]
  BY <1>1, PriorById DEF SInv, EInv, RInv
<1>3. PICK relation \in Relations \cup {None} :
        /\ k.fingerprint = Log!Fingerprint(Row(Request(t), [open |-> TRUE, relation |-> relation]))
        /\ Request(t).op = "confirm" => Confirmed(Request(t).target) /\ Carries(Request(t).target, relation)
  BY <1>2 DEF SInv, Steady, Kept, Request
<1>4. Request(t).op = "confirm" => state[t].relation = relation
  <2>1. SUFFICES ASSUME Request(t).op = "confirm" PROVE state[t].relation = relation
    OBVIOUS
  <2>2. Carries(Request(t).target, state[t].relation)
    BY <1>3, <2>1, OneDecision DEF SInv, EInv, Steady, Held, Holds, Past
  <2> QED BY <1>3, <2>1, <2>2, OneProposal DEF SInv, EInv, LogWell
<1>5. Row(Request(t), state[t]) = Row(Request(t), [open |-> TRUE, relation |-> relation])
  BY <1>4, SameRow
<1> QED BY <1>3, <1>5

\* A retry never meets a fingerprint other than its own, at whatever time it read.
THEOREM RetriesKeepFingerprintHolds == Spec => []RetriesKeepFingerprint
<1>1. SInv => RetriesKeepFingerprint
  BY Refound DEF RetriesKeepFingerprint
<1> QED BY <1>1, SInvariance, PTL

\* A command that was committed is refused only by the check that closes what it
\* closed, or by the generator of a further challenge or of a proposal.
THEOREM DecisionRetryReplaysHolds == Spec => DecisionRetryReplays
<1> DEFINE op(t) == Request(t).op
           Allowed(t) == \/ op(t) \in ChallengeOps \cup {"verdict"}
                         \/ pc[t] = "generate" /\ op(t) \in {"more", "generate"}
<1>1. ASSUME SInv, Guarded, NEW t \in Threads, Refuse(t), Committed(t)
      PROVE  Allowed(t)
  <2>1. CASE RefuseRead(t)
    <3>1. SUFFICES ASSUME op(t) \notin ChallengeOps \cup {"verdict"}
                   PROVE  FALSE
      OBVIOUS
    <3>2. op(t) = "propose" /\ SilentUnparsed(Request(t).relation, Request(t).material)
      BY <2>1, <3>1 DEF RefuseRead, Admissible
    <3>3. PICK k \in commits : k.command = call[t]
      BY <1>1, <2>1, PriorById DEF Committed, RefuseRead, SInv, EInv, RInv
    <3>4. Kept(k)
      BY <3>3, <1>1 DEF SInv, Steady
    <3> QED BY <3>2, <3>3, <3>4 DEF Kept, Request, SilentUnparsed
  <2>2. CASE RefuseGenerate(t)
    <3>1. pc[t] = "generate" /\ op(t) \in {"start", "more", "generate"}
      BY <1>1, <2>2 DEF RefuseGenerate, SInv, EInv, Honest
    <3>2. op(t) # "start"
      BY <1>1, <3>1 DEF Guarded
    <3> QED BY <3>1, <3>2
  <2>3. CASE RefuseLookup(t) \/ RefuseAppend(t)
    BY <1>1, <2>3, Refound DEF RefuseLookup, RefuseAppend
  <2> QED BY <1>1, <2>1, <2>2, <2>3 DEF Refuse
<1>2. SInv /\ Guarded /\ [Next]_vars => [\A t \in Threads :
                 Refuse(t) /\ Committed(t) =>
                   \/ Request(t).op \in ChallengeOps \cup {"verdict"}
                   \/ pc[t] = "generate" /\ Request(t).op \in {"more", "generate"}]_vars
  BY <1>1
<1> QED BY <1>2, SInvariance, GuardedAlways, PTL DEF Spec, DecisionRetryReplays
-----------------------------------------------------------------------------
\* Nothing is committed to what is closed.
LEMMA NothingAfter ==
  ASSUME RInv, RInv', NEW t \in Threads, Publish(t), NEW f \in facts, f.type \in Closing,
         NEW g \in facts', g.at = f.at
  PROVE  g \in facts
<1>1. /\ \A h \in facts' \ facts : h.sequence = Length(h.at)
      /\ facts \subseteq facts'
  BY PublishAdds
<1>2. f.sequence \in Nat /\ f.sequence < Length(f.at) /\ Length(f.at) \in Nat
  BY DEF RInv, Bounded, Shapes, Length
<1>3. g # f => g.sequence < f.sequence
  BY <1>1 DEF RInv, ClosingIsFinal
<1> QED BY <1>1, <1>2, <1>3

\* What is shown of a decided candidate stays.
LEMMA DecidedStays ==
  ASSUME RInv, RInv', NEW t \in Threads, Publish(t), NEW f \in facts, f.type \in Decided,
         NEW c, c = f.at
  PROVE  CandidateStatus(c)' = CandidateStatus(c) /\ CandidateRelation(c)' = CandidateRelation(c)
<1>1. facts \subseteq facts'
  BY PublishAdds
<1>2. \A g \in facts' : g.at = c => g \in facts
  BY NothingAfter DEF Closing
<1>3. {g \in facts' : g.at = c /\ g.type \in Decided} = {g \in facts : g.at = c /\ g.type \in Decided}
  BY <1>1, <1>2
<1>4. {g \in facts' : g.at = c /\ g.relation # None} = {g \in facts : g.at = c /\ g.relation # None}
  BY <1>1, <1>2
<1> QED BY <1>3, <1>4 DEF CandidateStatus, CandidateRelation

\* A challenge only moves towards its resolution.
LEMMA ChallengeAdvances ==
  ASSUME SInv, SInv', NEW t \in Threads, Publish(t), NEW f \in facts, f.type = "challenge_created",
         NEW c, c = f.at
  PROVE  \/ ChallengeStatus(c)' = ChallengeStatus(c)
         \/ StatusRank(ChallengeStatus(c)') > StatusRank(ChallengeStatus(c))
<1>1. facts \subseteq facts'
  BY PublishAdds DEF SInv, EInv
<1>2. IsChallenge(c)
  BY DEF SInv, Steady, OneRound
<1>3. RoundOf(c)' = RoundOf(c)
  <2>1. RoundOf(c) = f.round
    BY <1>2 DEF RoundOf, SInv, Steady, OneRound
  <2>2. RoundOf(c)' = f.round
    BY <1>1, <1>2 DEF RoundOf, SInv, Steady, OneRound, IsChallenge
  <2> QED BY <2>1, <2>2
<1> DEFINE over == Closed(<<"round", RoundOf(c)>>)
           wd == Has(c, "challenge_withdrawn")
           df == Has(c, "challenge_deferred")
           an == Has(c, "challenge_answered")
<1>4. over => over'
  BY <1>1, <1>3 DEF Closed
<1>5. (wd => wd') /\ (df => df') /\ (an => an')
  BY <1>1, Growing
<1>6. df /\ wd' => wd
  <2>1. SUFFICES ASSUME NEW d \in facts, d.at = c, d.type = "challenge_deferred",
                        NEW w \in facts', w.at = c, w.type = "challenge_withdrawn"
                 PROVE  w \in facts
    BY DEF Has
  <2> QED BY <2>1, NothingAfter DEF Closing, SInv, EInv
<1>7. /\ ChallengeStatus(c) = IF over THEN "resolved_by_verdict" ELSE IF wd THEN "withdrawn"
                              ELSE IF df THEN "deferred" ELSE IF an THEN "answered" ELSE "pending"
      /\ ChallengeStatus(c)' = IF over' THEN "resolved_by_verdict" ELSE IF wd' THEN "withdrawn"
                              ELSE IF df' THEN "deferred" ELSE IF an' THEN "answered" ELSE "pending"
  BY DEF ChallengeStatus
<1>8. /\ StatusRank("pending") = 0 /\ StatusRank("answered") = 1 /\ StatusRank("deferred") = 2
      /\ StatusRank("withdrawn") = 2 /\ StatusRank("resolved_by_verdict") = 3
  BY DEF StatusRank
<1> HIDE DEF over, wd, df, an
<1> QED BY <1>4, <1>5, <1>6, <1>7, <1>8

\* Statuses only advance, and a decided candidate stays what it was shown to be.
THEOREM StatusOnlyAdvancesHolds == Spec => StatusOnlyAdvances
<1> DEFINE A == /\ \A c \in {f.at : f \in {f \in facts : f.type = "challenge_created"}} :
                     \/ ChallengeStatus(c)' = ChallengeStatus(c)
                     \/ StatusRank(ChallengeStatus(c)') > StatusRank(ChallengeStatus(c))
                /\ \A c \in {f.at : f \in {f \in facts : f.type \in Decided}} :
                     /\ CandidateStatus(c)' = CandidateStatus(c)
                     /\ CandidateRelation(c)' = CandidateRelation(c)
<1>1. ASSUME SInv, SInv', [Next]_vars PROVE A
  <2>1. CASE \E t \in Threads : Publish(t)
    <3>1. PICK t \in Threads : Publish(t)
      BY <2>1
    <3>2. ASSUME NEW f \in facts, f.type = "challenge_created"
          PROVE  \/ ChallengeStatus(f.at)' = ChallengeStatus(f.at)
                 \/ StatusRank(ChallengeStatus(f.at)') > StatusRank(ChallengeStatus(f.at))
      BY <1>1, <3>1, <3>2, ChallengeAdvances
    <3>3. ASSUME NEW f \in facts, f.type \in Decided
          PROVE  /\ CandidateStatus(f.at)' = CandidateStatus(f.at)
                 /\ CandidateRelation(f.at)' = CandidateRelation(f.at)
      BY <1>1, <3>1, <3>3, DecidedStays DEF SInv, EInv
    <3> QED BY <3>2, <3>3
  <2>2. CASE UNCHANGED facts
    BY <2>2 DEF ChallengeStatus, CandidateStatus, CandidateRelation, Has, Closed, RoundOf
  <2>3. (\E t \in Threads : Publish(t)) \/ UNCHANGED facts
    BY <1>1 DEF Next, Issue, Send, Read, AcquireGuard, Lookup, Generate, Replay, Refuse, Abandon,
                durable, vars
  <2> QED BY <2>1, <2>2, <2>3
<1>2. SInv /\ SInv' /\ [Next]_vars => [A]_vars
  BY <1>1
<1> QED BY <1>2, SInvariance, PTL DEF Spec, StatusOnlyAdvances
-----------------------------------------------------------------------------
\* Part four: these handlers use the log as CommandLog promises it.

\* What a handler passes to append is a request of the store.
LEMMA RowType ==
  ASSUME RInv, NEW t \in Threads, pc[t] # "idle"
  PROVE  /\ Row(Request(t), state[t]) \in Rows
         /\ Targets(Request(t), state[t]) \subseteq Addresses
         /\ Request(t).expected \in Nat
  <1>1. PICK r \in Requests : r = Request(t)
    BY DEF RInv, Shapes, Request
  <1>2. r.op # None /\ r.command = call[t] /\ call[t] \in Commands
    BY <1>1 DEF RInv, Shapes, IntentsBehind, Behind, Request
  <1>3. Stream(r) \in Addresses
    BY <1>1, <1>2, StreamType DEF RInv, Request
  <1>4. OwnChallenge(r) \in Addresses
    BY <1>2 DEF OwnChallenge, Addresses
  <1>5. PICK T : T = Targets(r, state[t])
    OBVIOUS
  <1>6. T \in SUBSET Addresses
    BY <1>3, <1>4, <1>5 DEF Targets
  <1>7. r.expected \in Nat
    BY DEF Requests
  <1>8. PICK e : e = [a \in T |-> IF a = Stream(r) THEN r.expected ELSE 0]
    OBVIOUS
  <1>9. e \in [T -> Nat] /\ DOMAIN e = T
    BY <1>7, <1>8
  <1>10. e \in UNION {[A -> Nat] : A \in SUBSET Addresses}
    BY <1>6, <1>9
  <1>11. Row(r, state[t]) =
           [universe |-> "universe", command |-> r.command,
            body |-> [op |-> r.op, target |-> r.target, relation |-> r.relation, material |-> r.material],
            expected |-> e, appends |-> [a \in DOMAIN e |-> 1]]
    BY <1>5, <1>8, <1>9 DEF Row
  <1>12. Row(r, state[t]) \in Rows
    <2> DEFINE RowOf(q, f) ==
                 [universe |-> "universe", command |-> q.command,
                  body |-> [op |-> q.op, target |-> q.target, relation |-> q.relation, material |-> q.material],
                  expected |-> f, appends |-> [a \in DOMAIN f |-> 1]]
               Lengths == UNION {[A -> Nat] : A \in SUBSET Addresses}
    <2>1. Rows = {RowOf(q, f) : q \in Requests, f \in Lengths}
      BY DEF Rows
    <2>2. Row(r, state[t]) = RowOf(r, e)
      BY <1>11
    <2>3. e \in Lengths
      BY <1>10
    <2> HIDE DEF RowOf, Lengths
    <2> QED
      BY <2>1, <2>2, <2>3
  <1> QED
    BY <1>1, <1>5, <1>6, <1>7, <1>12

\* What the store keeps of events.
Recorded(F) ==
  {[universe |-> "universe", address |-> f.at, sequence |-> f.sequence, position |-> f.position] : f \in F}

\* The events a handler writes are those its row announces: one on each target, at
\* the sequence the row expects there.
LEMMA FactsFollowRow ==
  ASSUME RInv, NEW t \in Threads, pc[t] # "idle", NEW p
  PROVE  Recorded(FactsOf(Request(t), state[t], p)) = Log!EventsOf(Row(Request(t), state[t]), p)
  <1>1. PICK r, s : r = Request(t) /\ s = state[t]
    OBVIOUS
  <1>2. PICK n \in Nat : n = r.expected
    BY <1>1, RowType
  <1>3. PICK T : T = Targets(r, s)
    OBVIOUS
  <1> DEFINE Seen(f) ==
               [universe |-> "universe", address |-> f.at, sequence |-> f.sequence, position |-> f.position]
             At(a, q) == [universe |-> "universe", address |-> a, sequence |-> q, position |-> p]
             Expects(a) == IF a = Stream(r) THEN n ELSE 0
  <1>4. WithChallenge(r, s) => Stream(r) # OwnChallenge(r)
    <2>1. CASE r.op = "start"
      BY <2>1 DEF Stream, OwnChallenge
    <2>2. CASE r.op \in DecisionOps
      <3>1. Stream(r) = r.target
        BY <2>2 DEF Stream, DecisionOps, ProposalOps
      <3>2. r.target \in {"candidate"} \X Commands
        BY <1>1, <2>2 DEF RInv, Shapes, IntentsBehind, Behind, Request
      <3> QED
        BY <3>1, <3>2 DEF OwnChallenge
    <2> QED
      BY <2>1, <2>2 DEF WithChallenge, DecisionOps
  <1>5. Seen(MainFact(r, s, p)) = At(Stream(r), n)
    BY <1>2 DEF MainFact
  <1>6. Seen(ChallengeFact(r, p)) = At(OwnChallenge(r), 0)
    BY DEF ChallengeFact
  <1>7. {Seen(f) : f \in FactsOf(r, s, p)} = {At(a, Expects(a)) : a \in T}
    <2>1. CASE WithChallenge(r, s)
      <3>1. FactsOf(r, s, p) = {MainFact(r, s, p), ChallengeFact(r, p)}
        BY <2>1 DEF FactsOf
      <3>2. T = {Stream(r), OwnChallenge(r)}
        BY <1>3, <2>1 DEF Targets
      <3> HIDE DEF Seen, At
      <3> QED
        BY <1>4, <1>5, <1>6, <2>1, <3>1, <3>2
    <2>2. CASE ~WithChallenge(r, s)
      <3>1. FactsOf(r, s, p) = {MainFact(r, s, p)} /\ T = {Stream(r)}
        BY <1>3, <2>2 DEF FactsOf, Targets
      <3> HIDE DEF Seen, At
      <3> QED
        BY <1>5, <3>1
    <2> QED
      BY <2>1, <2>2
  <1>8. Log!EventsOf(Row(r, s), p) = {At(a, Expects(a)) : a \in T}
    <2>1. PICK row : row = Row(r, s)
      OBVIOUS
    <2>2. /\ row.universe = "universe"
          /\ row.expected = [a \in T |-> Expects(a)]
          /\ row.appends = [a \in T |-> 1]
      BY <1>2, <1>3, <2>1 DEF Row
    <2>3. \A a \in T : row.expected[a] .. (row.expected[a] + row.appends[a] - 1) = {Expects(a)}
      BY <2>2
    <2>4. DOMAIN row.expected = T
      BY <2>2
    <2> HIDE DEF Expects
    <2>5. Log!EventsOf(row, p) = UNION {{At(a, q) : q \in {Expects(a)}} : a \in T}
      <3>1. Log!EventsOf(row, p) =
              UNION {{At(a, q) : q \in row.expected[a] .. (row.expected[a] + row.appends[a] - 1)} :
                     a \in DOMAIN row.expected}
        <4>1. row.universe = "universe"
          BY <2>2
        <4> QED
          BY ONLY <4>1 DEF Log!EventsOf, At
      <3>2. \A a \in T : {At(a, q) : q \in row.expected[a] .. (row.expected[a] + row.appends[a] - 1)}
                         = {At(a, q) : q \in {Expects(a)}}
        BY <2>3
      <3> HIDE DEF At
      <3> QED
        BY <2>4, <3>1, <3>2
    <2> HIDE DEF At
    <2> QED
      BY <2>1, <2>5
  <1> HIDE DEF Seen, At, Expects
  <1>9. {Seen(f) : f \in FactsOf(r, s, p)} = Log!EventsOf(Row(r, s), p)
    BY <1>7, <1>8
  <1> QED
    BY <1>1, <1>9 DEF Seen, Recorded

\* Commits are numbered as they come.
Positioned == last \in Nat /\ \A k \in commits : k.position \in Nat /\ k.position <= last

\* Unless the command is known or a stream is stale, nothing that Publish asks of the
\* log is missing, and the events it adds are those of its row.
Unblocked(t) ==
  LET row == Row(Request(t), state[t])
  IN pc[t] = "append" /\ ~Committed(t) /\ ~Stale(t) =>
       /\ \A k \in commits : ~Log!SameCommand(k, row) /\ k.position < last + 1
       /\ \A a \in DOMAIN row.expected : next[row.universe][a] = row.expected[a]
       /\ Recorded(FactsOf(Request(t), state[t], last + 1)) = Log!EventsOf(row, last + 1)

\* A step leaves the log alone or is the append of a handler.
LEMMA StepKinds ==
  ASSUME [Next]_vars
  PROVE  UNCHANGED durable \/ \E t \in Threads : Publish(t)
  BY DEF Next, vars, durable, Issue, Send, Read, AcquireGuard, Lookup, Generate, Replay, Refuse, Abandon

LEMMA PositionedInit == Init => Positioned
  BY DEF Init, Positioned

LEMMA PositionedKept ==
  ASSUME Positioned, [Next]_vars
  PROVE  Positioned'
  <1>1. CASE UNCHANGED durable
    BY <1>1 DEF durable, Positioned
  <1>2. ASSUME NEW t \in Threads, Publish(t)
        PROVE  Positioned'
    <2>1. last' = last + 1 /\ last \in Nat /\ last' \in Nat
      BY <1>2 DEF Publish, Positioned
    <2>2. PICK row : commits' = commits \cup {Log!CommitOf(row, last + 1)}
      BY <1>2 DEF Publish, Log!Publish
    <2>3. \A k \in commits' : k \in commits \/ k.position = last + 1
      BY <2>2 DEF Log!CommitOf
    <2>4. \A k \in commits' : k.position \in Nat /\ k.position <= last'
      BY <2>1, <2>3 DEF Positioned
    <2> QED
      BY <2>1, <2>4 DEF Positioned
  <1> QED
    BY <1>1, <1>2, StepKinds

\* Nothing but the append of a handler writes, and it writes what its row says.
LEMMA LogStep ==
  ASSUME RInv, Positioned, [Next]_vars
  PROVE  [Log!LogNext]_<<commits, Events, next, {}>>
  <1>1. CASE UNCHANGED durable
    <2>1. Events' = Events
      BY <1>1 DEF durable, Events
    <2> QED
      BY <1>1, <2>1 DEF durable
  <1>2. ASSUME NEW t \in Threads, Publish(t)
        PROVE  Log!LogNext
    <2>1. PICK row : row = Row(Request(t), state[t])
      OBVIOUS
    <2>2. row \in Rows
      BY <1>2, <2>1, RowType DEF Publish
    <2>3. Log!Publish(row, last + 1)
      BY <1>2, <2>1 DEF Publish
    <2>4. last + 1 \in Nat
      BY DEF Positioned
    <2> QED
      BY <2>2, <2>3, <2>4 DEF Log!LogNext
  <1> QED
    BY <1>1, <1>2, StepKinds

\* The handlers of reviews and of the evidence gate use the log as CommandLog
\* promises it: their appends are requests of the store, and nothing else writes.
THEOREM ReviewImplementsLog == Spec => Log!LogSpec
  <1>1. Init => Log!LogInit
    BY DEF Init, Log!LogInit, Events
  <1>2. RInv /\ Positioned /\ [Next]_vars => [Log!LogNext]_(Log!logVars)
    BY LogStep DEF Log!logVars
  <1> QED
    BY <1>1, <1>2, RInvInit, RInvStep, PositionedInit, PositionedKept, PTL DEF Spec, Log!LogSpec

\* A handler that reaches append is refused for no other reason than a known command or
\* a stale stream, and the events it writes are the ones its targets and expected
\* sequences announce.
THEOREM AppendRefusesNothingElse == Spec => [](\A t \in Threads : Unblocked(t))
  <1>1. RInv /\ Positioned => \A t \in Threads : Unblocked(t)
    <2> SUFFICES ASSUME RInv, Positioned, NEW t \in Threads, pc[t] = "append", ~Committed(t), ~Stale(t)
                 PROVE  LET row == Row(Request(t), state[t]) IN
                        /\ \A k \in commits : ~Log!SameCommand(k, row) /\ k.position < last + 1
                        /\ \A a \in DOMAIN row.expected : next[row.universe][a] = row.expected[a]
                        /\ Recorded(FactsOf(Request(t), state[t], last + 1)) = Log!EventsOf(row, last + 1)
      BY DEF Unblocked
    <2>1. PICK row : row = Row(Request(t), state[t])
      OBVIOUS
    <2>2. \A k \in commits : ~Log!SameCommand(k, row)
      BY <2>1 DEF Committed, Prior
    <2>3. \A k \in commits : k.position < last + 1
      BY DEF Positioned
    <2>4. \A a \in DOMAIN row.expected : next[row.universe][a] = row.expected[a]
      BY <2>1 DEF Stale, Length, Row
    <2>5. Recorded(FactsOf(Request(t), state[t], last + 1)) = Log!EventsOf(row, last + 1)
      BY <2>1, FactsFollowRow
    <2> QED
      BY <2>1, <2>2, <2>3, <2>4, <2>5
  <1> QED
    BY <1>1, RInvInit, RInvStep, PositionedInit, PositionedKept, PTL DEF Spec
=============================================================================
