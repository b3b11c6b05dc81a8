-------------------------------- MODULE Review --------------------------------
(***************************************************************************)
(* The review and evidence commands of Slice1Service (application.py), run *)
(* by request threads against the commit log.  A handler reads the event   *)
(* log once, checks what it read, looks the command up, may call a         *)
(* generator, and appends; the log moves on between any two of these.      *)
(* The one universe, its claim and its materials exist from the start.     *)
(*                                                                         *)
(* A stream is named by its kind and by the command that created it, as    *)
(* uuid5 derives the ids of rounds, challenges and candidates from command *)
(* ids.  A user binds an intent to a command id and to the sequence shown  *)
(* on the screen; any thread may execute it, any number of times.          *)
(***************************************************************************)
EXTENDS Naturals

CONSTANTS Commands, Threads, Materials, Parsed, Menu

ChallengeOps == {"answer", "defer", "withdraw"}
DecisionOps == {"confirm", "correct", "reject", "withdraw_candidate"}
ProposalOps == {"propose", "generate"}
RoundOps == {"verdict", "more"} \cup ProposalOps
Ops == {"start"} \cup RoundOps \cup ChallengeOps \cup DecisionOps

Relations == {"supports", "contradicts", "silent", "cannot_assess"}

\* Materials whose parse_status is "parsed"; the others failed to parse.
ASSUME ParsedAssumption == Parsed \subseteq Materials
\* Menu[k]: what a user may use command id k for.
ASSUME MenuAssumption == Menu \in [Commands -> SUBSET Ops]

Addresses == {"round", "challenge", "candidate"} \X Commands
Claim == <<"claim">>
None == "none"

VARIABLES
  commits, next,  \* the commit log: rows of ru_commits, lengths of the streams
  facts,          \* the events of the log with the payload fields that matter
  last,           \* position of the last commit
  intent,         \* intent[k]: what the user asked under command id k
  pc, call,       \* the step a thread executes next, and its command id
  state           \* state[t]: what the handler keeps of the log it read

durable == <<commits, next, facts, last>>
vars == <<commits, next, facts, last, intent, pc, call, state>>

Events ==
  {[universe |-> "universe", address |-> f.at, sequence |-> f.sequence, position |-> f.position] :
     f \in facts}

Requests ==
  [command : Commands, op : Ops \cup {None}, target : Addresses \cup {Claim},
   relation : Relations \cup {None}, material : Materials \cup {None}, expected : Nat]

\* What the service may pass to append: the target streams grow by one event.
Rows ==
  {[universe |-> "universe", command |-> r.command,
    body |-> [op |-> r.op, target |-> r.target, relation |-> r.relation, material |-> r.material],
    expected |-> e, appends |-> [a \in DOMAIN e |-> 1]] :
     r \in Requests, e \in UNION {[A -> Nat] : A \in SUBSET Addresses}}

Log == INSTANCE CommandLog
  WITH Universes <- {"universe"}, Requests <- Rows, Positions <- Nat,
       events <- Events, acked <- {}

Length(a) == next["universe"][a]
Unissued(k) ==
  [command |-> k, op |-> None, target |-> Claim, relation |-> None,
   material |-> None, expected |-> 0]
Unread == [open |-> FALSE, relation |-> None]

Init ==
  /\ commits = {}
  /\ next = [u \in {"universe"} |-> [a \in Addresses |-> 0]]
  /\ facts = {}
  /\ last = 0
  /\ intent = [k \in Commands |-> Unissued(k)]
  /\ pc = [t \in Threads |-> "idle"]
  /\ call = [t \in Threads |-> None]
  /\ state = [t \in Threads |-> Unread]
-----------------------------------------------------------------------------
\* What the projections derive from the events.

Exists(a) == \E f \in facts : f.at = a
RoundOf(a) == (CHOOSE f \in facts : f.at = a).round

Decided == {"evidence_relation_confirmed", "evidence_relation_corrected",
            "evidence_relation_rejected", "evidence_relation_withdrawn"}
Closing == {"verdict_confirmed", "challenge_deferred", "challenge_withdrawn"} \cup Decided

\* A round with a verdict, a deferred or withdrawn challenge, a decided candidate.
Closed(a) == \E f \in facts : f.at = a /\ f.type \in Closing

Has(c, type) == \E f \in facts : f.at = c /\ f.type = type

\* Mistake: a withdrawal is shown before the verdict of the round.
ChallengeStatusWithdrawnFirst(c) ==
  IF Has(c, "challenge_withdrawn") THEN "withdrawn"
  ELSE IF Has(c, "challenge_deferred") THEN "deferred"
  ELSE IF Closed(<<"round", RoundOf(c)>>) THEN "resolved_by_verdict"
  ELSE IF Has(c, "challenge_answered") THEN "answered"
  ELSE "pending"

ChallengeStatus(c) ==
  IF Closed(<<"round", RoundOf(c)>>) THEN "resolved_by_verdict"
  ELSE IF Has(c, "challenge_withdrawn") THEN "withdrawn"
  ELSE IF Has(c, "challenge_deferred") THEN "deferred"
  ELSE IF Has(c, "challenge_answered") THEN "answered"
  ELSE "pending"

\* A correction replaces the proposed relation, no other decision does.
CandidateRelation(c) ==
  LET told == {f \in facts : f.at = c /\ f.relation # None}
  IN (CHOOSE f \in told : \A g \in told : g.sequence <= f.sequence).relation

MaterialOf(c) == (CHOOSE f \in facts : f.at = c /\ f.sequence = 0).basis[2]

CandidateStatus(c) == {f.type : f \in {f \in facts : f.at = c /\ f.type \in Decided}}
-----------------------------------------------------------------------------
Request(t) == intent[call[t]]

\* The stream whose expected sequence the client sends.
Stream(r) ==
  IF r.op = "start" THEN <<"round", r.command>>
  ELSE IF r.op = "more" THEN <<"challenge", r.command>>
  ELSE IF r.op \in ProposalOps THEN <<"candidate", r.command>>
  ELSE r.target

OwnChallenge(r) == <<"challenge", r.command>>

\* Mistake: a correction to a contradiction raises no challenge.
WithChallengeOnConfirmOnly(r, s) ==
  r.op = "start" \/ (r.op = "confirm" /\ s.relation = "contradicts")

\* Mistake: a decided candidate is not asked for its challenge again.
WithChallengeWhilePending(r, s) ==
  \/ r.op = "start"
  \/ r.op = "confirm" /\ s.relation = "contradicts" /\ s.open
  \/ r.op = "correct" /\ r.relation = "contradicts"

\* A round starts with a challenge; a contradiction the user lets stand
\* becomes one.
WithChallenge(r, s) ==
  \/ r.op = "start"
  \/ r.op = "confirm" /\ s.relation = "contradicts"
  \/ r.op = "correct" /\ r.relation = "contradicts"

Targets(r, s) == {Stream(r)} \cup (IF WithChallenge(r, s) THEN {OwnChallenge(r)} ELSE {})

Row(r, s) ==
  [universe |-> "universe", command |-> r.command,
   body |-> [op |-> r.op, target |-> r.target, relation |-> r.relation, material |-> r.material],
   expected |-> [a \in Targets(r, s) |-> IF a = Stream(r) THEN r.expected ELSE 0],
   appends |-> [a \in Targets(r, s) |-> 1]]

Prior(t) == {k \in commits : Log!SameCommand(k, Row(Request(t), state[t]))}
Committed(t) == Prior(t) # {}
Conflicting(t) ==
  \E k \in Prior(t) : k.fingerprint # Log!Fingerprint(Row(Request(t), state[t]))

RoundFor(r) ==
  IF r.op = "start" THEN r.command
  ELSE IF r.op \in RoundOps THEN r.target[2]
  ELSE RoundOf(r.target)

EventType ==
  [start |-> "review_round_started", more |-> "challenge_created",
   answer |-> "challenge_answered", defer |-> "challenge_deferred",
   withdraw |-> "challenge_withdrawn", verdict |-> "verdict_confirmed",
   propose |-> "evidence_relation_proposed", generate |-> "evidence_relation_proposed",
   confirm |-> "evidence_relation_confirmed", correct |-> "evidence_relation_corrected",
   reject |-> "evidence_relation_rejected",
   withdraw_candidate |-> "evidence_relation_withdrawn"]

\* The relation an event records: the user's, or the one the handler read or drew.
Told(r, s) ==
  IF r.op \in {"propose", "correct"} THEN r.relation
  ELSE IF r.op \in {"generate", "confirm"} THEN s.relation
  ELSE None

MainFact(r, s, p) ==
  [type |-> EventType[r.op], at |-> Stream(r), sequence |-> r.expected, position |-> p,
   round |-> RoundFor(r), relation |-> Told(r, s), basis |-> <<"material", r.material>>]

ChallengeFact(r, p) ==
  [type |-> "challenge_created", at |-> OwnChallenge(r), sequence |-> 0, position |-> p,
   round |-> RoundFor(r), relation |-> None, basis |-> r.target]

FactsOf(r, s, p) ==
  {MainFact(r, s, p)} \cup (IF WithChallenge(r, s) THEN {ChallengeFact(r, p)} ELSE {})
-----------------------------------------------------------------------------
\* What the screen offers for an operation: a stream of its kind that exists.
Offered(op) ==
  IF op = "start" THEN {Claim}
  ELSE {a \in Addresses :
          /\ Exists(a)
          /\ a[1] = IF op \in RoundOps THEN "round"
                    ELSE IF op \in ChallengeOps THEN "challenge" ELSE "candidate"}

Draft(k, op, target, relation, material) ==
  [command |-> k, op |-> op, target |-> target, relation |-> relation,
   material |-> material, expected |-> 0]

\* A user acts on something on the screen, at the sequence shown with it.
Issue(k, op) ==
  /\ intent[k].op = None
  /\ op \in Menu[k]
  /\ \E target \in Offered(op),
        relation \in IF op \in {"propose", "correct"} THEN Relations ELSE {None},
        material \in IF op \in ProposalOps THEN Materials ELSE {None} :
       LET r == Draft(k, op, target, relation, material)
       IN intent' = [intent EXCEPT ![k] = [r EXCEPT !.expected = Length(Stream(r))]]
  /\ UNCHANGED <<durable, pc, call, state>>

\* The request arrives, the first time or as a retry.
Send(t, k) ==
  /\ pc[t] = "idle"
  /\ intent[k].op # None
  /\ pc' = [pc EXCEPT ![t] = "read"]
  /\ call' = [call EXCEPT ![t] = k]
  /\ UNCHANGED <<durable, intent, state>>

Goto(t, step) == pc' = [pc EXCEPT ![t] = step] /\ UNCHANGED <<intent, call>>

End(t) ==
  /\ pc' = [pc EXCEPT ![t] = "idle"]
  /\ call' = [call EXCEPT ![t] = None]
  /\ state' = [state EXCEPT ![t] = Unread]
  /\ UNCHANGED intent

SilentUnparsed(relation, material) == relation = "silent" /\ material \notin Parsed

\* The checks a handler makes on the events it has just read.
Admissible(r) ==
  /\ r.op = "verdict" => ~Closed(r.target)
  /\ r.op \in ChallengeOps => ~Closed(r.target) /\ ~Closed(<<"round", RoundOf(r.target)>>)
  /\ r.op = "propose" => ~SilentUnparsed(r.relation, r.material)

AfterRead(op) ==
  IF op = "start" THEN "guard" ELSE IF op \in {"more", "generate"} THEN "generate" ELSE "lookup"

Read(t) ==
  /\ pc[t] = "read"
  /\ Admissible(Request(t))
  /\ state' = [state EXCEPT ![t] =
       [open |-> ~Closed(Stream(Request(t))),
        relation |-> IF Request(t).op \in DecisionOps THEN CandidateRelation(Request(t).target)
                                                      ELSE None]]
  /\ Goto(t, AfterRead(Request(t).op))
  /\ UNCHANGED durable

\* command_execution: one thread at a time per command from here to the end.
InGuard(t) == pc[t] \in {"lookup", "generate", "append"} /\ Request(t).op = "start"

\* Mistake: the guard is keyed by the thread, not by the command.
AcquireGuardAlways(t) ==
  /\ pc[t] = "guard"
  /\ Goto(t, "lookup")
  /\ UNCHANGED <<durable, state>>

AcquireGuard(t) ==
  /\ pc[t] = "guard"
  /\ \A u \in Threads : InGuard(u) => call[u] # call[t]
  /\ Goto(t, "lookup")
  /\ UNCHANGED <<durable, state>>

\* A durable commit of the same command with the same fingerprint is returned.
Replay(t) ==
  /\ pc[t] \in {"lookup", "append"}
  /\ Committed(t)
  /\ ~Conflicting(t)
  /\ End(t)
  /\ UNCHANGED durable

\* Mistake: a decision does not ask whether the candidate is pending.
DecidableAgain(r, s) ==
  r.op = "correct" =>
    /\ r.relation # s.relation
    /\ ~SilentUnparsed(r.relation, MaterialOf(r.target))

\* What a decision checks after the lookup, on what it read before it.
Decidable(r, s) ==
  r.op \in DecisionOps =>
    /\ s.open
    /\ r.op = "correct" =>
         /\ r.relation # s.relation
         /\ ~SilentUnparsed(r.relation, MaterialOf(r.target))

Lookup(t) ==
  /\ pc[t] = "lookup"
  /\ ~Committed(t)
  /\ Decidable(Request(t), state[t])
  /\ Goto(t, IF Request(t).op = "start" THEN "generate" ELSE "append")
  /\ UNCHANGED <<durable, state>>

\* Mistake: the generator's relation is recorded as it is.
GenerateTrusting(t) ==
  /\ pc[t] = "generate"
  /\ IF Request(t).op = "generate"
       THEN \E relation \in Relations : state' = [state EXCEPT ![t].relation = relation]
       ELSE UNCHANGED state
  /\ Goto(t, IF Request(t).op = "start" THEN "append" ELSE "lookup")
  /\ UNCHANGED durable

\* The generator answers; a relation for an unparsed material is overruled.
Generate(t) ==
  /\ pc[t] = "generate"
  /\ IF Request(t).op = "generate"
       THEN \E relation \in Relations :
              state' = [state EXCEPT ![t].relation =
                IF Request(t).material \in Parsed THEN relation ELSE "cannot_assess"]
       ELSE UNCHANGED state
  /\ Goto(t, IF Request(t).op = "start" THEN "append" ELSE "lookup")
  /\ UNCHANGED durable

Stale(t) ==
  LET row == Row(Request(t), state[t])
  IN \E a \in DOMAIN row.expected : Length(a) # row.expected[a]

Publish(t) ==
  /\ pc[t] = "append"
  /\ last' = last + 1
  /\ facts' = facts \cup FactsOf(Request(t), state[t], last + 1)
  /\ Log!Publish(Row(Request(t), state[t]), last + 1)
  /\ End(t)

\* The handler raises and the client is told so.
RefuseRead(t) == pc[t] = "read" /\ ~Admissible(Request(t)) /\ End(t)

\* Mistake: the pending check comes before the lookup.
RefuseLookupFirst(t) ==
  /\ pc[t] = "lookup"
  /\ Conflicting(t) \/ ~Decidable(Request(t), state[t])
  /\ End(t)

RefuseLookup(t) ==
  /\ pc[t] = "lookup"
  /\ Conflicting(t) \/ (~Committed(t) /\ ~Decidable(Request(t), state[t]))
  /\ End(t)
RefuseAppend(t) ==
  /\ pc[t] = "append"
  /\ Conflicting(t) \/ (~Committed(t) /\ Stale(t))
  /\ End(t)
\* The generator fails: the answer is a 502.
RefuseGenerate(t) == pc[t] = "generate" /\ End(t)
Refuse(t) ==
  /\ RefuseRead(t) \/ RefuseGenerate(t) \/ RefuseLookup(t) \/ RefuseAppend(t)
  /\ UNCHANGED durable

\* The thread or its connection is lost: nobody is answered.
Abandon(t) == pc[t] # "idle" /\ End(t) /\ UNCHANGED durable

Next ==
  \/ \E k \in Commands, op \in Ops : Issue(k, op)
  \/ \E t \in Threads :
       \/ \E k \in Commands : Send(t, k)
       \/ Read(t) \/ AcquireGuard(t) \/ Lookup(t) \/ Generate(t)
       \/ Replay(t) \/ Publish(t) \/ Refuse(t) \/ Abandon(t)

Spec == Init /\ [][Next]_vars
-----------------------------------------------------------------------------
\* Nothing follows what closes a stream: a round has one verdict, a deferred or
\* withdrawn challenge is neither answered nor closed again, a candidate has one
\* decision.  Handlers check it on events that may be stale by the time they
\* append; the expected sequence has to make up for that.
ClosingIsFinal ==
  \A f, g \in facts : f.type \in Closing /\ g.at = f.at /\ g # f => g.sequence < f.sequence

StatusRank(status) ==
  CASE status = "pending" -> 0 [] status = "answered" -> 1
    [] status \in {"deferred", "withdrawn"} -> 2 [] status = "resolved_by_verdict" -> 3

\* What a challenge or a candidate was once shown to be is never taken back: a
\* challenge only moves towards its resolution, and the status and the relation
\* of a decided candidate stay as they are.
StatusOnlyAdvances ==
  [][/\ \A c \in {f.at : f \in {f \in facts : f.type = "challenge_created"}} :
          \/ ChallengeStatus(c)' = ChallengeStatus(c)
          \/ StatusRank(ChallengeStatus(c)') > StatusRank(ChallengeStatus(c))
     /\ \A c \in {f.at : f \in {f \in facts : f.type \in Decided}} :
          /\ CandidateStatus(c)' = CandidateStatus(c)
          /\ CandidateRelation(c)' = CandidateRelation(c)]_vars

\* A candidate carries a contradiction that a user let stand exactly if one
\* challenge faces it, created by the same commit in the round of the candidate.
ContradictionIsChallenged ==
  \A f \in {f \in facts : f.type = "evidence_relation_proposed"} :
    LET standing == {d \in facts : /\ d.at = f.at
                                   /\ d.type \in {"evidence_relation_confirmed",
                                                 "evidence_relation_corrected"}
                                   /\ d.relation = "contradicts"}
        facing == {h \in facts : h.type = "challenge_created" /\ h.basis = f.at}
    IN /\ \A g, h \in facing : g = h
       /\ {<<d.position, f.round>> : d \in standing} = {<<h.position, h.round>> : h \in facing}

\* A material that failed to parse is never on record as silent, whoever told
\* the relation: a user, the generator, or a correction of either.
SilentOnlyIfParsed ==
  \A f \in facts : f.relation = "silent" => MaterialOf(f.at) \in Parsed

\* A thread that executes a committed command, at whatever time it read the
\* log, rebuilds the fingerprint that was committed, though the target streams
\* depend on a candidate that the commit itself has changed.
RetriesKeepFingerprint ==
  \A t \in Threads : pc[t] \in {"lookup", "append"} => ~Conflicting(t)

\* The generator of a first challenge never runs for a command that is already
\* committed, nor for two threads with the same command at once.
GuardedGeneration ==
  \A t \in Threads : pc[t] = "generate" /\ Request(t).op = "start" =>
    /\ ~Committed(t)
    /\ \A u \in Threads : pc[u] = "generate" /\ call[u] = call[t] => u = t

\* Starting a round, a user's proposal of evidence and the decisions on it may be
\* retried at any time: once committed, the command is never refused.  Of the
\* others, a further challenge or a generated proposal is refused only where its
\* generator, which runs before the command is looked up, fails.
DecisionRetryReplays ==
  [][\A t \in Threads :
       Refuse(t) /\ Committed(t) =>
         \/ Request(t).op \in ChallengeOps \cup {"verdict"}
         \/ pc[t] = "generate" /\ Request(t).op \in {"more", "generate"}]_vars

\* The plan's promise for every command: one that was committed with the same
\* fingerprint is answered with its original result.
CommandRetryReplays ==
  [][\A t \in Threads : Refuse(t) => ~Committed(t)]_vars

\* A verdict closes its round: a challenge of the round takes no answer,
\* deferral or withdrawal after it.
NoAnswerAfterVerdict ==
  \A f, v \in facts :
    /\ f.type \in {"challenge_answered", "challenge_deferred", "challenge_withdrawn"}
    /\ v.at = <<"round", f.round>> /\ v.type = "verdict_confirmed"
    => f.position < v.position
=============================================================================
