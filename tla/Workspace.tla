------------------------------- MODULE Workspace -------------------------------
(***************************************************************************)
(* The workspace and direction commands of Slice1Service (application.py): *)
(* notes, the position of a workspace, directions with their propositions, *)
(* links between the two, and crystallisation.  A handler reads the event  *)
(* log, checks what it read, builds its events, and appends; the log moves *)
(* on in between.  A lookup that finds nothing changes nothing, so it is   *)
(* one step with the append that looks again.                              *)
(*                                                                         *)
(* A stream is named by its kind and by the command that created it; so    *)
(* are note revisions, conclusions and versions of a proposition.          *)
(***************************************************************************)
EXTENDS Naturals

CONSTANTS Commands, Threads, Menu

\* The positions from which a workspace may be moved.
AllowedPositionTransitions ==
  [pause |-> {"exploring"}, reopen |-> {"paused", "concluded"}, conclude |-> {"exploring"},
   branch |-> {"exploring", "concluded"}, absorb |-> {"exploring", "concluded"}]

PositionOps == DOMAIN AllowedPositionTransitions
WorkspaceOps == PositionOps \cup {"note", "anchor", "attach", "crystal", "crystallize"}
DirectionOps == {"declare", "rephrase"}
Ops == WorkspaceOps \cup DirectionOps \cup {"workspace", "direction", "detach"}

\* Menu[k]: what a user may use command id k for.
ASSUME MenuAssumption == Menu \in [Commands -> SUBSET Ops]

Kinds == {"workspace", "direction", "link", "crystallization"}
Addresses == Kinds \X Commands
None == "none"
ASSUME NoneAssumption == None \notin Addresses \cup Commands

VARIABLES
  commits, next,  \* the commit log: rows of ru_commits, lengths of the streams
  facts,          \* the events of the log with the payload fields that matter
  last,           \* position of the last commit
  intent,         \* intent[k]: what the user asked under command id k
  pc, call,       \* the step a thread executes next, and its command id
  state           \* state[t]: what the handler keeps of the log it read

durable == <<commits, next, facts, last>>
vars == <<commits, next, facts, last, intent, pc, call, state>>

Events ==
  {[universe |-> "universe", address |-> f.at, sequence |-> f.sequence, position |-> f.position] :
     f \in facts}

Requests ==
  [command : Commands, op : Ops \cup {None}, target : Addresses \cup {None},
   other : Addresses \cup {None}, ref : Commands \cup {None}, expected : Nat]

Rows ==
  {[universe |-> "universe", command |-> r.command,
    body |-> [op |-> r.op, target |-> r.target, other |-> r.other, ref |-> r.ref],
    expected |-> e, appends |-> [a \in DOMAIN e |-> 1]] :
     r \in Requests, e \in UNION {[A -> Nat] : A \in SUBSET Addresses}}

Log == INSTANCE CommandLog
  WITH Universes <- {"universe"}, Requests <- Rows, Positions <- Nat,
       events <- Events, acked <- {}

Length(a) == next["universe"][a]
Unissued(k) ==
  [command |-> k, op |-> None, target |-> None, other |-> None, ref |-> None, expected |-> 0]
Unread == [version |-> None, linked |-> FALSE]

Init ==
  /\ commits = {}
  /\ next = [u \in {"universe"} |-> [a \in Addresses |-> 0]]
  /\ facts = {}
  /\ last = 0
  /\ intent = [k \in Commands |-> Unissued(k)]
  /\ pc = [t \in Threads |-> "idle"]
  /\ call = [t \in Threads |-> None]
  /\ state = [t \in Threads |-> Unread]
-----------------------------------------------------------------------------
\* What the projections derive from the events.

Exists(a) == Length(a) > 0
Existing(kind) == {a \in {kind} \X Commands : Exists(a)}
Of(type) == {f \in facts : f.type = type}

\* The latest event of a stream below a sequence with one of the given types.
Before(a, n, types) == {f \in facts : f.at = a /\ f.sequence < n /\ f.type \in types}
Latest(S) == CHOOSE f \in S : \A g \in S : g.sequence <= f.sequence

PositionAfter ==
  [workspace_paused |-> "paused", workspace_reopened |-> "exploring",
   workspace_concluded |-> "concluded", workspace_branched |-> "branched",
   workspace_absorbed |-> "absorbed"]

PositionBefore(w, n) ==
  LET moves == Before(w, n, DOMAIN PositionAfter)
  IN IF moves = {} THEN "exploring" ELSE PositionAfter[Latest(moves).type]

Position(w) == PositionBefore(w, Length(w))

\* Reopening a workspace does not take its conclusion back.
Conclusion(w) ==
  LET told == Before(w, Length(w), {"workspace_concluded"})
  IN IF told = {} THEN None ELSE Latest(told).command

Propositions == {"direction_created", "direction_proposition_rephrased"}
VersionBefore(d, n) == Latest(Before(d, n, Propositions)).command

Detached(l) == \E f \in facts : f.at = l /\ f.type = "workspace_direction_detached"
LiveLinks(w, d) ==
  {f.at : f \in {f \in Of("workspace_direction_attached") :
                   f.from = w /\ f.to = d /\ ~Detached(f.at)}}
-----------------------------------------------------------------------------
Request(t) == intent[call[t]]
Own(kind, r) == <<kind, r.command>>

Creates ==
  [workspace |-> "workspace", direction |-> "direction", attach |-> "link",
   crystal |-> "crystallization", crystallize |-> "crystallization"]

\* The stream whose expected sequence the client sends.
Stream(r) == IF r.op \in DOMAIN Creates THEN Own(Creates[r.op], r) ELSE r.target

\* The direction of a link or a crystal.
Direction(r) ==
  IF r.op = "crystallize" /\ r.other = None THEN Own("direction", r) ELSE r.other

\* The links of other commands; that of the command itself does not count.
Linked(r) == LiveLinks(r.target, Direction(r)) \ {Own("link", r)} # {}

\* Mistake: a direction born from a conclusion is not linked with its workspace.
FurtherUnlinked(r, s) ==
  IF r.op = "branch" THEN {Own("workspace", r)}
  ELSE IF r.op = "crystallize"
    THEN IF r.other = None THEN {Own("direction", r)}
         ELSE IF s.linked THEN {} ELSE {Own("link", r)}
  ELSE {}

\* The further streams a composite command creates in its commit.
Further(r, s) ==
  IF r.op = "branch" THEN {Own("workspace", r)}
  ELSE IF r.op = "crystallize"
    THEN (IF r.other = None THEN {Own("direction", r)} ELSE {}) \cup
         (IF s.linked THEN {} ELSE {Own("link", r)})
  ELSE {}

Row(r, s) ==
  LET targets == {Stream(r)} \cup Further(r, s)
  IN [universe |-> "universe", command |-> r.command,
      body |-> [op |-> r.op, target |-> r.target, other |-> r.other, ref |-> r.ref],
      expected |-> [a \in targets |-> IF a = Stream(r) THEN r.expected ELSE 0],
      appends |-> [a \in targets |-> 1]]

Prior(t) == {k \in commits : Log!SameCommand(k, Row(Request(t), state[t]))}
Committed(t) == Prior(t) # {}
Conflicting(t) ==
  \E k \in Prior(t) : k.fingerprint # Log!Fingerprint(Row(Request(t), state[t]))

EventType ==
  [workspace |-> "workspace_created", note |-> "exploration_note_saved",
   anchor |-> "exploration_anchor_created", pause |-> "workspace_paused",
   reopen |-> "workspace_reopened", conclude |-> "workspace_concluded",
   branch |-> "workspace_branched", absorb |-> "workspace_absorbed",
   direction |-> "direction_created", declare |-> "direction_status_declared",
   rephrase |-> "direction_proposition_rephrased", attach |-> "workspace_direction_attached",
   detach |-> "workspace_direction_detached",
   crystal |-> "workspace_crystallization_attached",
   crystallize |-> "workspace_crystallization_attached"]

\* What creates the further streams of a composite command.
CreatedBy ==
  [workspace |-> "workspace_created", direction |-> "direction_created",
   link |-> "workspace_direction_attached"]

\* An event of request r; a rephrasing names the version it replaces, the others
\* what the request refers to.
Fact(type, a, n, p, r, s) ==
  [type |-> type, at |-> a, sequence |-> n, position |-> p, command |-> r.command,
   from |-> r.target, to |-> Direction(r),
   ref |-> IF r.op = "rephrase" THEN s.version ELSE r.ref]

FactsOf(r, s, p) ==
  {Fact(EventType[r.op], Stream(r), r.expected, p, r, s)} \cup
  {Fact(CreatedBy[a[1]], a, 0, p, r, s) : a \in Further(r, s)}
-----------------------------------------------------------------------------
\* What the screen offers for an operation.
Targets(op) ==
  IF op \in WorkspaceOps THEN Existing("workspace")
  ELSE IF op \in DirectionOps THEN Existing("direction")
  ELSE IF op = "detach" THEN Existing("link") ELSE {None}

Others(op) ==
  IF op = "absorb" THEN Existing("workspace")
  ELSE IF op \in {"attach", "crystal"} THEN Existing("direction")
  ELSE IF op = "crystallize" THEN Existing("direction") \cup {None} ELSE {None}

Refs(op) ==
  IF op = "anchor" THEN {f.command : f \in Of("exploration_note_saved")}
  ELSE IF op \in {"crystal", "crystallize"} THEN {f.command : f \in Of("workspace_concluded")}
  ELSE {None}

Draft(k, op, target, other, ref) ==
  [command |-> k, op |-> op, target |-> target, other |-> other, ref |-> ref, expected |-> 0]

\* A user acts on something on the screen, at the sequence shown with it.
Issue(k, op) ==
  /\ intent[k].op = None
  /\ op \in Menu[k]
  /\ \E target \in Targets(op), other \in Others(op), ref \in Refs(op) :
       LET r == Draft(k, op, target, other, ref)
       IN intent' = [intent EXCEPT ![k] = [r EXCEPT !.expected = Length(Stream(r))]]
  /\ UNCHANGED <<durable, pc, call, state>>

\* The request arrives, the first time or as a retry.
Send(t, k) ==
  /\ pc[t] = "idle"
  /\ intent[k].op # None
  /\ pc' = [pc EXCEPT ![t] = "read"]
  /\ call' = [call EXCEPT ![t] = k]
  /\ UNCHANGED <<durable, intent, state>>

End(t) ==
  /\ pc' = [pc EXCEPT ![t] = "idle"]
  /\ call' = [call EXCEPT ![t] = None]
  /\ state' = [state EXCEPT ![t] = Unread]
  /\ UNCHANGED intent

\* Mistake: any conclusion may be crystallised, whichever workspace it is from.
AdmissibleForeignConclusion(r) ==
  /\ r.op \in PositionOps => Position(r.target) \in AllowedPositionTransitions[r.op]
  /\ r.op = "absorb" => r.other # r.target
  /\ r.op = "anchor" =>
       \E f \in Of("exploration_note_saved") : f.at = r.target /\ f.command = r.ref
  /\ r.op = "detach" => ~Detached(r.target)

\* The checks a handler makes on the events it has just read.
Admissible(r) ==
  /\ r.op \in PositionOps => Position(r.target) \in AllowedPositionTransitions[r.op]
  /\ r.op = "absorb" => r.other # r.target
  /\ r.op = "anchor" =>
       \E f \in Of("exploration_note_saved") : f.at = r.target /\ f.command = r.ref
  /\ r.op = "detach" => ~Detached(r.target)
  /\ r.op \in {"crystal", "crystallize"} => Conclusion(r.target) = r.ref

Read(t) ==
  /\ pc[t] = "read"
  /\ Admissible(Request(t))
  /\ state' = [state EXCEPT ![t] =
       [version |-> IF Request(t).op = "rephrase"
                      THEN VersionBefore(Request(t).target, Length(Request(t).target))
                      ELSE None,
        linked |-> Request(t).op = "crystallize" /\ Linked(Request(t))]]
  /\ pc' = [pc EXCEPT ![t] = "append"]
  /\ UNCHANGED <<durable, intent, call>>

\* A durable commit of the same command with the same fingerprint is returned.
Replay(t) ==
  /\ pc[t] = "append"
  /\ Committed(t)
  /\ ~Conflicting(t)
  /\ End(t)
  /\ UNCHANGED durable

Stale(t) ==
  LET row == Row(Request(t), state[t])
  IN \E a \in DOMAIN row.expected : Length(a) # row.expected[a]

\* Mistake: the sequence comes from the log at the append, not from the client.
PublishAtCurrentSequence(t) ==
  LET r == [Request(t) EXCEPT !.expected = Length(Stream(Request(t)))]
  IN /\ pc[t] = "append"
     /\ last' = last + 1
     /\ facts' = facts \cup FactsOf(r, state[t], last + 1)
     /\ Log!Publish(Row(r, state[t]), last + 1)
     /\ End(t)

Publish(t) ==
  /\ pc[t] = "append"
  /\ last' = last + 1
  /\ facts' = facts \cup FactsOf(Request(t), state[t], last + 1)
  /\ Log!Publish(Row(Request(t), state[t]), last + 1)
  /\ End(t)

\* The handler raises and the client is told so.
RefuseRead(t) == pc[t] = "read" /\ ~Admissible(Request(t)) /\ End(t)
RefuseAppend(t) ==
  /\ pc[t] = "append"
  /\ Conflicting(t) \/ (~Committed(t) /\ Stale(t))
  /\ End(t)
Refuse(t) == (RefuseRead(t) \/ RefuseAppend(t)) /\ UNCHANGED durable

\* The thread or its connection is lost.
Abandon(t) == pc[t] # "idle" /\ End(t) /\ UNCHANGED durable

Next ==
  \/ \E k \in Commands, op \in Ops : Issue(k, op)
  \/ \E t \in Threads :
       \/ \E k \in Commands : Send(t, k)
       \/ Read(t) \/ Replay(t) \/ Publish(t) \/ Refuse(t) \/ Abandon(t)

Spec == Init /\ [][Next]_vars
-----------------------------------------------------------------------------
\* Every event that moved a workspace was allowed from the position the events
\* before it add up to, whatever else happened between the check and the append:
\* there is no way out of branched and absorbed, and one conclusion per exploration.
PositionsFollowTransitions ==
  \A op \in PositionOps : \A f \in Of(EventType[op]) :
    PositionBefore(f.at, f.sequence) \in AllowedPositionTransitions[op]

\* The versions of a proposition are a chain: each rephrasing names as the version
\* it replaces the one that was current, so no wording drops out of the history.
RephrasingsChain ==
  \A f \in Of("direction_proposition_rephrased") : f.ref = VersionBefore(f.at, f.sequence)

\* Nothing follows the detachment of a link, so a link is detached at most once.
DetachedIsFinal ==
  \A f, g \in facts :
    f.type = "workspace_direction_detached" /\ g.at = f.at /\ g # f => g.sequence < f.sequence

\* A direction born from a conclusion is never an orphan: the commit that creates
\* it holds exactly its link with the workspace and its crystal.
NoOrphanDirection ==
  \A d \in {f \in Of("direction_created") : f.from # None} :
    LET kin == {f \in facts : f.position = d.position /\ f # d}
    IN /\ {f.type : f \in kin} =
            {"workspace_direction_attached", "workspace_crystallization_attached"}
       /\ \A f, g \in kin : f.from = d.from /\ f.to = d.at /\ (f.type = g.type => f = g)

\* A crystal leads back to a conclusion of its own workspace, given before it.
CrystalIsGrounded ==
  \A f \in Of("workspace_crystallization_attached") :
    \E g \in Of("workspace_concluded") :
      g.at = f.from /\ g.command = f.ref /\ g.position < f.position
=============================================================================
