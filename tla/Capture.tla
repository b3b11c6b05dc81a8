-------------------------------- MODULE Capture --------------------------------
(***************************************************************************)
(* Materials, gap candidates, literature challenges, claims drawn from     *)
(* gaps, and sealed captures (application.py, sealed_park_store.py with    *)
(* the routes of slices 2, 8 and 9).  A gap or a literature challenge may  *)
(* cite papers that are not in the library: each is snapshot once for the  *)
(* whole universe, in the commit of what cites it.                         *)
(*                                                                         *)
(* Threads execute commands against the commit log, reading it anew at     *)
(* every step, and a client may send a command again at any time, also     *)
(* while its first delivery is still being executed.                       *)
(***************************************************************************)
EXTENDS Naturals, Sequences, FiniteSets

CONSTANTS Commands, Threads, Workspaces, Locators, Menu

DecisionOps == {"confirm", "correct", "reject", "withdraw"}
CapturingOps == {"propose", "literature"}
Ops == DecisionOps \cup CapturingOps \cup {"add", "claim", "capture", "release", "forge"}

\* A request names a workspace, the commands that made what it is about (a gap, a
\* material, a capture; a claim, a release and a capture), and locators of papers.
Requests ==
  [op : Ops, at : Workspaces \cup {"new"}, about : Seq(Commands), locators : SUBSET Locators]

\* Menu[k]: what a user may use command id k for.  A release makes its workspace if
\* it has none.
ASSUME MenuAssumption ==
  /\ DOMAIN Menu = Commands
  /\ \A k \in Commands : \A r \in Menu[k] :
       /\ r \in Requests
       /\ r.op \in DecisionOps \cup {"release"} => Len(r.about) = 1
       /\ r.op = "forge" => Len(r.about) = 3
       /\ r.at = "new" => r.op = "release"
       /\ r.op = "add" => Cardinality(r.locators) <= 1

VARIABLES
  commits,   \* the commit log: per commit its command, request, target streams
  sealed,    \* the commands whose captures the sealed store holds
  asked,     \* asked[k]: the request bound to command id k, and its expected sequence
  pc, call,  \* the step a thread executes next, and what it keeps meanwhile
  denied     \* the calls that were told of a conflict, or denied what was there

vars == <<commits, sealed, asked, pc, call, denied>>

Unasked == [request |-> [op |-> "none", at |-> "new", about |-> <<>>, locators |-> {}], expected |-> 0]
NoCall == [command |-> "none", known |-> FALSE, expected |-> <<>>, status |-> "pending"]

Init ==
  /\ commits = <<>> /\ sealed = {}
  /\ asked = [k \in Commands |-> Unasked] /\ denied = {}
  /\ pc = [t \in Threads |-> "idle"] /\ call = [t \in Threads |-> NoCall]
-----------------------------------------------------------------------------
\* What a handler derives from the log.

Targets(i) == DOMAIN commits[i].expected
Written == UNION {Targets(i) : i \in DOMAIN commits}
Length(a) == Cardinality({i \in DOMAIN commits : a \in Targets(i)})
CommitsOf(k) == {i \in DOMAIN commits : commits[i].command = k}

Container == <<"container">>
\* Mistake: the id of a snapshot is drawn from the command that takes it.
SnapshotPerCommand(k, locator) == <<"snapshot", locator, k>>

\* The id of a snapshot is drawn from the universe and the locator.
Snapshot(k, locator) == <<"snapshot", locator>>

Made(op) ==
  CASE op = "propose" -> "gap" [] op = "literature" -> "challenge" [] op = "add" -> "material"
    [] OTHER -> op

\* The stream whose expected sequence the client sends.
Own(k) ==
  LET r == asked[k].request
  IN IF r.op \in DecisionOps THEN <<"gap", r.about[1]>> ELSE <<Made(r.op), k>>

Decisions(g) ==
  {i \in DOMAIN commits : commits[i].request.op \in DecisionOps /\ commits[i].request.about[1] = g}

\* _gap_candidate_states: the last decision, and only that.
GapStatus(g) ==
  IF Decisions(g) = {} THEN "pending"
  ELSE commits[CHOOSE i \in Decisions(g) : \A j \in Decisions(g) : j <= i].request.op

\* Mistake: any gap that was not turned down will do.
NotTurnedDown(g) == GapStatus(g) \notin {"reject", "withdraw"}

Established(g) == GapStatus(g) \in {"confirm", "correct"}

IsMade(op, k, place) ==
  \E i \in CommitsOf(k) : commits[i].request.op = op /\ commits[i].request.at \in place

\* A release leads to the workspace it names; claims in one it made are left out.
IsReleased(release, capture, w) ==
  \E i \in CommitsOf(release) :
    /\ commits[i].request.op = "release" /\ commits[i].request.about = <<capture>>
    /\ commits[i].request.at = w

Forgeable(r) ==
  /\ IsMade("claim", r.about[1], {r.at})
  /\ IsReleased(r.about[2], r.about[3], r.at)
-----------------------------------------------------------------------------
Request(t) == asked[call[t].command].request
Goto(t, step) == pc' = [pc EXCEPT ![t] = step]

\* The user binds a request to a command id and to the sequence on the screen.
Ask(k, r) ==
  /\ asked[k] = Unasked /\ r \in Menu[k]
  /\ r.op \in DecisionOps => <<"gap", r.about[1]>> \in Written
  /\ asked' = [asked EXCEPT ![k] =
       [request |-> r, expected |-> IF r.op \in DecisionOps THEN Length(<<"gap", r.about[1]>>) ELSE 0]]
  /\ UNCHANGED <<commits, sealed, pc, call, denied>>

FirstStep(op) ==
  CASE op = "capture" -> "select"
    [] op \in CapturingOps -> "replay"
    [] op = "add" -> "lookup"
    [] OTHER -> "read"

\* The evidence of the same workspace with the same locator.
Duplicates(r) ==
  {i \in DOMAIN commits :
     /\ r.locators # {}
     /\ commits[i].request.op = "add" /\ commits[i].request.at = r.at
     /\ commits[i].request.locators = r.locators}

\* What the request asks for is there: its commit, or a duplicate of its material.
IsKnown(k) ==
  \/ CommitsOf(k) # {} \/ k \in sealed
  \/ asked[k].request.op = "add" /\ Duplicates(asked[k].request) # {}

Deliver(t, k) ==
  /\ pc[t] = "idle" /\ asked[k] # Unasked
  /\ call' = [call EXCEPT ![t] = [NoCall EXCEPT !.command = k, !.known = IsKnown(k)]]
  /\ Goto(t, FirstStep(asked[k].request.op))
  /\ UNCHANGED <<commits, sealed, asked, denied>>

Denies(t, is) == is = "conflict" \/ (call[t].known /\ is \notin {"answered", "deduplicated"})

Tell(t, is) ==
  LET told == [command |-> call[t].command, known |-> call[t].known, is |-> is]
  IN denied' = IF Denies(t, is) THEN denied \cup {told} ELSE denied

Reply(t, is) ==
  /\ Goto(t, "idle") /\ Tell(t, is)
  /\ call' = [call EXCEPT ![t] = NoCall]
  /\ UNCHANGED asked

Continue(t, step, expected, status) ==
  /\ Goto(t, step)
  /\ call' = [call EXCEPT ![t].expected = expected, ![t].status = status]
  /\ UNCHANGED <<commits, sealed, asked, denied>>

OwnTarget(k) == [a \in {Own(k)} |-> asked[k].expected]
-----------------------------------------------------------------------------
\* add_material: the command is looked up, then the locator.
Lookup(t) ==
  /\ pc[t] = "lookup"
  /\ \/ CommitsOf(call[t].command) = {} /\ Continue(t, "dedupe", <<>>, "pending")
     \/ CommitsOf(call[t].command) # {} /\ Reply(t, "answered") /\ UNCHANGED <<commits, sealed>>

\* Mistake: only the command is looked up.
DedupeSkipped(t) ==
  pc[t] = "dedupe" /\ Continue(t, "append", OwnTarget(call[t].command), "pending")

\* One that is there is answered in place of a new one; nothing is recorded then.
Dedupe(t) ==
  /\ pc[t] = "dedupe"
  /\ \/ Duplicates(Request(t)) = {} /\ Continue(t, "append", OwnTarget(call[t].command), "pending")
     \/ Duplicates(Request(t)) # {} /\ Reply(t, "deduplicated") /\ UNCHANGED <<commits, sealed>>
-----------------------------------------------------------------------------
\* generate_literature_challenge checks first that its materials are there.
Citable(r) == \A i \in DOMAIN r.about : IsMade("add", r.about[i], Workspaces)

\* Mistake: the snapshots of the first commit are forgotten.
ReplayOwnTarget(k, i) == OwnTarget(k)

\* The targets of the first commit, put together from its events.
ReplayTargets(k, i) == [a \in Targets(i) |-> IF a = Own(k) THEN asked[k].expected ELSE 0]

\* _replay_commit
Replay(t) ==
  LET k == call[t].command IN
  /\ pc[t] = "replay"
  /\ IF ~Citable(Request(t)) THEN Reply(t, "refused") /\ UNCHANGED <<commits, sealed>>
     ELSE IF CommitsOf(k) = {}
     THEN Continue(t, IF Request(t).op = "literature" THEN "generate" ELSE "snapshot", <<>>, "pending")
     ELSE /\ \E i \in CommitsOf(k) :
               Reply(t, IF ReplayTargets(k, i) = commits[i].expected THEN "answered" ELSE "conflict")
          /\ UNCHANGED <<commits, sealed>>

\* The model writes the challenge, or the call fails and nothing is stored.
Generate(t) ==
  /\ pc[t] = "generate"
  /\ \/ Continue(t, "snapshot", <<>>, "pending")
     \/ Reply(t, "refused") /\ UNCHANGED <<commits, sealed>>

\* Mistake: once there are snapshots, no more are taken.
MissingAtFirst(k, r) ==
  IF Container \in Written THEN {} ELSE {Snapshot(k, l) : l \in r.locators} \cup {Container}

\* The snapshots that are not there yet, with their container if it is not either.
Missing(k, r) ==
  LET have == {a[2] : a \in {b \in Written : b[1] = "snapshot"}}
      new == {Snapshot(k, l) : l \in r.locators \ have}
  IN IF new = {} THEN {} ELSE new \cup ({Container} \ Written)

\* _capture_externals
TakeSnapshots(t) ==
  LET k == call[t].command
      new == Missing(k, Request(t))
  IN /\ pc[t] = "snapshot"
     /\ Continue(t, "append", [a \in new \cup {Own(k)} |-> IF a = Own(k) THEN asked[k].expected ELSE 0],
                 "pending")
-----------------------------------------------------------------------------
\* A decision reads the gap before it looks its command up.
ReadGap(t) ==
  /\ pc[t] = "read" /\ Request(t).op \in DecisionOps
  /\ Continue(t, "decide", <<>>, GapStatus(Request(t).about[1]))

\* Mistake: a decision is taken back by another.
DecidableAgain(t) == TRUE

Decidable(t) == call[t].status = "pending"

Decide(t) ==
  /\ pc[t] = "decide"
  /\ IF CommitsOf(call[t].command) # {} THEN Reply(t, "answered") /\ UNCHANGED <<commits, sealed>>
     ELSE IF Decidable(t) THEN Continue(t, "append", OwnTarget(call[t].command), "pending")
     ELSE Reply(t, "refused") /\ UNCHANGED <<commits, sealed>>

\* What a claim, a release or a forge provenance needs when its handler reads.
Admissible(r) ==
  CASE r.op = "claim" -> r.about # <<>> => IsMade("propose", r.about[1], {r.at}) /\ Established(r.about[1])
    [] r.op = "release" -> r.about[1] \in sealed
    [] r.op = "forge" -> r.about[3] \in sealed /\ Forgeable(r)

Read(t) ==
  LET k == call[t].command
      made == IF Request(t).at = "new" THEN {<<"workspace", k>>} ELSE {}
  IN /\ pc[t] = "read" /\ Request(t).op \notin DecisionOps
     /\ \/ /\ Admissible(Request(t))
           /\ Continue(t, "append", [a \in {Own(k)} \cup made |-> 0], "pending")
        \/ ~Admissible(Request(t)) /\ Reply(t, "refused") /\ UNCHANGED <<commits, sealed>>

\* _append, _append_many and the store: a command that is there already is replayed
\* if its targets are the same.
Write(t) ==
  LET k == call[t].command
      prior == CommitsOf(k)
      expected == call[t].expected
  IN /\ pc[t] = "append"
     /\ IF prior # {}
        THEN /\ \E i \in prior :
                  Reply(t, IF commits[i].expected = expected THEN "answered" ELSE "conflict")
             /\ UNCHANGED commits
        ELSE IF \E a \in DOMAIN expected : Length(a) # expected[a]
        THEN Reply(t, "stale") /\ UNCHANGED commits
        ELSE /\ commits' = Append(commits, [command |-> k, request |-> Request(t), expected |-> expected])
             /\ Reply(t, "answered")
     /\ UNCHANGED sealed
-----------------------------------------------------------------------------
\* PostgresSealedParkStore.capture: select, then insert under a unique key.
SelectCapture(t) ==
  /\ pc[t] = "select"
  /\ \/ call[t].command \notin sealed /\ Continue(t, "insert", <<>>, "pending")
     \/ call[t].command \in sealed /\ Reply(t, "answered") /\ UNCHANGED <<commits, sealed>>

InsertCapture(t) ==
  /\ pc[t] = "insert"
  /\ Reply(t, IF call[t].command \in sealed THEN "failed" ELSE "answered")
  /\ sealed' = sealed \cup {call[t].command}
  /\ UNCHANGED commits

\* The process or its connection is lost: nothing is answered.
Lose(t) ==
  /\ pc[t] # "idle"
  /\ Goto(t, "idle") /\ call' = [call EXCEPT ![t] = NoCall]
  /\ UNCHANGED <<commits, sealed, asked, denied>>

Step(t) ==
  \/ \E k \in Commands : Deliver(t, k)
  \/ Lookup(t) \/ Dedupe(t) \/ Replay(t) \/ Generate(t) \/ TakeSnapshots(t)
  \/ ReadGap(t) \/ Decide(t) \/ Read(t) \/ Write(t)
  \/ SelectCapture(t) \/ InsertCapture(t) \/ Lose(t)

Next ==
  \/ \E k \in Commands : \E r \in Menu[k] : Ask(k, r)
  \/ \E t \in Threads : Step(t)

Spec == Init /\ [][Next]_vars
-----------------------------------------------------------------------------
Addresses ==
  {Container} \cup ({"snapshot"} \X Locators)
    \cup ((Ops \cup {"gap", "challenge", "material", "workspace"}) \X Commands)
Fences == UNION {[D -> Nat] : D \in SUBSET Addresses}
Steps ==
  {"idle", "lookup", "dedupe", "replay", "generate", "snapshot", "read", "decide", "append", "select", "insert"}

\* Everything keeps to its type, and a thread that is not idle executes what was asked.
TypeOK ==
  /\ commits \in Seq([command : Commands, request : Requests, expected : Fences])
  /\ sealed \subseteq Commands
  /\ asked \in [Commands -> {Unasked} \cup [request : Requests, expected : Nat]]
  /\ \A k \in Commands : asked[k] # Unasked => asked[k].request \in Menu[k]
  /\ pc \in [Threads -> Steps]
  /\ call \in [Threads -> [command : Commands \cup {"none"}, known : BOOLEAN,
                           expected : Fences \cup {<<>>}, status : {"pending"} \cup DecisionOps]]
  /\ \A t \in Threads :
       /\ pc[t] # "idle" => call[t].command \in Commands /\ asked[call[t].command] # Unasked
       /\ pc[t] = "append" => call[t].expected \in Fences

\* _capture_externals: a paper is snapshot once for the universe, whichever commands
\* cite it and in whatever order they read and append; so is the container made.
CapturedOnce ==
  \A i, j \in DOMAIN commits : \A a \in Targets(i), b \in Targets(j) :
    /\ a[1] = "snapshot" /\ b[1] = "snapshot" /\ a[2] = b[2] => i = j
    /\ a = Container /\ b = Container => i = j

\* What cites a paper commits together with its snapshot or after it, and every
\* snapshot has its container by then.
CitedIsCaptured ==
  \A i \in DOMAIN commits :
    LET before == UNION {Targets(j) : j \in 1..i}
        captured == {a[2] : a \in {b \in before : b[1] = "snapshot"}}
    IN /\ commits[i].request.op \in CapturingOps => commits[i].request.locators \subseteq captured
       /\ captured # {} => Container \in before

\* A gap is decided once: rival decisions on what was pending when they read it, and
\* decisions on a screen that is up to date, leave one.
GapDecidedOnce == \A k \in Commands : Cardinality(Decisions(k)) <= 1

\* What a claim says of its origin stays true.  One drawn from a gap follows the
\* decision that established the gap, and no decision ever takes that away; a
\* provenance ties a claim to a sealed capture by a release into the claim's
\* workspace that came before it.
ClaimsAreGrounded ==
  \A i \in DOMAIN commits :
    LET r == commits[i].request IN
    /\ r.op = "claim" /\ r.about # <<>> =>
         (\E j \in Decisions(r.about[1]) : j < i) /\ Established(r.about[1])
    /\ r.op = "forge" =>
         /\ r.about[3] \in sealed
         /\ \E j, k \in 1..i :
              /\ commits[j].command = r.about[1] /\ commits[j].request.at = r.at
              /\ commits[k].command = r.about[2] /\ commits[k].request.about = <<r.about[3]>>
              /\ commits[k].request.at = r.at

\* add_material: a second material with the locator of one that was there when the
\* call was delivered is never written; only calls that overlap can make two.
DuplicatesOverlap ==
  [][\A i \in DOMAIN commits' \ DOMAIN commits :
       commits'[i].request.op = "add" =>
         \A t \in Threads : pc[t] = "append" /\ pc'[t] = "idle" => ~call[t].known]_vars

\* A command that is sent again after it was committed is answered with its commit,
\* whatever has been captured, decided or added since.
RetryReplays == \A d \in denied : ~d.known

\* _replay_commit: a capturing command that is sent again is replayed; it conflicts
\* only if its payload differs.
CapturesReplay == \A d \in denied : d.is # "conflict"
=============================================================================
