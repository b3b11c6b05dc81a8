----------------------------- MODULE CaptureProofs -----------------------------
(***************************************************************************)
(* What holds of captures, gaps and claims for any menu of commands, any   *)
(* number of threads and any number of deliveries of the same command.     *)
(* The inductive invariant says of every thread what it still knows of the *)
(* log it read: which fences it carries, that what it checked is so for    *)
(* good, and that a command it found absent was absent when it came.       *)
(***************************************************************************)
EXTENDS Capture, FiniteSetTheorems, TLAPS

ReadOps == {"claim", "release", "forge"}

\* The fences a command carries: its own stream, and snapshots or a workspace that
\* must not be there yet.
Shape(k, e) ==
  LET r == asked[k].request IN
  /\ Own(k) \in DOMAIN e
  /\ e = [a \in DOMAIN e |-> IF a = Own(k) THEN asked[k].expected ELSE 0]
  /\ IF r.op \in CapturingOps
     THEN DOMAIN e \ {Own(k)} \subseteq {Container} \cup ({"snapshot"} \X Locators)
     ELSE DOMAIN e = {Own(k)} \cup (IF r.at = "new" THEN {<<"workspace", k>>} ELSE {})

IsShared(a) == a[1] = "snapshot" \/ a = Container
CapturedBy(targets) == {a[2] : a \in {b \in targets : b[1] = "snapshot"}}

\* The sequence on the screen is one the gap has had.
AskedWell ==
  \A k \in Commands : asked[k] # Unasked =>
    IF asked[k].request.op \in DecisionOps
    THEN asked[k].expected <= Length(<<"gap", asked[k].request.about[1]>>)
    ELSE asked[k].expected = 0

LogWell ==
  \A i \in DOMAIN commits :
    LET k == commits[i].command IN
    /\ asked[k] # Unasked /\ commits[i].request = asked[k].request
    /\ commits[i].request.op # "capture"
    /\ Shape(k, commits[i].expected)

SealedWell == \A k \in sealed : asked[k] # Unasked /\ asked[k].request.op = "capture"

\* What was checked before a commit stays so.
LogChecked ==
  \A i \in DOMAIN commits :
    LET r == commits[i].request IN
    /\ r.op \in CapturingOps => Citable(r)
    /\ r.op \in ReadOps => Admissible(r)

SharedOnce ==
  \A i, j \in DOMAIN commits : \A a \in Targets(i) \cap Targets(j) : IsShared(a) => i = j

OneDecision ==
  \A i, j \in DOMAIN commits :
    /\ commits[i].request.op \in DecisionOps /\ commits[j].request.op \in DecisionOps
    /\ commits[i].request.about[1] = commits[j].request.about[1]
    => i = j

\* What a call of command k knows when it goes on with a step.

\* The steps are those of what was asked.
InPlace(k, step) ==
  LET op == asked[k].request.op IN
  /\ step \in {"select", "insert"} => op = "capture"
  /\ step \in {"lookup", "dedupe"} => op = "add"
  /\ step = "decide" => op \in DecisionOps
  /\ step \in {"replay", "generate", "snapshot"} => op \in CapturingOps
  /\ step = "read" => op \in DecisionOps \cup ReadOps
  /\ step = "append" => op # "capture"

Checked(k, step) ==
  LET r == asked[k].request IN
  /\ step \in {"generate", "snapshot", "append"} /\ r.op \in CapturingOps => Citable(r)
  /\ step = "append" /\ r.op \in ReadOps => Admissible(r)

\* Past its look-up a command was not there when it was delivered.
Fresh(k, step, known) ==
  LET r == asked[k].request IN
  /\ known => IsKnown(k)
  /\ step = "dedupe" /\ known => Duplicates(r) # {}
  /\ step \in {"generate", "snapshot", "insert"} \/ (step = "append" /\ r.op \notin ReadOps) => ~known

\* A decision on a gap that is decided meanwhile has a sequence that is too low.
Pending(k, step, status) ==
  LET r == asked[k].request IN
  /\ r.op \in DecisionOps
  /\ step = "append" \/ (step = "decide" /\ status = "pending")
  => \/ Decisions(r.about[1]) = {}
     \/ asked[k].expected < Length(<<"gap", r.about[1]>>)

\* What it cites is there, or in the fences it carries.
Brings(k, step, expected) ==
  step = "append" /\ asked[k].request.op \in CapturingOps =>
    /\ asked[k].request.locators \subseteq CapturedBy(Written) \cup CapturedBy(DOMAIN expected)
    /\ CapturedBy(DOMAIN expected) # {} => Container \in DOMAIN expected \cup Written

Ready(k, step, known, expected, status) ==
  /\ InPlace(k, step) /\ Checked(k, step) /\ Fresh(k, step, known)
  /\ Pending(k, step, status) /\ Brings(k, step, expected)
  /\ step = "append" => Shape(k, expected)

Working(t) ==
  pc[t] # "idle" => Ready(call[t].command, pc[t], call[t].known, call[t].expected, call[t].status)

LogInv == AskedWell /\ LogWell /\ SealedWell /\ LogChecked /\ SharedOnce /\ OneDecision
          /\ CitedIsCaptured /\ ClaimsAreGrounded
Inv == TypeOK /\ LogInv /\ RetryReplays /\ \A t \in Threads : Working(t)
-----------------------------------------------------------------------------
\* What is asked is on the menu, and names the streams it should.
LEMMA AskedFacts ==
  ASSUME TypeOK, NEW k \in Commands, asked[k] # Unasked
  PROVE  /\ asked[k].request \in Requests /\ asked[k].expected \in Nat
         /\ asked[k].request.op \in DecisionOps =>
              asked[k].request.about[1] \in Commands /\ Own(k) = <<"gap", asked[k].request.about[1]>>
         /\ asked[k].request.op \notin DecisionOps => Own(k) = <<Made(asked[k].request.op), k>>
         /\ asked[k].request.at = "new" => asked[k].request.op = "release"
<1> DEFINE r == asked[k].request
<1>1. r \in Menu[k] /\ asked[k].expected \in Nat
  <2>1. asked[k] \in [request : Requests, expected : Nat]
    BY DEF TypeOK
  <2> QED BY <2>1 DEF TypeOK
<1>2. r \in Requests /\ (r.op \in DecisionOps => Len(r.about) = 1) /\ (r.at = "new" => r.op = "release")
  BY <1>1, MenuAssumption
<1>3. r.op \in DecisionOps => r.about[1] \in Commands
  <2>1. r.about \in Seq(Commands)
    BY <1>2 DEF Requests
  <2> QED BY <1>2, <2>1
<1> QED BY <1>1, <1>2, <1>3 DEF Own

\* A command's own stream is not one that commands share.
LEMMA OwnIsOwn ==
  ASSUME TypeOK, NEW k \in Commands, asked[k] # Unasked
  PROVE  Own(k) \in Addresses /\ ~IsShared(Own(k)) /\ Own(k) # <<"workspace", k>> /\ Own(k)[1] # "snapshot"
<1>1. asked[k].request.op \in Ops
  BY AskedFacts DEF Requests
<1>2. Made(asked[k].request.op) \in Ops \cup {"gap", "challenge", "material"}
  BY <1>1 DEF Made
<1>3. PICK m \in Ops \cup {"gap", "challenge", "material"}, c \in Commands : Own(k) = <<m, c>>
  BY <1>2, AskedFacts
<1>4. m # "snapshot" /\ m # "container" /\ m # "workspace"
  BY DEF Ops, DecisionOps, CapturingOps
<1>5. Own(k)[1] = m
  BY <1>3
<1>6. Own(k) # Container
  BY <1>4, <1>5 DEF Container
<1>7. Own(k) \in Addresses
  BY <1>3 DEF Addresses
<1> QED BY <1>3, <1>4, <1>5, <1>6, <1>7 DEF IsShared

LEMMA AppendFacts ==
  ASSUME TypeOK, NEW c \in [command : Commands, request : Requests, expected : Fences],
         commits' = Append(commits, c)
  PROVE  /\ DOMAIN commits' = DOMAIN commits \cup {Len(commits) + 1}
         /\ Len(commits) + 1 \notin DOMAIN commits
         /\ \A i \in DOMAIN commits : commits'[i] = commits[i] /\ i \in Nat /\ i < Len(commits) + 1
         /\ commits'[Len(commits) + 1] = c
         /\ \A i \in DOMAIN commits' :
              Targets(i)' = IF i \in DOMAIN commits THEN Targets(i) ELSE DOMAIN c.expected
         /\ Written' = Written \cup DOMAIN c.expected
<1> DEFINE S == [command : Commands, request : Requests, expected : Fences]
<1>1. commits \in Seq(S)
  BY DEF TypeOK
<1> HIDE DEF S
<1>2. /\ DOMAIN commits' = DOMAIN commits \cup {Len(commits) + 1}
      /\ Len(commits) + 1 \notin DOMAIN commits
      /\ \A i \in DOMAIN commits : commits'[i] = commits[i] /\ i \in Nat /\ i < Len(commits) + 1
      /\ commits'[Len(commits) + 1] = c
  BY <1>1
<1>3. \A i \in DOMAIN commits' :
        Targets(i)' = IF i \in DOMAIN commits THEN Targets(i) ELSE DOMAIN c.expected
  BY <1>2 DEF Targets
<1>4. Written' = Written \cup DOMAIN c.expected
  BY <1>2, <1>3 DEF Written
<1> QED BY <1>2, <1>3, <1>4

\* The length of a stream counts the commits that wrote to it.
LEMMA LengthFacts ==
  ASSUME TypeOK, NEW a
  PROVE  Length(a) \in Nat /\ (Length(a) = 0 <=> a \notin Written)
<1> DEFINE W == {i \in DOMAIN commits : a \in Targets(i)}
<1>1. DOMAIN commits = 1..Len(commits) /\ Len(commits) \in Nat
  BY DEF TypeOK
<1>2. IsFiniteSet(1..Len(commits))
  BY <1>1, FS_Interval
<1>3. IsFiniteSet(W)
  BY <1>1, <1>2, FS_Subset
<1>4. Cardinality(W) \in Nat /\ (Cardinality(W) = 0 <=> W = {})
  BY <1>3, FS_CardinalityType, FS_EmptySet
<1>5. W = {} <=> a \notin Written
  BY DEF Written
<1> QED BY <1>4, <1>5 DEF Length

LEMMA LengthGrows ==
  ASSUME TypeOK, NEW c \in [command : Commands, request : Requests, expected : Fences],
         commits' = Append(commits, c), NEW a
  PROVE  Length(a)' = IF a \in DOMAIN c.expected THEN Length(a) + 1 ELSE Length(a)
<1> DEFINE W == {i \in DOMAIN commits : a \in Targets(i)}
           n == Len(commits) + 1
<1>1. DOMAIN commits = 1..Len(commits) /\ Len(commits) \in Nat
  BY DEF TypeOK
<1>2. IsFiniteSet(W)
  <2>1. IsFiniteSet(1..Len(commits))
    BY <1>1, FS_Interval
  <2> QED BY <1>1, <2>1, FS_Subset
<1>3. W' = IF a \in DOMAIN c.expected THEN W \cup {n} ELSE W
  <2>1. W' = {i \in DOMAIN commits' : a \in Targets(i)'}
    OBVIOUS
  <2> QED BY <2>1, AppendFacts
<1>4. n \notin W
  BY AppendFacts
<1>5. Cardinality(W \cup {n}) = Cardinality(W) + 1
  BY <1>2, <1>4, FS_AddElement
<1> QED BY <1>3, <1>5 DEF Length
-----------------------------------------------------------------------------
\* A step that leaves the log and the requests alone keeps what is said of them, and
\* what the other threads know.

LEMMA SoundForGood ==
  ASSUME UNCHANGED commits, sealed \subseteq sealed', NEW r
  PROVE  (Citable(r) => Citable(r)') /\ (r.op \in ReadOps /\ Admissible(r) => Admissible(r)')
<1>1. \A op, k, place : IsMade(op, k, place)' = IsMade(op, k, place)
  BY DEF IsMade, CommitsOf
<1>2. \A release, capture, w : IsReleased(release, capture, w)' = IsReleased(release, capture, w)
  BY DEF IsReleased, CommitsOf
<1>3. \A g : Established(g)' = Established(g)
  BY DEF Established, GapStatus, Decisions
<1> QED BY <1>1, <1>2, <1>3 DEF Citable, Admissible, Forgeable, ReadOps

LEMMA LogStays ==
  ASSUME Inv, UNCHANGED <<commits, asked>>, sealed \subseteq sealed', SealedWell' PROVE LogInv'
<1> USE DEF Inv, LogInv
<1>1. AskedWell'
  BY DEF AskedWell, Length, Targets
<1>2. LogWell'
  <2>1. \A k, e : Shape(k, e)' = Shape(k, e)
    BY DEF Shape, Own
  <2>2. LogWell
    OBVIOUS
  <2> QED BY ONLY <2>1, <2>2, UNCHANGED <<commits, asked>> DEF LogWell
<1>3. LogChecked'
  BY SoundForGood DEF LogChecked
<1>4. SharedOnce' /\ OneDecision'
  BY DEF SharedOnce, OneDecision, Targets
<1>5. CitedIsCaptured'
  BY DEF CitedIsCaptured, Targets
<1>6. ClaimsAreGrounded'
  <2>1. \A g : Decisions(g)' = Decisions(g) /\ Established(g)' = Established(g)
    BY DEF Established, GapStatus, Decisions
  <2> QED BY <2>1 DEF ClaimsAreGrounded
<1> QED BY <1>1, <1>2, <1>3, <1>4, <1>5, <1>6

LEMMA ReadyStays ==
  ASSUME UNCHANGED <<commits, asked>>, sealed \subseteq sealed',
         NEW k, NEW step, NEW known, NEW expected, NEW status,
         Ready(k, step, known, expected, status)
  PROVE  Ready(k, step, known, expected, status)'
<1> USE DEF Ready
<1>1. InPlace(k, step)'
  BY DEF InPlace
<1>2. step = "append" => Shape(k, expected)'
  BY DEF Shape, Own
<1>3. Checked(k, step)'
  BY SoundForGood DEF Checked
<1>4. Fresh(k, step, known)'
  BY DEF Fresh, IsKnown, CommitsOf, Duplicates
<1>5. Pending(k, step, status)'
  BY DEF Pending, Decisions, Length, Targets
<1>6. Brings(k, step, expected)'
  <2>1. Written' = Written
    BY DEF Written, Targets
  <2> QED BY <2>1 DEF Brings, CapturedBy
<1> QED BY <1>1, <1>2, <1>3, <1>4, <1>5, <1>6

LEMMA OthersStay ==
  ASSUME Inv, UNCHANGED <<commits, asked>>, sealed \subseteq sealed',
         NEW u \in Threads, pc'[u] = pc[u], call'[u] = call[u]
  PROVE  Working(u)'
<1> SUFFICES ASSUME pc'[u] # "idle"
             PROVE  Ready(call[u].command, pc[u], call[u].known, call[u].expected, call[u].status)'
  BY DEF Working
<1>1. \A k, step, known, expected, status :
        Ready(k, step, known, expected, status) => Ready(k, step, known, expected, status)'
  BY ReadyStays
<1> QED BY <1>1 DEF Inv, Working

LEMMA IdleWorks == ASSUME NEW t, pc'[t] = "idle" PROVE Working(t)'
  BY DEF Working

\* A call whose command was there already is denied nothing by such an answer.
LEMMA ToldNothing ==
  ASSUME RetryReplays, NEW t, NEW is, Tell(t, is), call[t].known => is \in {"answered", "deduplicated"}
  PROVE  RetryReplays'
  BY DEF Tell, Denies, RetryReplays

\* An answer that writes nothing to the log.
LEMMA Replied ==
  ASSUME Inv, NEW t \in Threads, NEW is, Reply(t, is), UNCHANGED commits,
         sealed \subseteq sealed', sealed' \subseteq Commands, SealedWell',
         call[t].known => is \in {"answered", "deduplicated"}
  PROVE  Inv'
<1> USE DEF Inv
<1>1. UNCHANGED asked /\ pc' = [pc EXCEPT ![t] = "idle"] /\ call' = [call EXCEPT ![t] = NoCall]
  BY DEF Reply, Goto
<1>2. pc'[t] = "idle" /\ call'[t] = NoCall /\ \A u \in Threads \ {t} : pc'[u] = pc[u] /\ call'[u] = call[u]
  BY <1>1 DEF TypeOK
<1>3. TypeOK'
  BY <1>1, <1>2 DEF TypeOK, NoCall, Steps
<1>4. \A u \in Threads \ {t} : Working(u)'
  BY <1>1, <1>2, OthersStay
<1>5. Working(t)'
  BY <1>2, IdleWorks
<1>6. RetryReplays'
  BY ToldNothing DEF Reply
<1> QED BY <1>1, <1>3, <1>4, <1>5, <1>6, LogStays

\* A thread that goes on, and is ready to.
LEMMA Continued ==
  ASSUME Inv, NEW t \in Threads, NEW step \in Steps, NEW expected \in Fences \cup {<<>>},
         NEW status \in {"pending"} \cup DecisionOps, Continue(t, step, expected, status),
         pc[t] # "idle", step = "append" => expected \in Fences,
         Ready(call[t].command, step, call[t].known, expected, status)
  PROVE  Inv'
<1> USE DEF Inv
<1>1. /\ UNCHANGED <<commits, sealed, asked, denied>> /\ pc' = [pc EXCEPT ![t] = step]
      /\ call' = [call EXCEPT ![t].expected = expected, ![t].status = status]
  BY DEF Continue, Goto
<1>2. /\ pc'[t] = step /\ call'[t].command = call[t].command /\ call'[t].known = call[t].known
      /\ call'[t].expected = expected /\ call'[t].status = status
      /\ \A u \in Threads \ {t} : pc'[u] = pc[u] /\ call'[u] = call[u]
  BY <1>1 DEF TypeOK
<1>3. TypeOK'
  BY <1>1, <1>2 DEF TypeOK
<1>4. \A u \in Threads \ {t} : Working(u)'
  BY <1>1, <1>2, OthersStay
<1>5. Working(t)'
  <2>1. \A k, known : Ready(k, step, known, expected, status) => Ready(k, step, known, expected, status)'
    BY <1>1, ReadyStays
  <2> QED BY <1>2, <2>1 DEF Working
<1>6. SealedWell' /\ RetryReplays'
  BY <1>1 DEF SealedWell, LogInv, RetryReplays
<1> QED BY <1>1, <1>3, <1>4, <1>5, <1>6, LogStays
-----------------------------------------------------------------------------
LEMMA DeliverStep ==
  ASSUME Inv, NEW t \in Threads, NEW k \in Commands, Deliver(t, k) PROVE Inv'
<1> USE DEF Inv
<1>1. /\ pc[t] = "idle" /\ asked[k] # Unasked /\ UNCHANGED <<commits, sealed, asked, denied>>
      /\ pc' = [pc EXCEPT ![t] = FirstStep(asked[k].request.op)]
      /\ call' = [call EXCEPT ![t] = [NoCall EXCEPT !.command = k, !.known = IsKnown(k)]]
  BY DEF Deliver, Goto
<1>2. asked[k].request.op \in Ops
  BY <1>1, AskedFacts DEF Requests
<1>3. /\ pc'[t] = FirstStep(asked[k].request.op)
      /\ call'[t].command = k /\ call'[t].known = IsKnown(k) /\ call'[t].expected = <<>>
      /\ call'[t].status = "pending"
      /\ call'[t] \in [command : Commands \cup {"none"}, known : BOOLEAN,
                       expected : Fences \cup {<<>>}, status : {"pending"} \cup DecisionOps]
      /\ \A u \in Threads \ {t} : pc'[u] = pc[u] /\ call'[u] = call[u]
  BY <1>1 DEF TypeOK, NoCall, IsKnown
<1>4. /\ FirstStep(asked[k].request.op) \in {"select", "replay", "lookup", "read"}
      /\ FirstStep(asked[k].request.op) = "select" => asked[k].request.op = "capture"
      /\ FirstStep(asked[k].request.op) = "replay" => asked[k].request.op \in CapturingOps
      /\ FirstStep(asked[k].request.op) = "lookup" => asked[k].request.op = "add"
      /\ FirstStep(asked[k].request.op) = "read" => asked[k].request.op \in DecisionOps \cup ReadOps
  BY <1>2 DEF FirstStep, Ops, ReadOps
<1>5. TypeOK'
  BY <1>1, <1>3, <1>4 DEF TypeOK, Steps
<1>6. \A u \in Threads \ {t} : Working(u)'
  BY <1>1, <1>3, OthersStay
<1>7. Working(t)'
  <2> DEFINE step == FirstStep(asked[k].request.op)
             known == IsKnown(k)
  <2>1. Ready(k, step, known, <<>>, "pending")
    BY <1>4 DEF Ready, InPlace, Checked, Fresh, Pending, Brings
  <2>2. pc'[t] = step /\ call'[t].known = known
    BY <1>3
  <2>3. \A s, b : Ready(k, s, b, <<>>, "pending") => Ready(k, s, b, <<>>, "pending")'
    BY <1>1, ReadyStays
  <2> HIDE DEF step, known
  <2> QED BY <1>3, <2>1, <2>2, <2>3 DEF Working
<1>8. SealedWell' /\ RetryReplays'
  BY <1>1 DEF SealedWell, LogInv, RetryReplays
<1> QED BY <1>1, <1>5, <1>6, <1>7, <1>8, LogStays

LEMMA LookupStep == ASSUME Inv, NEW t \in Threads, Lookup(t) PROVE Inv'
<1> USE DEF Inv
<1>1. pc[t] = "lookup" /\ Working(t) /\ Request(t).op = "add"
  BY DEF Lookup, Working, Ready, InPlace, Request
<1>s. SealedWell /\ sealed \subseteq Commands
  BY DEF LogInv, TypeOK
<1>2. CASE CommitsOf(call[t].command) # {} /\ Reply(t, "answered") /\ UNCHANGED <<commits, sealed>>
  <2>1. SealedWell'
    BY <1>s, <1>2 DEF Reply, SealedWell
  <2> QED BY <1>2, <1>s, <2>1, Replied
<1>3. CASE CommitsOf(call[t].command) = {} /\ Continue(t, "dedupe", <<>>, "pending")
  <2>1. call[t].command \notin sealed
    BY <1>s, <1>1 DEF SealedWell, Request
  <2>2. call[t].known => Duplicates(Request(t)) # {}
    BY <1>1, <1>3, <2>1 DEF Working, Ready, Fresh, IsKnown, Request
  <2>3. Ready(call[t].command, "dedupe", call[t].known, <<>>, "pending")
    BY <1>1, <2>2 DEF Working, Ready, InPlace, Checked, Fresh, Pending, Brings, Request
  <2> QED BY <1>1, <1>3, <2>3, Continued DEF Steps
<1> QED BY <1>2, <1>3 DEF Lookup

LEMMA OwnTargetFacts ==
  ASSUME TypeOK, NEW k \in Commands, asked[k] # Unasked,
         asked[k].request.op \notin CapturingOps, asked[k].request.at # "new"
  PROVE  OwnTarget(k) \in Fences /\ Shape(k, OwnTarget(k))
<1>1. Own(k) \in Addresses /\ asked[k].expected \in Nat
  BY OwnIsOwn, AskedFacts
<1>2. OwnTarget(k) \in [{Own(k)} -> Nat]
  BY <1>1 DEF OwnTarget
<1>3. OwnTarget(k) \in Fences
  BY <1>1, <1>2 DEF Fences
<1>4. DOMAIN OwnTarget(k) = {Own(k)} /\ OwnTarget(k)[Own(k)] = asked[k].expected
  BY DEF OwnTarget
<1> QED BY <1>3, <1>4 DEF Shape, OwnTarget

LEMMA DedupeStep == ASSUME Inv, NEW t \in Threads, Dedupe(t) PROVE Inv'
<1> USE DEF Inv
<1>1. pc[t] = "dedupe" /\ Ready(call[t].command, "dedupe", call[t].known, call[t].expected, call[t].status)
  BY DEF Dedupe, Working
<1>2. call[t].command \in Commands /\ asked[call[t].command] # Unasked /\ asked[call[t].command].request.op = "add"
  BY <1>1 DEF TypeOK, Ready, InPlace
<1>3. CASE Duplicates(Request(t)) # {} /\ Reply(t, "deduplicated") /\ UNCHANGED <<commits, sealed>>
  <2>1. SealedWell' /\ sealed \subseteq Commands
    BY <1>3 DEF Reply, SealedWell, LogInv, TypeOK
  <2> QED BY <1>3, <2>1, Replied
<1>4. CASE Duplicates(Request(t)) = {} /\ Continue(t, "append", OwnTarget(call[t].command), "pending")
  <2>1. OwnTarget(call[t].command) \in Fences /\ Shape(call[t].command, OwnTarget(call[t].command))
    <3>1. "add" \notin CapturingOps /\ "add" # "release"
      BY DEF CapturingOps
    <3> QED BY <1>2, <3>1, AskedFacts, OwnTargetFacts
  <2>2. ~call[t].known
    BY <1>1, <1>4 DEF Ready, Fresh, Request
  <2>3. Ready(call[t].command, "append", call[t].known, OwnTarget(call[t].command), "pending")
    BY <1>1, <1>2, <2>1, <2>2 DEF Ready, InPlace, Checked, Fresh, Pending, Brings, CapturingOps, ReadOps, DecisionOps
  <2> QED BY <1>1, <1>4, <2>1, <2>3, Continued DEF Steps
<1> QED BY <1>1, <1>3, <1>4 DEF Dedupe

\* What is known of a capturing command is that it was committed.
LEMMA KnownCommitted ==
  ASSUME TypeOK, SealedWell, NEW k \in Commands, IsKnown(k),
         asked[k].request.op \notin {"capture", "add"}
  PROVE  CommitsOf(k) # {}
  BY DEF SealedWell, IsKnown

\* The targets of a commit, put together anew, are its fences.
LEMMA ReplayShape ==
  ASSUME LogWell, NEW k, NEW i \in CommitsOf(k)
  PROVE  ReplayTargets(k, i) = commits[i].expected
  BY DEF LogWell, CommitsOf, Shape, ReplayTargets, Targets

LEMMA ReplayStep == ASSUME Inv, NEW t \in Threads, Replay(t) PROVE Inv'
<1> USE DEF Inv
<1> DEFINE k == call[t].command
           r == asked[k].request
<1>1. pc[t] = "replay" /\ Ready(k, "replay", call[t].known, call[t].expected, call[t].status)
  BY DEF Replay, Working
<1>2. k \in Commands /\ asked[k] # Unasked /\ r.op \in CapturingOps /\ Request(t) = r
  BY <1>1 DEF TypeOK, Ready, InPlace, Request
<1>3. call[t].known => CommitsOf(k) # {}
  <2>1. r.op \notin {"capture", "add"}
    BY <1>2 DEF CapturingOps
  <2> QED BY <1>1, <1>2, <2>1, KnownCommitted DEF Ready, Fresh, LogInv
<1>4. CommitsOf(k) # {} => Citable(r)
  <2> SUFFICES ASSUME NEW i \in CommitsOf(k) PROVE Citable(r)
    OBVIOUS
  <2>1. i \in DOMAIN commits /\ commits[i].command = k
    BY DEF CommitsOf
  <2> QED BY <1>2, <2>1 DEF LogInv, LogWell, LogChecked
<1>5. ASSUME NEW is, Reply(t, is), UNCHANGED <<commits, sealed>>,
             call[t].known => is \in {"answered", "deduplicated"}
      PROVE  Inv'
  <2>1. SealedWell' /\ sealed \subseteq Commands
    BY <1>5 DEF Reply, SealedWell, LogInv, TypeOK
  <2> QED BY <1>5, <2>1, Replied
<1>6. CASE ~Citable(r)
  BY <1>2, <1>3, <1>4, <1>5, <1>6 DEF Replay
<1>7. CASE Citable(r) /\ CommitsOf(k) = {}
  <2>1. PICK step \in {"generate", "snapshot"} : Continue(t, step, <<>>, "pending")
    BY <1>2, <1>7 DEF Replay
  <2>2. Ready(k, step, call[t].known, <<>>, "pending")
    BY <1>1, <1>2, <1>3, <1>7, <2>1 DEF Ready, InPlace, Checked, Fresh, Pending, Brings
  <2> QED BY <1>1, <2>1, <2>2, Continued DEF Steps
<1>8. CASE Citable(r) /\ CommitsOf(k) # {}
  <2>1. PICK i \in CommitsOf(k) : Reply(t, IF ReplayTargets(k, i) = commits[i].expected THEN "answered" ELSE "conflict")
    BY <1>2, <1>8 DEF Replay
  <2>2. UNCHANGED <<commits, sealed>>
    BY <1>2, <1>8 DEF Replay
  <2>3. Reply(t, "answered")
    BY <2>1, ReplayShape DEF LogInv
  <2> QED BY <1>5, <2>2, <2>3
<1> QED BY <1>6, <1>7, <1>8

LEMMA GenerateStep == ASSUME Inv, NEW t \in Threads, Generate(t) PROVE Inv'
<1> USE DEF Inv
<1>1. pc[t] = "generate" /\ Ready(call[t].command, "generate", call[t].known, call[t].expected, call[t].status)
  BY DEF Generate, Working
<1>2. ~call[t].known
  BY <1>1 DEF Ready, Fresh
<1>3. CASE Continue(t, "snapshot", <<>>, "pending")
  <2>1. Ready(call[t].command, "snapshot", call[t].known, <<>>, "pending")
    BY <1>1 DEF Ready, InPlace, Checked, Fresh, Pending, Brings
  <2> QED BY <1>1, <1>3, <2>1, Continued DEF Steps
<1>4. CASE Reply(t, "refused") /\ UNCHANGED <<commits, sealed>>
  <2>1. SealedWell' /\ sealed \subseteq Commands
    BY <1>4 DEF Reply, SealedWell, LogInv, TypeOK
  <2> QED BY <1>2, <1>4, <2>1, Replied
<1> QED BY <1>3, <1>4 DEF Generate

LEMMA TakeSnapshotsStep == ASSUME Inv, NEW t \in Threads, TakeSnapshots(t) PROVE Inv'
<1> USE DEF Inv
<1> DEFINE k == call[t].command
           r == asked[k].request
           new == Missing(k, r)
           fences == [a \in new \cup {Own(k)} |-> IF a = Own(k) THEN asked[k].expected ELSE 0]
<1>1. pc[t] = "snapshot" /\ Ready(k, "snapshot", call[t].known, call[t].expected, call[t].status)
  BY DEF TakeSnapshots, Working
<1>2. k \in Commands /\ asked[k] # Unasked /\ r.op \in CapturingOps /\ Request(t) = r
  BY <1>1 DEF TypeOK, Ready, InPlace, Request
<1>3. Continue(t, "append", fences, "pending")
  BY <1>2 DEF TakeSnapshots
<1>4. /\ Own(k) \in Addresses /\ ~IsShared(Own(k)) /\ Own(k)[1] # "snapshot"
      /\ asked[k].expected \in Nat /\ r.locators \subseteq Locators
  BY <1>2, OwnIsOwn, AskedFacts DEF Requests
<1>5. /\ new \subseteq {Container} \cup ({"snapshot"} \X Locators)
      /\ \A l \in r.locators : l \in CapturedBy(Written) \/ <<"snapshot", l>> \in new
      /\ new # {} => Container \in new \cup Written
  BY <1>4 DEF Missing, Snapshot, CapturedBy
<1>6. new \cup {Own(k)} \subseteq Addresses
  BY <1>4, <1>5 DEF Addresses
<1> HIDE DEF new
<1>7. fences \in Fences
  <2>1. fences \in [new \cup {Own(k)} -> Nat]
    BY <1>4
  <2> QED BY <1>6, <2>1 DEF Fences
<1>8. DOMAIN fences = new \cup {Own(k)}
  OBVIOUS
<1>9. Shape(k, fences)
  BY <1>2, <1>5, <1>8 DEF Shape
<1>10. Brings(k, "append", fences)
  <2>1. \A l \in r.locators : l \in CapturedBy(Written) \cup CapturedBy(DOMAIN fences)
    <3> TAKE l \in r.locators
    <3>1. <<"snapshot", l>>[1] = "snapshot" /\ <<"snapshot", l>>[2] = l
      OBVIOUS
    <3> QED BY <1>5, <1>8, <3>1 DEF CapturedBy
  <2>2. CapturedBy(DOMAIN fences) # {} => new # {}
    BY <1>4, <1>8 DEF CapturedBy
  <2> QED BY <1>5, <1>8, <2>1, <2>2 DEF Brings
<1>11. Ready(k, "append", call[t].known, fences, "pending")
  <2>1. Checked(k, "append") /\ InPlace(k, "append") /\ Pending(k, "append", "pending")
    BY <1>1, <1>2 DEF Ready, Checked, InPlace, Pending, CapturingOps, ReadOps, DecisionOps
  <2>2. Fresh(k, "append", call[t].known)
    BY <1>1 DEF Ready, Fresh
  <2> QED BY <1>9, <1>10, <2>1, <2>2 DEF Ready
<1> QED BY <1>1, <1>3, <1>7, <1>11, Continued DEF Steps

\* There is at most one decision on a gap, and its status is that.
LEMMA StatusFacts ==
  ASSUME TypeOK, OneDecision, NEW g
  PROVE  /\ Decisions(g) = {} => GapStatus(g) = "pending"
         /\ \A i \in Decisions(g) : GapStatus(g) = commits[i].request.op
         /\ GapStatus(g) \in {"pending"} \cup DecisionOps
         /\ GapStatus(g) = "pending" => Decisions(g) = {}
<1>1. Decisions(g) = {} => GapStatus(g) = "pending"
  BY DEF GapStatus
<1>2. ASSUME NEW i \in Decisions(g) PROVE GapStatus(g) = commits[i].request.op /\ commits[i].request.op \in DecisionOps
  <2>1. \A j \in Decisions(g) : j = i
    BY <1>2 DEF OneDecision, Decisions
  <2>2. i \in Nat
    BY <1>2 DEF Decisions, TypeOK
  <2>3. (CHOOSE j \in Decisions(g) : \A l \in Decisions(g) : l <= j) = i
    <3>1. \A l \in Decisions(g) : l <= i
      BY <2>1, <2>2
    <3>2. (CHOOSE j \in Decisions(g) : \A l \in Decisions(g) : l <= j) \in Decisions(g)
      BY <1>2, <3>1
    <3> QED BY <2>1, <3>2
  <2> QED BY <1>2, <2>3 DEF GapStatus, Decisions
<1>3. "pending" \notin DecisionOps
  BY DEF DecisionOps
<1> QED BY <1>1, <1>2, <1>3

LEMMA ReadGapStep == ASSUME Inv, NEW t \in Threads, ReadGap(t) PROVE Inv'
<1> USE DEF Inv
<1> DEFINE k == call[t].command
           g == asked[k].request.about[1]
<1>1. /\ pc[t] = "read" /\ Ready(k, "read", call[t].known, call[t].expected, call[t].status)
      /\ asked[k].request.op \in DecisionOps /\ Continue(t, "decide", <<>>, GapStatus(g))
  BY DEF ReadGap, Working, Request
<1>2. GapStatus(g) \in {"pending"} \cup DecisionOps /\ (GapStatus(g) = "pending" => Decisions(g) = {})
  BY StatusFacts DEF LogInv
<1>3. Ready(k, "decide", call[t].known, <<>>, GapStatus(g))
  BY <1>1, <1>2 DEF Ready, InPlace, Checked, Fresh, Pending, Brings
<1> QED BY <1>1, <1>2, <1>3, Continued DEF Steps

LEMMA DecideStep == ASSUME Inv, NEW t \in Threads, Decide(t) PROVE Inv'
<1> USE DEF Inv
<1> DEFINE k == call[t].command
<1>1. pc[t] = "decide" /\ Ready(k, "decide", call[t].known, call[t].expected, call[t].status)
  BY DEF Decide, Working
<1>2. k \in Commands /\ asked[k] # Unasked /\ asked[k].request.op \in DecisionOps
  BY <1>1 DEF TypeOK, Ready, InPlace
<1>3. call[t].known => CommitsOf(k) # {}
  BY <1>1, <1>2, KnownCommitted DEF Ready, Fresh, LogInv, DecisionOps
<1>4. ASSUME NEW is, Reply(t, is), UNCHANGED <<commits, sealed>>,
             call[t].known => is \in {"answered", "deduplicated"}
      PROVE  Inv'
  <2>1. SealedWell' /\ sealed \subseteq Commands
    BY <1>4 DEF Reply, SealedWell, LogInv, TypeOK
  <2> QED BY <1>4, <2>1, Replied
<1>5. CASE CommitsOf(k) # {}
  BY <1>4, <1>5 DEF Decide
<1>6. CASE CommitsOf(k) = {} /\ ~Decidable(t)
  BY <1>3, <1>4, <1>6 DEF Decide
<1>7. CASE CommitsOf(k) = {} /\ Decidable(t)
  <2>1. Continue(t, "append", OwnTarget(k), "pending")
    BY <1>7 DEF Decide
  <2>2. OwnTarget(k) \in Fences /\ Shape(k, OwnTarget(k))
    <3>1. asked[k].request.op \notin CapturingOps /\ asked[k].request.op # "release"
      BY <1>2 DEF DecisionOps, CapturingOps
    <3> QED BY <1>2, <3>1, AskedFacts, OwnTargetFacts
  <2>3. Pending(k, "append", "pending")
    BY <1>1, <1>7 DEF Ready, Pending, Decidable
  <2>4. InPlace(k, "append") /\ Checked(k, "append") /\ Brings(k, "append", OwnTarget(k))
    BY <1>2 DEF InPlace, Checked, Brings, DecisionOps, CapturingOps, ReadOps
  <2>5. Fresh(k, "append", call[t].known)
    BY <1>1, <1>3, <1>7 DEF Ready, Fresh
  <2> QED BY <1>1, <2>1, <2>2, <2>3, <2>4, <2>5, Continued DEF Ready, Steps
<1> QED BY <1>5, <1>6, <1>7

LEMMA ReadStep == ASSUME Inv, NEW t \in Threads, Read(t) PROVE Inv'
<1> USE DEF Inv
<1> DEFINE k == call[t].command
           r == asked[k].request
           made == IF r.at = "new" THEN {<<"workspace", k>>} ELSE {}
           fences == [a \in {Own(k)} \cup made |-> 0]
<1>1. /\ pc[t] = "read" /\ Ready(k, "read", call[t].known, call[t].expected, call[t].status)
      /\ r.op \notin DecisionOps /\ Request(t) = r
  BY DEF Read, Working, Request
<1>2. k \in Commands /\ asked[k] # Unasked /\ r.op \in ReadOps
  BY <1>1 DEF TypeOK, Ready, InPlace
<1>3. call[t].known => CommitsOf(k) # {}
  BY <1>1, <1>2, KnownCommitted DEF Ready, Fresh, LogInv, ReadOps
<1>4. CommitsOf(k) # {} => Admissible(r)
  <2> SUFFICES ASSUME NEW i \in CommitsOf(k) PROVE Admissible(r)
    OBVIOUS
  <2>1. i \in DOMAIN commits /\ commits[i].command = k
    BY DEF CommitsOf
  <2> QED BY <1>2, <2>1 DEF LogInv, LogWell, LogChecked
<1>5. CASE ~Admissible(r) /\ Reply(t, "refused") /\ UNCHANGED <<commits, sealed>>
  <2>1. SealedWell' /\ sealed \subseteq Commands
    BY <1>5 DEF Reply, SealedWell, LogInv, TypeOK
  <2> QED BY <1>3, <1>4, <1>5, <2>1, Replied
<1>6. CASE Admissible(r) /\ Continue(t, "append", fences, "pending")
  <2>1. Own(k) \in Addresses /\ <<"workspace", k>> \in Addresses /\ asked[k].expected = 0
    <3>1. asked[k].expected = 0
      BY <1>1, <1>2 DEF LogInv, AskedWell
    <3> QED BY <1>2, <3>1, OwnIsOwn DEF Addresses
  <2>2. fences \in Fences
    <3>1. fences \in [{Own(k)} \cup made -> Nat]
      OBVIOUS
    <3> QED BY <2>1, <3>1 DEF Fences
  <2>3. Shape(k, fences)
    <3>1. r.op \notin CapturingOps
      BY <1>2 DEF ReadOps, CapturingOps
    <3> QED BY <2>1, <3>1 DEF Shape
  <2>4. InPlace(k, "append") /\ Checked(k, "append") /\ Brings(k, "append", fences) /\ Pending(k, "append", "pending")
    BY <1>1, <1>2, <1>6 DEF InPlace, Checked, Brings, Pending, DecisionOps, CapturingOps, ReadOps
  <2>5. Fresh(k, "append", call[t].known)
    BY <1>1, <1>2 DEF Ready, Fresh
  <2> QED BY <1>1, <1>6, <2>2, <2>3, <2>4, <2>5, Continued DEF Ready, Steps
<1> QED BY <1>1, <1>5, <1>6 DEF Read

LEMMA SelectStep == ASSUME Inv, NEW t \in Threads, SelectCapture(t) PROVE Inv'
<1> USE DEF Inv
<1> DEFINE k == call[t].command
<1>1. pc[t] = "select" /\ Ready(k, "select", call[t].known, call[t].expected, call[t].status)
  BY DEF SelectCapture, Working
<1>2. k \in Commands /\ asked[k].request.op = "capture"
  BY <1>1 DEF TypeOK, Ready, InPlace
<1>3. CASE k \in sealed /\ Reply(t, "answered") /\ UNCHANGED <<commits, sealed>>
  <2>1. SealedWell' /\ sealed \subseteq Commands
    BY <1>3 DEF Reply, SealedWell, LogInv, TypeOK
  <2> QED BY <1>3, <2>1, Replied
<1>4. CASE k \notin sealed /\ Continue(t, "insert", <<>>, "pending")
  <2>1. CommitsOf(k) = {}
    BY <1>2 DEF LogInv, LogWell, CommitsOf
  <2>2. Ready(k, "insert", call[t].known, <<>>, "pending")
    BY <1>1, <1>2, <1>4, <2>1 DEF Ready, InPlace, Checked, Fresh, Pending, Brings, IsKnown
  <2> QED BY <1>1, <1>4, <2>2, Continued DEF Steps
<1> QED BY <1>3, <1>4 DEF SelectCapture

LEMMA InsertStep == ASSUME Inv, NEW t \in Threads, InsertCapture(t) PROVE Inv'
<1> USE DEF Inv
<1> DEFINE k == call[t].command
<1>1. pc[t] = "insert" /\ Ready(k, "insert", call[t].known, call[t].expected, call[t].status)
  BY DEF InsertCapture, Working
<1>2. k \in Commands /\ asked[k] # Unasked /\ asked[k].request.op = "capture" /\ ~call[t].known
  BY <1>1 DEF TypeOK, Ready, InPlace, Fresh
<1>3. sealed' = sealed \cup {k} /\ UNCHANGED <<commits, asked>>
  BY DEF InsertCapture, Reply
<1>4. SealedWell' /\ sealed' \subseteq Commands
  BY <1>2, <1>3 DEF SealedWell, LogInv, TypeOK
<1>5. PICK is : Reply(t, is)
  BY DEF InsertCapture
<1> QED BY <1>2, <1>3, <1>4, <1>5, Replied

LEMMA LoseStep == ASSUME Inv, NEW t \in Threads, Lose(t) PROVE Inv'
<1> USE DEF Inv
<1>1. /\ UNCHANGED <<commits, sealed, asked, denied>>
      /\ pc' = [pc EXCEPT ![t] = "idle"] /\ call' = [call EXCEPT ![t] = NoCall]
  BY DEF Lose, Goto
<1>2. pc'[t] = "idle" /\ call'[t] = NoCall /\ \A u \in Threads \ {t} : pc'[u] = pc[u] /\ call'[u] = call[u]
  BY <1>1 DEF TypeOK
<1>3. TypeOK'
  BY <1>1, <1>2 DEF TypeOK, NoCall, Steps
<1>4. \A u \in Threads \ {t} : Working(u)'
  BY <1>1, <1>2, OthersStay
<1>5. Working(t)'
  BY <1>2, IdleWorks
<1>6. SealedWell' /\ RetryReplays'
  BY <1>1 DEF SealedWell, LogInv, RetryReplays
<1> QED BY <1>1, <1>3, <1>4, <1>5, <1>6, LogStays
-----------------------------------------------------------------------------
\* A command id that is bound anew has done nothing yet.
LEMMA AskStep == ASSUME Inv, NEW k \in Commands, NEW r \in Menu[k], Ask(k, r) PROVE Inv'
<1> USE DEF Inv
<1> DEFINE new == [request |-> r, expected |-> IF r.op \in DecisionOps THEN Length(<<"gap", r.about[1]>>) ELSE 0]
<1>1. /\ asked[k] = Unasked /\ asked' = [asked EXCEPT ![k] = new]
      /\ UNCHANGED <<commits, sealed, pc, call, denied>>
  BY DEF Ask
<1>2. r \in Requests /\ r.op \in Ops
  BY MenuAssumption DEF Requests
<1>3. new \in [request : Requests, expected : Nat] /\ new # Unasked
  <2>1. r.op # "none"
    BY <1>2 DEF Ops, DecisionOps, CapturingOps
  <2>2. new.request.op # Unasked.request.op
    BY <2>1 DEF Unasked
  <2>3. Length(<<"gap", r.about[1]>>) \in Nat
    BY LengthFacts
  <2> QED BY <1>2, <2>2, <2>3
<1> HIDE DEF new
<1>4. asked'[k] = new /\ \A l \in Commands \ {k} : asked'[l] = asked[l]
  BY <1>1 DEF TypeOK
<1>5. TypeOK'
  <2>1. new.request = r
    BY DEF new
  <2>2. asked' \in [Commands -> {Unasked} \cup [request : Requests, expected : Nat]]
    BY <1>1, <1>3 DEF TypeOK
  <2>3. \A l \in Commands : asked'[l] # Unasked => asked'[l].request \in Menu[l]
    BY <1>4, <2>1 DEF TypeOK
  <2>4. \A t \in Threads : pc[t] # "idle" => asked'[call[t].command] # Unasked
    BY <1>3, <1>4 DEF TypeOK
  <2> QED BY <1>1, <2>2, <2>3, <2>4 DEF TypeOK
<1>6. AskedWell'
  <2>1. \A a : Length(a)' = Length(a)
    BY <1>1 DEF Length, Targets
  <2>2. \A a : Length(a) \in Nat
    BY LengthFacts
  <2>3. /\ new.request.op \in DecisionOps => new.expected = Length(<<"gap", new.request.about[1]>>)
        /\ new.request.op \notin DecisionOps => new.expected = 0
    BY DEF new
  <2> QED BY <1>4, <2>1, <2>2, <2>3 DEF AskedWell, LogInv
<1>7. \A i \in DOMAIN commits : commits[i].command \in Commands \ {k}
  <2> TAKE i \in DOMAIN commits
  <2> DEFINE S == [command : Commands, request : Requests, expected : Fences]
  <2>1. commits[i] \in S
    <3>1. commits \in Seq(S)
      BY DEF TypeOK
    <3> HIDE DEF S
    <3> QED BY <3>1
  <2>2. asked[commits[i].command] # Unasked
    BY DEF LogInv, LogWell
  <2> QED BY <1>1, <2>1, <2>2
<1>8. \A l \in Commands \ {k} : \A e : Shape(l, e) => Shape(l, e)'
  <2> TAKE l \in Commands \ {k}
  <2>1. asked'[l] = asked[l]
    BY <1>4
  <2>2. Own(l)' = Own(l)
    BY <2>1 DEF Own
  <2> QED BY <2>1, <2>2 DEF Shape
<1>9. LogWell'
  BY <1>1, <1>4, <1>7, <1>8 DEF LogWell, LogInv
<1>10. SealedWell'
  BY <1>1, <1>4 DEF SealedWell, LogInv, TypeOK
<1>11. LogChecked' /\ SharedOnce' /\ OneDecision' /\ CitedIsCaptured' /\ ClaimsAreGrounded' /\ RetryReplays'
  <2>1. LogChecked'
    BY <1>1, SoundForGood DEF LogChecked, LogInv
  <2>2. ClaimsAreGrounded'
    <3>1. \A g : Decisions(g)' = Decisions(g) /\ Established(g)' = Established(g)
      BY <1>1 DEF Established, GapStatus, Decisions
    <3> QED BY <1>1, <3>1 DEF ClaimsAreGrounded, LogInv
  <2> QED BY <1>1, <2>1, <2>2 DEF SharedOnce, OneDecision, CitedIsCaptured, RetryReplays, LogInv, Targets
<1>12. ASSUME NEW t \in Threads PROVE Working(t)'
  <2> DEFINE l == call[t].command
  <2> SUFFICES ASSUME pc[t] # "idle"
               PROVE  Ready(l, pc[t], call[t].known, call[t].expected, call[t].status)'
    BY <1>1 DEF Working
  <2>1. l \in Commands \ {k} /\ Ready(l, pc[t], call[t].known, call[t].expected, call[t].status)
    BY <1>1 DEF TypeOK, Working
  <2>2. asked'[l] = asked[l] /\ call' = call /\ pc' = pc
    BY <1>1, <1>4, <2>1
  <2>3. InPlace(l, pc[t])' /\ Checked(l, pc[t])'
    BY <1>1, <2>1, <2>2, SoundForGood DEF Ready, InPlace, Checked
  <2>4. Fresh(l, pc[t], call[t].known)'
    BY <1>1, <2>1, <2>2 DEF Ready, Fresh, IsKnown, CommitsOf, Duplicates
  <2>5. Pending(l, pc[t], call[t].status)'
    BY <1>1, <2>1, <2>2 DEF Ready, Pending, Decisions, Length, Targets
  <2>6. Brings(l, pc[t], call[t].expected)'
    <3>1. Written' = Written
      BY <1>1 DEF Written, Targets
    <3> QED BY <2>1, <2>2, <3>1 DEF Ready, Brings, CapturedBy
  <2>7. pc[t] = "append" => Shape(l, call[t].expected)'
    BY <1>8, <2>1, <2>2 DEF Ready
  <2> QED BY <2>2, <2>3, <2>4, <2>5, <2>6, <2>7 DEF Ready
<1> QED BY <1>5, <1>6, <1>9, <1>10, <1>11, <1>12 DEF LogInv
-----------------------------------------------------------------------------
\* A commit the store accepts from a thread that is ready for it.
Commit == [command : Commands, request : Requests, expected : Fences]

Fits(c) ==
  /\ c \in Commit /\ asked[c.command] # Unasked /\ c.request = asked[c.command].request
  /\ c.request.op # "capture" /\ Shape(c.command, c.expected)
  /\ Checked(c.command, "append") /\ Brings(c.command, "append", c.expected)
  /\ c.request.op \in DecisionOps =>
       Decisions(c.request.about[1]) = {} /\ <<"gap", c.request.about[1]>> \in DOMAIN c.expected
  /\ \A a \in DOMAIN c.expected : IsShared(a) => a \notin Written
  /\ CapturedBy(DOMAIN c.expected) # {} => c.request.op \in CapturingOps

\* What a thread is ready to commit fits, if the store finds its fences met.
LEMMA AcceptedFits ==
  ASSUME Inv, NEW k \in Commands, asked[k] # Unasked, NEW known, NEW status, NEW expected \in Fences,
         Ready(k, "append", known, expected, status),
         \A a \in DOMAIN expected : Length(a) = expected[a]
  PROVE  Fits([command |-> k, request |-> asked[k].request, expected |-> expected])
<1> USE DEF Inv, Ready
<1> DEFINE c == [command |-> k, request |-> asked[k].request, expected |-> expected]
           r == asked[k].request
<1>1. /\ c \in Commit /\ c.command = k /\ c.request = r /\ c.expected = expected
      /\ r.op # "capture" /\ Own(k) \in DOMAIN expected
  BY AskedFacts DEF Commit, InPlace, Shape
<1>2. \A a \in DOMAIN expected : expected[a] = IF a = Own(k) THEN asked[k].expected ELSE 0
  BY DEF Shape
<1>3. r.op \in DecisionOps => Own(k) = <<"gap", r.about[1]>>
  BY AskedFacts
<1>4. r.op \in DecisionOps => Decisions(r.about[1]) = {}
  <2> SUFFICES ASSUME r.op \in DecisionOps, asked[k].expected < Length(<<"gap", r.about[1]>>) PROVE FALSE
    BY DEF Pending
  <2>1. Length(Own(k)) = asked[k].expected /\ asked[k].expected \in Nat
    BY <1>1, <1>2, AskedFacts
  <2> QED BY <1>3, <2>1
<1>5. ASSUME NEW a \in DOMAIN expected, IsShared(a) PROVE a \notin Written
  <2>1. a # Own(k)
    BY <1>5, OwnIsOwn
  <2>2. Length(a) = 0
    BY <1>2, <1>5, <2>1
  <2> QED BY <2>2, LengthFacts
<1>6. CapturedBy(DOMAIN expected) # {} => r.op \in CapturingOps
  <2> SUFFICES ASSUME r.op \notin CapturingOps, NEW a \in DOMAIN expected, a[1] = "snapshot" PROVE FALSE
    BY DEF CapturedBy
  <2>1. a = Own(k) \/ a = <<"workspace", k>>
    BY DEF Shape
  <2> QED BY <2>1, OwnIsOwn
<1> SUFFICES Fits(c)
  OBVIOUS
<1> HIDE DEF c
<1> QED BY <1>1, <1>3, <1>4, <1>5, <1>6 DEF Fits

\* A commit that fits makes nothing unsound, and nothing unknown.
LEMMA SoundGrows ==
  ASSUME Inv, NEW c, Fits(c), commits' = Append(commits, c), UNCHANGED <<sealed, asked>>, NEW r
  PROVE  (Citable(r) => Citable(r)') /\ (r.op \in ReadOps /\ Admissible(r) => Admissible(r)')
<1> USE DEF Inv
<1>0. /\ DOMAIN commits \subseteq DOMAIN commits'
      /\ \A i \in DOMAIN commits : commits'[i] = commits[i]
      /\ \A i \in DOMAIN commits' : i \notin DOMAIN commits => commits'[i] = c
  BY AppendFacts DEF Fits, Commit
<1>1. \A op, k, place : IsMade(op, k, place) => IsMade(op, k, place)'
  BY <1>0 DEF IsMade, CommitsOf
<1>2. \A release, capture, w : IsReleased(release, capture, w) => IsReleased(release, capture, w)'
  BY <1>0 DEF IsReleased, CommitsOf
<1>3. ASSUME NEW g, Established(g) PROVE Established(g)'
  <2>1. Decisions(g) # {}
    BY <1>3, StatusFacts DEF Established, LogInv
  <2>2. Decisions(g)' = Decisions(g)
    BY <1>0, <2>1 DEF Fits, Decisions
  <2>3. GapStatus(g)' = GapStatus(g)
    <3>1. PICK i \in Decisions(g) : \A j \in Decisions(g) : j = i
      BY <2>1 DEF LogInv, OneDecision, Decisions
    <3>2. Decisions(g) = {i}
      BY <3>1
    <3>3. i \in Nat /\ i \in DOMAIN commits
      BY <3>1 DEF Decisions, TypeOK
    <3>4. (CHOOSE x \in {i} : \A j \in {i} : j <= x) = i
      BY <3>3
    <3> QED BY <1>0, <2>2, <3>2, <3>3, <3>4 DEF GapStatus
  <2> QED BY <1>3, <2>3 DEF Established
<1> QED BY <1>1, <1>2, <1>3 DEF Citable, Admissible, Forgeable, ReadOps

LEMMA LogGrows ==
  ASSUME Inv, NEW c, Fits(c), commits' = Append(commits, c), UNCHANGED <<sealed, asked>>
  PROVE  LogInv'
<1> USE DEF Inv, LogInv
<1> DEFINE n == Len(commits) + 1
<1>0. /\ c \in Commit /\ DOMAIN commits' = DOMAIN commits \cup {n} /\ n \notin DOMAIN commits
      /\ \A i \in DOMAIN commits : commits'[i] = commits[i] /\ i \in Nat /\ i < n
      /\ commits'[n] = c
      /\ \A i \in DOMAIN commits' :
           Targets(i)' = IF i \in DOMAIN commits THEN Targets(i) ELSE DOMAIN c.expected
      /\ Written' = Written \cup DOMAIN c.expected
  BY AppendFacts DEF Fits, Commit
<1>l. DOMAIN commits = 1..Len(commits) /\ Len(commits) \in Nat
  BY DEF TypeOK
<1>1. AskedWell'
  <2>1. \A a : Length(a) \in Nat /\ Length(a) <= Length(a)'
    BY <1>0, LengthFacts, LengthGrows DEF Commit
  <2>2. \A k \in Commands : asked[k] # Unasked => asked[k].expected \in Nat
    BY AskedFacts
  <2>3. \A a : Length(a)' \in Nat
    BY <1>0, LengthFacts, LengthGrows DEF Commit
  <2>4. AskedWell /\ UNCHANGED asked
    OBVIOUS
  <2> QED BY ONLY <2>1, <2>2, <2>3, <2>4 DEF AskedWell
<1>2. LogWell'
  <2>1. \A k, e : Shape(k, e)' = Shape(k, e)
    BY DEF Shape, Own
  <2> QED BY <1>0, <2>1 DEF LogWell, Fits
<1>3. SealedWell'
  BY DEF SealedWell
<1>4. LogChecked'
  <2>1. \A r : (Citable(r) => Citable(r)') /\ (r.op \in ReadOps /\ Admissible(r) => Admissible(r)')
    BY SoundGrows
  <2>2. (c.request.op \in CapturingOps => Citable(c.request)) /\ (c.request.op \in ReadOps => Admissible(c.request))
    BY DEF Fits, Checked
  <2> QED BY <1>0, <2>1, <2>2 DEF LogChecked
<1>5. SharedOnce'
  <2>1. \A i \in DOMAIN commits : Targets(i) \subseteq Written
    BY DEF Written
  <2> HIDE DEF n
  <2> QED BY <1>0, <2>1 DEF SharedOnce, Fits
<1>6. OneDecision'
  <2>1. ASSUME NEW i \in DOMAIN commits, commits[i].request.op \in DecisionOps, c.request.op \in DecisionOps,
               commits[i].request.about[1] = c.request.about[1]
        PROVE  FALSE
    BY <2>1 DEF Fits, Decisions
  <2> HIDE DEF n
  <2> QED BY <1>0, <2>1 DEF OneDecision
<1>7. CitedIsCaptured'
  <2> DEFINE Before(i) == UNION {Targets(j) : j \in 1..i}
  <2>1. \A i \in DOMAIN commits : Before(i)' = Before(i)
    <3> TAKE i \in DOMAIN commits
    <3>1. \A j \in 1..i : j \in DOMAIN commits /\ Targets(j)' = Targets(j)
      BY <1>0, <1>l
    <3>2. {Targets(j)' : j \in 1..i} = {Targets(j) : j \in 1..i}
      BY <3>1
    <3> QED BY <3>2
  <2>2. UNION {Targets(j)' : j \in 1..n} = Written'
    <3>1. 1..n = DOMAIN commits'
      BY <1>0, <1>l
    <3> QED BY <3>1 DEF Written
  <2>3. CapturedBy(Written) # {} => Container \in Written
    <3>1. CASE DOMAIN commits = {}
      BY <3>1 DEF Written, CapturedBy
    <3>2. CASE DOMAIN commits # {}
      <4>1. Len(commits) \in DOMAIN commits /\ 1..Len(commits) = DOMAIN commits
        BY <1>l, <3>2
      <4>2. Written = UNION {Targets(j) : j \in 1..Len(commits)}
        BY <4>1 DEF Written
      <4> QED BY <4>1, <4>2 DEF CitedIsCaptured, CapturedBy
    <3> QED BY <3>1, <3>2
  <2>4. /\ c.request.op \in CapturingOps => c.request.locators \subseteq CapturedBy(Written')
        /\ CapturedBy(Written') # {} => Container \in Written'
    <3>1. CapturedBy(Written') = CapturedBy(Written) \cup CapturedBy(DOMAIN c.expected)
      BY <1>0 DEF CapturedBy
    <3> QED BY <1>0, <2>3, <3>1 DEF Fits, Brings
  <2>5. ASSUME NEW i \in DOMAIN commits'
        PROVE  LET before == UNION {Targets(j)' : j \in 1..i}
                   captured == {a[2] : a \in {b \in before : b[1] = "snapshot"}}
               IN /\ commits'[i].request.op \in CapturingOps => commits'[i].request.locators \subseteq captured
                  /\ captured # {} => Container \in before
    <3>1. CASE i \in DOMAIN commits
      BY <1>0, <2>1, <3>1 DEF CitedIsCaptured
    <3>2. CASE i = n
      BY <1>0, <2>2, <2>4, <3>2 DEF CapturedBy
    <3> QED BY <1>0, <2>5, <3>1, <3>2
  <2> QED BY <2>5 DEF CitedIsCaptured
<1>8. ClaimsAreGrounded'
  <2>1. \A g : Established(g) => \E j \in Decisions(g) : j \in DOMAIN commits
    BY StatusFacts DEF Established, Decisions
  <2>2. \A g : Decisions(g) \subseteq Decisions(g)'
    BY <1>0 DEF Decisions
  <2>3. ASSUME NEW i \in DOMAIN commits', NEW r, r = commits'[i].request, r.op = "claim", r.about # <<>>
        PROVE  (\E j \in Decisions(r.about[1])' : j < i) /\ Established(r.about[1])'
    <3>1. Established(r.about[1])'
      BY <1>4, <2>3 DEF LogChecked, Admissible, ReadOps
    <3>2. CASE i \in DOMAIN commits
      <4>1. \E j \in Decisions(r.about[1]) : j < i
        BY <1>0, <2>3, <3>2 DEF ClaimsAreGrounded
      <4> QED BY <2>2, <3>1, <4>1
    <3>3. CASE i = n
      <4>1. r = c.request
        BY <1>0, <2>3, <3>3
      <4>2. Established(r.about[1])
        BY <2>3, <4>1 DEF Fits, Checked, Admissible, ReadOps
      <4>3. \E j \in Decisions(r.about[1]) : j < i
        BY <1>0, <2>1, <3>3, <4>2
      <4> QED BY <2>2, <3>1, <4>3
    <3> QED BY <1>0, <2>3, <3>2, <3>3
  <2>4. ASSUME NEW i \in DOMAIN commits', commits'[i].request.op = "forge"
        PROVE  /\ commits'[i].request.about[3] \in sealed
               /\ \E j, k \in 1..i :
                    /\ commits'[j].command = commits'[i].request.about[1]
                    /\ commits'[j].request.at = commits'[i].request.at
                    /\ commits'[k].command = commits'[i].request.about[2]
                    /\ commits'[k].request.about = <<commits'[i].request.about[3]>>
                    /\ commits'[k].request.at = commits'[i].request.at
    <3>1. CASE i \in DOMAIN commits
      <4>1. \A j \in 1..i : commits'[j] = commits[j]
        BY <1>0, <1>l, <3>1
      <4>2. commits'[i] = commits[i]
        BY <1>0, <3>1
      <4>3. commits[i].request.op = "forge"
        BY <2>4, <4>2
      <4>4. /\ commits[i].request.about[3] \in sealed
            /\ \E j, k \in 1..i :
                 /\ commits[j].command = commits[i].request.about[1]
                 /\ commits[j].request.at = commits[i].request.at
                 /\ commits[k].command = commits[i].request.about[2]
                 /\ commits[k].request.about = <<commits[i].request.about[3]>>
                 /\ commits[k].request.at = commits[i].request.at
        BY <3>1, <4>3 DEF ClaimsAreGrounded
      <4>5. PICK j \in 1..i, k \in 1..i :
              /\ commits[j].command = commits[i].request.about[1]
              /\ commits[j].request.at = commits[i].request.at
              /\ commits[k].command = commits[i].request.about[2]
              /\ commits[k].request.about = <<commits[i].request.about[3]>>
              /\ commits[k].request.at = commits[i].request.at
        BY <4>4
      <4>6. commits'[j] = commits[j] /\ commits'[k] = commits[k]
        BY <4>1
      <4> QED BY <4>2, <4>4, <4>5, <4>6
    <3>2. CASE i = n
      <4> DEFINE r == c.request
      <4>1. commits'[i] = c /\ r.op = "forge"
        BY <1>0, <2>4, <3>2
      <4>2. r.about[3] \in sealed /\ Forgeable(r)
        BY <4>1 DEF Fits, Checked, Admissible, ReadOps
      <4>3. PICK j \in DOMAIN commits : commits[j].command = r.about[1] /\ commits[j].request.at = r.at
        BY <4>2 DEF Forgeable, IsMade, CommitsOf
      <4>4. PICK k \in DOMAIN commits : /\ commits[k].command = r.about[2] /\ commits[k].request.about = <<r.about[3]>>
                                       /\ commits[k].request.at = r.at
        BY <4>2 DEF Forgeable, IsReleased, CommitsOf
      <4>5. j \in 1..i /\ k \in 1..i /\ commits'[j] = commits[j] /\ commits'[k] = commits[k]
        BY <1>0, <1>l, <3>2
      <4> QED BY <4>1, <4>2, <4>3, <4>4, <4>5
    <3> QED BY <1>0, <2>4, <3>1, <3>2
  <2>5. ASSUME NEW i \in DOMAIN commits', commits'[i].request.op = "claim", commits'[i].request.about # <<>>
        PROVE  /\ \E j \in Decisions(commits[i].request.about[1])' : j < i
               /\ Established(commits[i].request.about[1])'
    <3>1. PICK r : r = commits'[i].request
      OBVIOUS
    <3>2. PICK g : g = r.about[1]
      OBVIOUS
    <3>3. (\E j \in Decisions(g)' : j < i) /\ Established(g)'
      BY <2>3, <2>5, <3>1, <3>2
    <3> QED BY <3>1, <3>2, <3>3
  <2> SUFFICES ASSUME NEW i \in DOMAIN commits'
               PROVE  LET r == commits[i].request IN
                      (/\ r.op = "claim" /\ r.about # <<>> =>
                            (\E j \in Decisions(r.about[1]) : j < i) /\ Established(r.about[1])
                       /\ r.op = "forge" =>
                            /\ r.about[3] \in sealed
                            /\ \E j, k \in 1..i :
                                 /\ commits[j].command = r.about[1] /\ commits[j].request.at = r.at
                                 /\ commits[k].command = r.about[2] /\ commits[k].request.about = <<r.about[3]>>
                                 /\ commits[k].request.at = r.at)'
    BY DEF ClaimsAreGrounded
  <2> QED BY <2>4, <2>5
<1> QED BY <1>1, <1>2, <1>3, <1>4, <1>5, <1>6, <1>7, <1>8

LEMMA ReadyGrows ==
  ASSUME Inv, NEW c, Fits(c), commits' = Append(commits, c), UNCHANGED <<sealed, asked>>,
         NEW k \in Commands, asked[k] # Unasked, NEW step, NEW known, NEW expected, NEW status,
         Ready(k, step, known, expected, status)
  PROVE  Ready(k, step, known, expected, status)'
<1> USE DEF Inv, Ready
<1> DEFINE n == Len(commits) + 1
           r == asked[k].request
<1>0. /\ c \in Commit /\ DOMAIN commits' = DOMAIN commits \cup {n} /\ n \notin DOMAIN commits
      /\ \A i \in DOMAIN commits : commits'[i] = commits[i]
      /\ commits'[n] = c
      /\ Written' = Written \cup DOMAIN c.expected
  BY AppendFacts DEF Fits, Commit
<1>1. InPlace(k, step)'
  BY DEF InPlace
<1>2. step = "append" => Shape(k, expected)'
  BY DEF Shape, Own
<1>3. Checked(k, step)'
  BY SoundGrows DEF Checked
<1>4. Fresh(k, step, known)'
  BY <1>0 DEF Fresh, IsKnown, CommitsOf, Duplicates
<1>5. Pending(k, step, status)'
  <2> DEFINE g == r.about[1]
             a == <<"gap", g>>
  <2> SUFFICES ASSUME r.op \in DecisionOps, Decisions(g) = {} \/ asked[k].expected < Length(a)
               PROVE  Decisions(g)' = {} \/ asked[k].expected < Length(a)'
    BY DEF Pending
  <2>1. Length(a)' = IF a \in DOMAIN c.expected THEN Length(a) + 1 ELSE Length(a)
    BY <1>0, LengthGrows DEF Commit
  <2>2. asked[k].expected \in Nat /\ Length(a) \in Nat /\ asked[k].expected <= Length(a)
    BY AskedFacts, LengthFacts DEF LogInv, AskedWell
  <2>3. CASE asked[k].expected < Length(a)
    BY <2>1, <2>2, <2>3
  <2>4. CASE c.request.op \in DecisionOps /\ c.request.about[1] = g
    BY <2>1, <2>2, <2>4 DEF Fits
  <2>5. CASE Decisions(g) = {} /\ ~(c.request.op \in DecisionOps /\ c.request.about[1] = g)
    <3>1. Decisions(g)' = {}
      BY <1>0, <2>5 DEF Decisions
    <3> QED BY <3>1
  <2> QED BY <2>3, <2>4, <2>5
<1>6. Brings(k, step, expected)'
  BY <1>0 DEF Brings, CapturedBy
<1> QED BY <1>1, <1>2, <1>3, <1>4, <1>5, <1>6

\* Without shared streams the request determines the fences.
LEMMA OneShape ==
  ASSUME NEW k, NEW e, NEW f, Shape(k, e), Shape(k, f), asked[k].request.op \notin CapturingOps
  PROVE  e = f
<1>1. DOMAIN e = DOMAIN f
  BY DEF Shape
<1> QED BY <1>1 DEF Shape

LEMMA WriteStep == ASSUME Inv, NEW t \in Threads, Write(t) PROVE Inv'
<1> USE DEF Inv
<1> DEFINE k == call[t].command
           r == asked[k].request
           expected == call[t].expected
           c == [command |-> k, request |-> r, expected |-> expected]
<1>1. pc[t] = "append" /\ Ready(k, "append", call[t].known, expected, call[t].status) /\ Request(t) = r
  BY DEF Write, Working, Request
<1>2. k \in Commands /\ asked[k] # Unasked /\ expected \in Fences /\ Shape(k, expected)
  BY <1>1 DEF TypeOK, Ready
<1>3. call[t].known => r.op \in ReadOps /\ CommitsOf(k) # {}
  <2>1. call[t].known => r.op \in ReadOps
    BY <1>1 DEF Ready, Fresh
  <2>2. r.op \in ReadOps => r.op \notin {"capture", "add"}
    BY DEF ReadOps
  <2> QED BY <1>1, <1>2, <2>1, <2>2, KnownCommitted DEF Ready, Fresh, LogInv
<1>4. ASSUME NEW is, Reply(t, is), UNCHANGED <<commits, sealed>>,
             call[t].known => is \in {"answered", "deduplicated"}
      PROVE  Inv'
  <2>1. SealedWell' /\ sealed \subseteq Commands
    BY <1>4 DEF Reply, SealedWell, LogInv, TypeOK
  <2> QED BY <1>4, <2>1, Replied
<1>5. CASE CommitsOf(k) # {}
  <2>1. PICK i \in CommitsOf(k) : Reply(t, IF commits[i].expected = expected THEN "answered" ELSE "conflict")
    BY <1>5 DEF Write
  <2>2. UNCHANGED <<commits, sealed>>
    BY <1>5 DEF Write
  <2>3. call[t].known => commits[i].expected = expected
    <3>1. Shape(k, commits[i].expected)
      BY DEF LogInv, LogWell, CommitsOf
    <3>2. r.op \in ReadOps => r.op \notin CapturingOps
      BY DEF ReadOps, CapturingOps
    <3> QED BY <1>2, <1>3, <3>1, <3>2, OneShape
  <2> QED BY <1>4, <2>1, <2>2, <2>3
<1>6. CASE CommitsOf(k) = {} /\ \E a \in DOMAIN expected : Length(a) # expected[a]
  BY <1>3, <1>4, <1>6 DEF Write
<1>7. CASE CommitsOf(k) = {} /\ \A a \in DOMAIN expected : Length(a) = expected[a]
  <2>1. commits' = Append(commits, c) /\ Reply(t, "answered") /\ UNCHANGED sealed
    BY <1>1, <1>7 DEF Write
  <2>2. UNCHANGED asked /\ pc' = [pc EXCEPT ![t] = "idle"] /\ call' = [call EXCEPT ![t] = NoCall]
    BY <2>1 DEF Reply, Goto
  <2>3. pc'[t] = "idle" /\ call'[t] = NoCall /\ \A u \in Threads \ {t} : pc'[u] = pc[u] /\ call'[u] = call[u]
    BY <2>2 DEF TypeOK
  <2>4. Fits(c)
    BY <1>1, <1>2, <1>7, AcceptedFits
  <2> HIDE DEF c
  <2>5. TypeOK'
    <3>1. commits \in Seq(Commit) /\ c \in Commit
      BY <2>4 DEF TypeOK, Commit, Fits
    <3>2. commits' \in Seq(Commit)
      BY <2>1, <3>1
    <3> QED BY <2>1, <2>2, <2>3, <3>2 DEF TypeOK, NoCall, Steps, Commit
  <2>6. LogInv'
    BY <2>1, <2>2, <2>4, LogGrows
  <2>7. ASSUME NEW u \in Threads \ {t} PROVE Working(u)'
    <3> SUFFICES ASSUME pc[u] # "idle"
                 PROVE  Ready(call[u].command, pc[u], call[u].known, call[u].expected, call[u].status)'
      BY <2>3 DEF Working
    <3>1. call[u].command \in Commands /\ asked[call[u].command] # Unasked
      BY DEF TypeOK
    <3>2. \A l \in Commands : \A step, known, fences, status :
            asked[l] # Unasked /\ Ready(l, step, known, fences, status) => Ready(l, step, known, fences, status)'
      BY <2>1, <2>2, <2>4, ReadyGrows
    <3> QED BY <2>3, <3>1, <3>2 DEF Working
  <2>8. Working(t)'
    BY <2>3, IdleWorks
  <2>9. RetryReplays'
    BY <2>1, ToldNothing DEF Reply
  <2> QED BY <2>5, <2>6, <2>7, <2>8, <2>9
<1> QED BY <1>5, <1>6, <1>7
-----------------------------------------------------------------------------
LEMMA InitInv == Init => Inv
<1> SUFFICES ASSUME Init PROVE Inv
  OBVIOUS
<1>0. DOMAIN commits = {} /\ sealed = {} /\ denied = {}
  BY DEF Init
<1>1. TypeOK
  BY DEF Init, TypeOK, NoCall, Steps
<1>2. AskedWell /\ SealedWell /\ RetryReplays
  BY DEF Init, AskedWell, SealedWell, RetryReplays
<1>3. LogWell /\ LogChecked /\ SharedOnce /\ OneDecision /\ CitedIsCaptured /\ ClaimsAreGrounded
  BY <1>0 DEF LogWell, LogChecked, SharedOnce, OneDecision, CitedIsCaptured, ClaimsAreGrounded
<1>4. \A t \in Threads : Working(t)
  BY DEF Init, Working
<1> QED BY <1>1, <1>2, <1>3, <1>4 DEF Inv, LogInv

LEMMA InvStep == ASSUME Inv, [Next]_vars PROVE Inv'
<1>1. CASE \E k \in Commands : \E r \in Menu[k] : Ask(k, r)
  BY <1>1, AskStep
<1>2. ASSUME NEW t \in Threads, Step(t) PROVE Inv'
  BY <1>2, DeliverStep, LookupStep, DedupeStep, ReplayStep, GenerateStep, TakeSnapshotsStep, ReadGapStep,
     DecideStep, ReadStep, WriteStep, SelectStep, InsertStep, LoseStep DEF Step
<1>3. CASE UNCHANGED vars
  <2>1. UNCHANGED <<commits, sealed, asked, denied, pc, call>>
    BY <1>3 DEF vars
  <2>2. TypeOK' /\ SealedWell' /\ RetryReplays'
    BY <2>1 DEF Inv, LogInv, TypeOK, SealedWell, RetryReplays
  <2>3. \A t \in Threads : Working(t)'
    BY <2>1, OthersStay
  <2> QED BY <2>1, <2>2, <2>3, LogStays DEF Inv
<1> QED BY <1>1, <1>2, <1>3 DEF Next

LEMMA Invariant == Spec => []Inv
<1>1. Inv /\ [Next]_vars => Inv'
  BY InvStep
<1> QED BY <1>1, InitInv, PTL DEF Spec

\* Every variable keeps its type.
THEOREM CaptureTypes == Spec => []TypeOK
<1>1. Inv => TypeOK
  BY DEF Inv
<1> QED BY <1>1, Invariant, PTL

\* A paper is snapshot once, whichever commands cite it and however they interleave.
THEOREM CapturedOnceHolds == Spec => []CapturedOnce
<1>1. Inv => CapturedOnce
  <2> SUFFICES ASSUME Inv, NEW i \in DOMAIN commits, NEW j \in DOMAIN commits,
                      NEW a \in Targets(i), NEW b \in Targets(j)
               PROVE  /\ a[1] = "snapshot" /\ b[1] = "snapshot" /\ a[2] = b[2] => i = j
                      /\ a = Container /\ b = Container => i = j
    BY DEF CapturedOnce
  <2>1. CASE a = b /\ IsShared(a)
    BY <2>1 DEF Inv, LogInv, SharedOnce
  <2>2. ASSUME a[1] = "snapshot", b[1] = "snapshot", a[2] = b[2] PROVE a = b
    <3>1. \A l \in DOMAIN commits : \A d \in Targets(l) : d[1] = "snapshot" => d \in {"snapshot"} \X Locators
      <4> SUFFICES ASSUME NEW l \in DOMAIN commits, NEW d \in Targets(l), d[1] = "snapshot"
                   PROVE  d \in {"snapshot"} \X Locators
        OBVIOUS
      <4> DEFINE k == commits[l].command
      <4>1. k \in Commands /\ asked[k] # Unasked /\ Shape(k, commits[l].expected)
        <5>1. commits \in Seq(Commit)
          BY DEF Inv, TypeOK, Commit
        <5>2. commits[l] \in Commit
          BY <5>1
        <5> QED BY <5>2 DEF Commit, Inv, LogInv, LogWell
      <4>2. d # Own(k) /\ d # <<"workspace", k>> /\ d # Container
        <5>1. Own(k)[1] # "snapshot"
          BY <4>1, OwnIsOwn DEF Inv
        <5> QED BY <5>1 DEF Container
      <4> QED BY <4>1, <4>2 DEF Shape, Targets
    <3>2. a \in {"snapshot"} \X Locators /\ b \in {"snapshot"} \X Locators
      BY <2>2, <3>1
    <3> QED BY <2>2, <3>2
  <2> QED BY <2>1, <2>2 DEF IsShared
<1> QED BY <1>1, Invariant, PTL

\* What cites a paper commits with its snapshot or after it.
THEOREM CitedIsCapturedHolds == Spec => []CitedIsCaptured
<1>1. Inv => CitedIsCaptured
  BY DEF Inv, LogInv
<1> QED BY <1>1, Invariant, PTL

\* Rival decisions on a gap leave one.
THEOREM GapDecidedOnceHolds == Spec => []GapDecidedOnce
<1>1. Inv => GapDecidedOnce
  <2> SUFFICES ASSUME Inv, NEW g \in Commands PROVE Cardinality(Decisions(g)) <= 1
    BY DEF GapDecidedOnce
  <2>1. CASE Decisions(g) = {}
    BY <2>1, FS_EmptySet
  <2>2. ASSUME NEW i \in Decisions(g) PROVE Decisions(g) = {i}
    BY <2>2 DEF Inv, LogInv, OneDecision, Decisions
  <2>3. \A i : Cardinality({i}) = 1
    BY FS_Singleton
  <2> QED BY <2>1, <2>2, <2>3
<1> QED BY <1>1, Invariant, PTL

\* A claim's gap stays established, and a provenance was released before it.
THEOREM ClaimsAreGroundedHolds == Spec => []ClaimsAreGrounded
<1>1. Inv => ClaimsAreGrounded
  BY DEF Inv, LogInv
<1> QED BY <1>1, Invariant, PTL

\* A command that is sent again after it was committed is answered with its commit.
THEOREM RetryReplaysHolds == Spec => []RetryReplays
<1>1. Inv => RetryReplays
  BY DEF Inv
<1> QED BY <1>1, Invariant, PTL

\* A material that is written twice was not there when either call was delivered.
THEOREM DuplicatesOverlapHolds == Spec => DuplicatesOverlap
<1>1. ASSUME Inv, [Next]_vars,
             NEW i \in DOMAIN commits' \ DOMAIN commits, commits'[i].request.op = "add",
             NEW u \in Threads, pc[u] = "append", pc'[u] = "idle"
      PROVE  ~call[u].known
  <2>1. commits' # commits
    BY <1>1
  <2>2. PICK t \in Threads : Write(t)
    BY <1>1, <2>1 DEF Next, Step, Ask, Deliver, Lookup, Dedupe, Replay, Generate, TakeSnapshots, ReadGap,
                      Decide, Read, SelectCapture, InsertCapture, Lose, Continue, vars
  <2> DEFINE c == [command |-> call[t].command, request |-> Request(t), expected |-> call[t].expected]
  <2>3. commits' = Append(commits, c) /\ pc[t] = "append" /\ pc' = [pc EXCEPT ![t] = "idle"]
    BY <2>1, <2>2 DEF Write, Reply, Goto
  <2>4. u = t
    BY <1>1, <2>3 DEF Inv, TypeOK
  <2>5. Request(t).op = "add"
    <3>1. commits \in Seq(Commit)
      BY <1>1 DEF Inv, TypeOK, Commit
    <3>2. commits'[i] = c
      BY <1>1, <2>3, <3>1
    <3> QED BY <1>1, <3>2
  <2> QED BY <1>1, <2>3, <2>4, <2>5 DEF Inv, Working, Ready, Fresh, Request, ReadOps
<1>2. Inv /\ [Next]_vars =>
        [\A i \in DOMAIN commits' \ DOMAIN commits :
           commits'[i].request.op = "add" =>
             \A t \in Threads : pc[t] = "append" /\ pc'[t] = "idle" => ~call[t].known]_vars
  BY <1>1
<1> QED BY <1>2, Invariant, PTL DEF Spec, DuplicatesOverlap
-----------------------------------------------------------------------------
\* These handlers use the log as CommandLog promises it.  What follows reads the
\* commits of this module as rows of the store: the i-th commit is at position i, and
\* adds one event to each of its targets, at the sequence it expected there.
RowOf(c) ==
  [universe |-> "universe", command |-> c.command, body |-> c.request,
   expected |-> c.expected, appends |-> [a \in DOMAIN c.expected |-> 1]]

StoreRows == {RowOf(c) : c \in Commit}

CommitRow(c, p) ==
  [universe |-> "universe", command |-> c.command,
   fingerprint |-> <<c.request, c.expected>>, position |-> p]
EventRows(c, p) ==
  {[universe |-> "universe", address |-> a, sequence |-> c.expected[a], position |-> p] :
     a \in DOMAIN c.expected}

StoreCommits == {CommitRow(commits[i], i) : i \in DOMAIN commits}
StoreEvents == UNION {EventRows(commits[i], i) : i \in DOMAIN commits}
StoreNext == [u \in {"universe"} |-> [a \in Addresses |-> Length(a)]]

Log == INSTANCE CommandLog
  WITH Universes <- {"universe"}, Requests <- StoreRows, Positions <- Nat,
       commits <- StoreCommits, events <- StoreEvents, next <- StoreNext, acked <- {}

\* The rows of a commit are those the store would add for it.
LEMMA RowsOfCommit ==
  ASSUME NEW c \in Commit, NEW p
  PROVE  Log!CommitOf(RowOf(c), p) = CommitRow(c, p) /\ Log!EventsOf(RowOf(c), p) = EventRows(c, p)
<1>1. PICK row : row = RowOf(c)
  OBVIOUS
<1>2. /\ row.universe = "universe" /\ row.command = c.command /\ row.body = c.request
      /\ row.expected = c.expected /\ row.appends = [a \in DOMAIN c.expected |-> 1]
  BY <1>1 DEF RowOf
<1>3. Log!CommitOf(row, p) = CommitRow(c, p)
  BY <1>2 DEF Log!CommitOf, Log!Fingerprint, CommitRow
<1> DEFINE At(a, q) == [universe |-> "universe", address |-> a, sequence |-> q, position |-> p]
           Span(a) == row.expected[a] .. (row.expected[a] + row.appends[a] - 1)
<1>4. Log!EventsOf(row, p) = UNION {{At(a, q) : q \in Span(a)} : a \in DOMAIN row.expected}
  <2>1. row.universe = "universe"
    BY <1>2
  <2> QED BY ONLY <2>1 DEF Log!EventsOf, At, Span
<1>5. \A a \in DOMAIN row.expected : Span(a) = {c.expected[a]}
  <2>1. \A a \in DOMAIN c.expected : c.expected[a] \in Nat
    BY DEF Commit, Fences
  <2> QED BY <1>2, <2>1
<1>6. EventRows(c, p) = {At(a, c.expected[a]) : a \in DOMAIN row.expected}
  BY <1>2 DEF EventRows
<1> HIDE DEF At, Span
<1>7. \A a \in DOMAIN row.expected : {At(a, q) : q \in Span(a)} = {At(a, c.expected[a])}
  BY <1>5
<1>8. Log!EventsOf(row, p) = EventRows(c, p)
  BY <1>4, <1>6, <1>7
<1> QED BY <1>1, <1>3, <1>8

\* A handler that commits does what the store promises of an append.
LEMMA WritePublishes ==
  ASSUME Inv, NEW t \in Threads, Write(t), commits' # commits
  PROVE  \E row \in StoreRows, p \in Nat : Log!Publish(row, p)
<1>1. PICK c : c = [command |-> call[t].command, request |-> Request(t), expected |-> call[t].expected]
  OBVIOUS
<1>2. /\ commits' = Append(commits, c) /\ CommitsOf(c.command) = {} /\ pc[t] = "append"
      /\ \A a \in DOMAIN c.expected : Length(a) = c.expected[a]
  BY <1>1 DEF Write
<1>3. c \in Commit
  <2>1. /\ call[t].command \in Commands /\ asked[call[t].command] # Unasked
        /\ call[t].expected \in Fences
    BY <1>2 DEF Inv, TypeOK
  <2>2. Request(t) \in Requests
    BY <2>1, AskedFacts DEF Inv, Request
  <2> QED BY <1>1, <2>1, <2>2 DEF Commit
<1>4. TypeOK /\ c \in [command : Commands, request : Requests, expected : Fences]
  BY <1>3 DEF Inv, Commit
<1>5. PICK p : p = Len(commits) + 1
  OBVIOUS
<1>6. /\ p \in Nat /\ DOMAIN commits' = DOMAIN commits \cup {p} /\ p \notin DOMAIN commits /\ commits'[p] = c
      /\ \A i \in DOMAIN commits : commits'[i] = commits[i] /\ i \in Nat /\ i < p
  <2>1. Len(commits) \in Nat
    BY <1>4 DEF TypeOK
  <2> QED BY <1>2, <1>4, <1>5, <2>1, AppendFacts
<1>7. PICK row \in StoreRows : row = RowOf(c)
  BY <1>3 DEF StoreRows
<1>8. /\ row.universe = "universe" /\ row.command = c.command
      /\ row.expected = c.expected /\ row.appends = [a \in DOMAIN c.expected |-> 1]
  BY <1>7 DEF RowOf
<1>9. \A k \in StoreCommits : ~Log!SameCommand(k, row) /\ k.position < p
  <2>1. \A i \in DOMAIN commits : commits[i].command # c.command
    BY <1>2 DEF CommitsOf
  <2> QED BY <1>6, <1>8, <2>1 DEF StoreCommits, CommitRow, Log!SameCommand
<1>10. c.expected \in Fences /\ DOMAIN c.expected \subseteq Addresses /\ \A a \in DOMAIN c.expected : c.expected[a] \in Nat
  BY <1>3 DEF Commit, Fences
<1>11. \A a \in DOMAIN row.expected : StoreNext[row.universe][a] = row.expected[a]
  BY <1>2, <1>8, <1>10 DEF StoreNext
<1>12. StoreCommits' = StoreCommits \cup {CommitRow(c, p)}
  <2>1. StoreCommits' = {CommitRow(commits'[i], i) : i \in DOMAIN commits'}
    BY DEF StoreCommits, CommitRow
  <2> QED BY <1>6, <2>1 DEF StoreCommits
<1>13. StoreEvents' = StoreEvents \cup EventRows(c, p)
  <2>1. StoreEvents' = UNION {EventRows(commits'[i], i) : i \in DOMAIN commits'}
    BY DEF StoreEvents, EventRows
  <2> QED BY <1>6, <2>1 DEF StoreEvents
<1>14. StoreNext' = Log!Advanced(row)
  <2>1. \A a : Length(a)' = IF a \in DOMAIN c.expected THEN Length(a) + 1 ELSE Length(a)
    BY <1>2, <1>4, LengthGrows
  <2>2. StoreNext' = [u \in {"universe"} |-> [a \in Addresses |->
                        IF a \in DOMAIN c.expected THEN c.expected[a] + 1 ELSE Length(a)]]
    BY <1>2, <2>1 DEF StoreNext
  <2>3. Log!Advanced(row) =
          [StoreNext EXCEPT !["universe"] =
             [a \in Addresses |-> IF a \in DOMAIN c.expected THEN c.expected[a] + 1
                                                             ELSE StoreNext["universe"][a]]]
    BY <1>8, <1>10 DEF Log!Advanced
  <2>4. [a \in Addresses |-> IF a \in DOMAIN c.expected THEN c.expected[a] + 1
                                                        ELSE StoreNext["universe"][a]]
        = [a \in Addresses |-> IF a \in DOMAIN c.expected THEN c.expected[a] + 1 ELSE Length(a)]
    BY DEF StoreNext
  <2>5. \A f : [StoreNext EXCEPT !["universe"] = f] = [u \in {"universe"} |-> f]
    BY DEF StoreNext
  <2> QED BY <2>2, <2>3, <2>4, <2>5
<1>15. /\ StoreCommits' = StoreCommits \cup {Log!CommitOf(row, p)}
       /\ StoreEvents' = StoreEvents \cup Log!EventsOf(row, p)
  BY <1>3, <1>7, <1>12, <1>13, RowsOfCommit
<1>16. Log!Publish(row, p)
  BY <1>9, <1>11, <1>14, <1>15 DEF Log!Publish
<1> QED BY <1>6, <1>16

\* The handlers of captures, gaps, literature challenges and claims use the log as
\* CommandLog promises it: all that they write is one append of a request of the
\* store, however many streams it creates.
THEOREM CaptureImplementsLog == Spec => Log!LogSpec
<1>1. Init => Log!LogInit
  <2> SUFFICES ASSUME Init PROVE Log!LogInit
    OBVIOUS
  <2>1. DOMAIN commits = {}
    BY DEF Init
  <2>2. StoreCommits = {} /\ StoreEvents = {}
    BY <2>1 DEF StoreCommits, StoreEvents
  <2>3. \A a : Length(a) = 0
    BY <2>1, FS_EmptySet DEF Length
  <2> QED BY <2>2, <2>3 DEF Log!LogInit, StoreNext
<1>2. Inv /\ [Next]_vars => [Log!LogNext]_(Log!logVars)
  <2> SUFFICES ASSUME Inv, [Next]_vars PROVE [Log!LogNext]_(Log!logVars)
    OBVIOUS
  <2>1. CASE UNCHANGED commits
    <3>1. UNCHANGED <<StoreCommits, StoreEvents, StoreNext>>
      BY <2>1 DEF StoreCommits, CommitRow, StoreEvents, EventRows, StoreNext, Length, Targets
    <3> QED BY <3>1 DEF Log!logVars
  <2>2. CASE commits' # commits
    <3>1. PICK t \in Threads : Write(t)
      BY <2>2 DEF Next, Step, Ask, Deliver, Lookup, Dedupe, Replay, Generate, TakeSnapshots, ReadGap,
                  Decide, Read, SelectCapture, InsertCapture, Lose, Continue, vars
    <3> QED BY <2>2, <3>1, WritePublishes DEF Log!LogNext
  <2> QED BY <2>1, <2>2
<1> QED BY <1>1, <1>2, Invariant, PTL DEF Spec, Log!LogSpec
=============================================================================
