----------------------------- MODULE CommandLog -----------------------------
(***************************************************************************)
(* What the native event store promises its callers: an append-only log    *)
(* of commits.  A commit publishes every event of one command at once, is  *)
(* fenced by the expected length of each stream it appends to, happens at  *)
(* most once per (universe, command id), and takes a position above every  *)
(* position already published.  A success is only ever answered with the   *)
(* durable commit of the command it answers.                               *)
(*                                                                         *)
(* A request r carries the fields of NativeEventStore.append:              *)
(*   r.universe, r.command  the key under which the command is recorded    *)
(*   r.body                 command type and canonical payload             *)
(*   r.expected             stream address -> expected sequence            *)
(*   r.appends              stream address -> number of events it appends  *)
(***************************************************************************)
EXTENDS Naturals

CONSTANTS Universes, Addresses, Requests, Positions

VARIABLES
  commits,  \* durable rows of ru_commits
  events,   \* durable rows of ru_events, without their payloads
  next,     \* ru_streams.next_sequence; 0 stands for an absent stream
  acked     \* the commits some client was told about

logVars == <<commits, events, next, acked>>

Fingerprint(r) == <<r.body, r.expected>>

CommitOf(r, p) ==
  [universe |-> r.universe, command |-> r.command,
   fingerprint |-> Fingerprint(r), position |-> p]

SameCommand(k, r) == k.universe = r.universe /\ k.command = r.command

\* The rows a commit of r at position p adds: consecutive sequences per stream.
EventsOf(r, p) ==
  UNION { { [universe |-> r.universe, address |-> a, sequence |-> q, position |-> p] :
              q \in r.expected[a] .. (r.expected[a] + r.appends[a] - 1) } :
          a \in DOMAIN r.expected }

Advanced(r) ==
  [next EXCEPT ![r.universe] =
     [a \in Addresses |->
        IF a \in DOMAIN r.expected THEN r.expected[a] + r.appends[a]
                                   ELSE next[r.universe][a]]]

LogInit ==
  /\ commits = {}
  /\ events = {}
  /\ next = [u \in Universes |-> [a \in Addresses |-> 0]]
  /\ acked = {}

Publish(r, p) ==
  /\ \A k \in commits : ~SameCommand(k, r)
  /\ \A k \in commits : k.position < p
  /\ \A a \in DOMAIN r.expected : next[r.universe][a] = r.expected[a]
  /\ commits' = commits \cup {CommitOf(r, p)}
  /\ events' = events \cup EventsOf(r, p)
  /\ next' = Advanced(r)
  /\ UNCHANGED acked

Acknowledge(k) ==
  /\ acked' = acked \cup {k}
  /\ UNCHANGED <<commits, events, next>>

LogNext ==
  \/ \E r \in Requests, p \in Positions : Publish(r, p)
  \/ \E k \in commits : Acknowledge(k)

LogSpec == LogInit /\ [][LogNext]_logVars
=============================================================================
