------------------------- MODULE MCNativeEventStore -------------------------
(***************************************************************************)
(* A small instance of NativeEventStore: two threads, two universes that   *)
(* share the fence, two streams, and requests that collide in every way    *)
(* the adapter distinguishes.                                              *)
(***************************************************************************)
EXTENDS NativeEventStore, TLC

MCAddresses == {1, 2}

Request(u, k, b, expected, appends) ==
  [universe |-> u, command |-> k, body |-> b, expected |-> expected, appends |-> appends]

\* create / other body under the same id / two streams at once, stale after
\* "create" / the same command with refreshed expectations, so another
\* fingerprint / a second universe / expectations that miss a stream.
MCRequests ==
  { Request("u1", "k1", "create", 1 :> 0, 1 :> 1),
    Request("u1", "k1", "other", 2 :> 0, 2 :> 1),
    Request("u1", "k2", "pair", (1 :> 0) @@ (2 :> 0), (1 :> 1) @@ (2 :> 2)),
    Request("u1", "k2", "pair", (1 :> 1) @@ (2 :> 0), (1 :> 1) @@ (2 :> 2)),
    Request("u2", "k1", "create", 1 :> 0, 1 :> 1),
    Request("u1", "k3", "partial", 1 :> 1, (1 :> 1) @@ (2 :> 1)) }

\* Three commits are possible and a crash wastes one position at most.
MCPositions == 1 .. 5

MCLibrary == ("u1" :> "library1") @@ ("u2" :> "library2")
=============================================================================
