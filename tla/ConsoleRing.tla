----------------------------- MODULE ConsoleRing ----------------------------
(***************************************************************************)
(* ConsoleRingBuffer (pelagos-mac/src/daemon.rs): a fixed buffer that      *)
(* keeps the most recent console output, with the position of its oldest   *)
(* byte and the number of valid bytes.                                     *)
(***************************************************************************)
EXTENDS Naturals, Sequences

CONSTANTS Capacity, Bytes, Zero

ASSUME CapacityAssumption == Capacity \in Nat \ {0}
ASSUME ZeroAssumption == Zero \in Bytes

Slots == 0..(Capacity - 1)

Ring == [buf : [Slots -> Bytes], head : Slots, len : 0..Capacity]

new == [buf |-> [i \in Slots |-> Zero], head |-> 0, len |-> 0]

(* Broken variant: a full ring keeps its oldest position.                  *)
PushForgetsHead(r, b) ==
    [buf  |-> [r.buf EXCEPT ![(r.head + r.len) % Capacity] = b],
     head |-> r.head,
     len  |-> IF r.len < Capacity THEN r.len + 1 ELSE r.len]

(* The body of push_slice's loop: one byte, over the oldest one when full. *)
Push(r, b) ==
    [buf  |-> [r.buf EXCEPT ![(r.head + r.len) % Capacity] = b],
     head |-> IF r.len < Capacity THEN r.head ELSE (r.head + 1) % Capacity,
     len  |-> IF r.len < Capacity THEN r.len + 1 ELSE r.len]

LastOf(s, n) == SubSeq(s, Len(s) - n + 1, Len(s))

(* The ring after the bytes of d, one by one.                              *)
PushAll(r, d) ==
    LET after[i \in 0..Len(d)] == IF i = 0 THEN r ELSE Push(after[i - 1], d[i])
    IN  after[Len(d)]

(* Broken variant: the first Capacity bytes of a long slice are kept.      *)
PushSliceHead(r, data) ==
    PushAll(r, IF Len(data) > Capacity THEN SubSeq(data, 1, Capacity) ELSE data)

(* push_slice: of more than a ringful only the last Capacity bytes matter. *)
push_slice(r, data) ==
    PushAll(r, IF Len(data) > Capacity THEN LastOf(data, Capacity) ELSE data)

(* Broken variant: the wrapped part is left out.                           *)
ReplayFirstOnly(r) ==
    [i \in 1..(IF r.head + r.len =< Capacity THEN r.len ELSE Capacity - r.head)
        |-> r.buf[r.head + i - 1]]

(* replay_to_fd: one write from head, and a second one from the start of   *)
(* the buffer when the valid bytes wrap.                                   *)
replay_to_fd(r) ==
    IF r.head + r.len =< Capacity
    THEN [i \in 1..r.len |-> r.buf[r.head + i - 1]]
    ELSE [i \in 1..(Capacity - r.head) |-> r.buf[r.head + i - 1]]
            \o [i \in 1..(r.len - (Capacity - r.head)) |-> r.buf[i - 1]]

(* The invariant that ties a ring to the bytes s pushed into it so far.    *)
Holds(r, s) ==
    /\ r.len = IF Len(s) < Capacity THEN Len(s) ELSE Capacity
    /\ \A i \in 0..(r.len - 1) :
          r.buf[(r.head + i) % Capacity] = s[Len(s) - r.len + 1 + i]
=============================================================================
