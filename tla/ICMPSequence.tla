---------------------------- MODULE ICMPSequence ----------------------------
(***************************************************************************)
(* What getICMPSequence promises its callers (icmp.go): an atomic          *)
(* fetch-and-increment of one process-wide counter of 2^SeqWidth values.   *)
(* Each caller gets the new value of the counter and keeps it as the Seq   *)
(* of its echo request until its probe returns.                            *)
(***************************************************************************)
EXTENDS Naturals

CONSTANTS
  Probes,     \* callers, model values
  SeqWidth,   \* bit width of the counter
  NoSeq       \* a caller that holds no value

SeqMod == 2 ^ SeqWidth

VARIABLES
  counter,    \* the counter
  got         \* the value each caller holds, or NoSeq

Init ==
  /\ counter = 0
  /\ got = [p \in Probes |-> NoSeq]

(* One atomic call: the counter steps by one, wrapping, and the caller     *)
(* receives the new value.                                                 *)
Draw(p) ==
  /\ got[p] = NoSeq
  /\ counter' = (counter + 1) % SeqMod
  /\ got' = [got EXCEPT ![p] = counter']

(* The caller's probe returns and the value is dropped. *)
Release(p) ==
  /\ got[p] # NoSeq
  /\ got' = [got EXCEPT ![p] = NoSeq]
  /\ UNCHANGED counter

Next == \E p \in Probes : Draw(p) \/ Release(p)

Spec == Init /\ [][Next]_<<counter, got>>

=============================================================================
