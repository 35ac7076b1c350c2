------------------------------ MODULE Handoff ------------------------------
(***************************************************************************)
(* What the encrypted session promises the lock behind it, without saying  *)
(* how: of the IV generations offered to keypads, a few may still execute  *)
(* a command.  The newest may execute any, and then is the only one left;  *)
(* of the older ones one at a time survives an offer, for a single late    *)
(* command.  A generation that lost its turn never gets it back.           *)
(*                                                                         *)
(* LockSession implements it (LockSession!ImplementsHandoff): contexts,    *)
(* slots, connections, polls and the replay window are the means.          *)
(***************************************************************************)
EXTENDS Integers, Sequences

CONSTANTS
  Commands,       \* what a keypad can ask for, besides polling
  LateCommands    \* those still taken from an older generation

VARIABLES
  newest,   \* the number of generations offered so far
  live,     \* the generations that may still execute a command
  log       \* the commands executed, each with its generation, in order

vars == <<newest, live, log>>

Init == newest = 0 /\ live = {} /\ log = <<>>

\* A new generation is offered; at most one older one stays.
Offer ==
  /\ newest' = newest + 1
  /\ \E kept \in SUBSET live :
       (\A g, h \in kept : g = h) /\ live' = kept \cup {newest'}
  /\ UNCHANGED log

\* Generations lose their turn: a boundary, a spent allowance.
Withdraw ==
  /\ live' \in SUBSET live
  /\ UNCHANGED <<newest, log>>

Executed(g, c) == log' = Append(log, [iv |-> g, command |-> c])

ExecuteNewest ==
  /\ newest \in live
  /\ \E c \in Commands : Executed(newest, c)
  /\ live' = {newest}
  /\ UNCHANGED newest

ExecuteLate(g) ==
  /\ g \in live /\ g < newest
  /\ \E c \in LateCommands : Executed(g, c)
  /\ live' = live \ {g}
  /\ UNCHANGED newest

Next == Offer \/ Withdraw \/ ExecuteNewest \/ \E g \in live : ExecuteLate(g)

Spec == Init /\ [][Next]_vars
=============================================================================
