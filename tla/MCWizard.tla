------------------------------ MODULE MCWizard ------------------------------
(* A small instance of Wizard for TLC. *)
EXTENDS Wizard

CONSTANTS k1, k2, l1

MCKeypads == {k1, k2}
MCLocks == {l1}

\* Behaviours in which a job takes longer than a pass of the loop, and does not
\* outlast the idle timeout of the request that preceded it.
Running == {k \in Kinds : job[k].state = "RUNNING"}
JobsTakeTime == Running \ Running' # {} => pc = "rest"
JobsAreShort ==
  now' # now /\ server /\ Running # {} => (now' - last_activity) % Wrap < IdleTimeout
TimelyNext == Next /\ JobsTakeTime /\ JobsAreShort
TimelySpec == Init /\ [][TimelyNext]_vars /\ Fairness
=============================================================================
