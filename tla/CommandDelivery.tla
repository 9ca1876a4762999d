--------------------------- MODULE CommandDelivery ---------------------------
(***************************************************************************)
(* What Home Assistant (HA) may expect of the panel: an abstract           *)
(* specification of commands and their fate, without rooms, sweeps, polls, *)
(* clocks, frames or a bus.                                                *)
(*                                                                         *)
(* A thing (a lamp, a fan's speed, a gas valve, the elevator) is wanted at *)
(* some value and its command is pending until something settles it.  The  *)
(* panel may try a pending command a bounded number of times; it may stop  *)
(* before that only because HA is told what HA wants.                      *)
(***************************************************************************)
EXTENDS Integers

CONSTANTS
    Things,     \* what HA can command
    Values,     \* the values it can want, and be told
    Firm,       \* the things whose command only the wanted value settles
    Once,       \* the things that are called once and not waited for
    Limit       \* tries beyond the first that one command is worth

VARIABLES
    wanted,     \* wanted[t]: the newest command
    pending,    \* the things whose command is not settled
    asked,      \* asked[t]: commands since t was last settled
    tried,      \* tried[t]: tries since t was last settled
    told        \* told[t]: what HA was told last

vars == <<wanted, pending, asked, tried, told>>

Init ==
    /\ wanted \in [Things -> Values]
    /\ pending = {}
    /\ asked = [t \in Things |-> 0]
    /\ tried = [t \in Things |-> 0]
    /\ told = wanted

\* The commands for T no longer wait, and their account is closed.
Settle(T) ==
    /\ pending' = pending \ T
    /\ asked' = [t \in Things |-> IF t \in T THEN 0 ELSE asked[t]]
    /\ tried' = [t \in Things |-> IF t \in T THEN 0 ELSE tried[t]]

\* HA may be told at once what was commanded, before any device knows.
Wish(T) ==
    /\ wanted' \in [Things -> Values]
    /\ \A t \in Things \ T : wanted'[t] = wanted[t]
    /\ told' \in [Things -> Values]
    /\ \A t \in Things : told'[t] \in {told[t], wanted'[t]}

\* One command may set several things: a fan has a mode and a speed.
Command(T) ==
    /\ Wish(T)
    /\ pending' = pending \cup T
    /\ asked' = [t \in Things |-> IF t \in T THEN asked[t] + 1 ELSE asked[t]]
    /\ UNCHANGED tried

\* The elevator need not be told that it is not wanted.
Cancel(t) ==
    /\ t \in Once
    /\ Wish({t})
    /\ Settle({t})

Try(t) ==
    /\ t \in pending \ Once
    /\ tried[t] < asked[t] + Limit
    /\ tried' = [tried EXCEPT ![t] = @ + 1]
    /\ UNCHANGED <<wanted, pending, asked, told>>

Call(t) ==
    /\ t \in pending \cap Once
    /\ Settle({t})
    /\ UNCHANGED <<wanted, told>>

\* HA is told something, and told so the commands for T are settled.
Tell(T) ==
    /\ told' \in [Things -> Values]
    /\ \A t \in T \cap Firm : told'[t] = wanted[t]
    /\ Settle(T)
    /\ UNCHANGED wanted

GiveUp(t) ==
    /\ t \in pending
    /\ tried[t] > Limit
    /\ Settle({t})
    /\ UNCHANGED <<wanted, told>>

Next ==
    \/ \E T \in SUBSET Things : Command(T) \/ Tell(T)
    \/ \E t \in Things : Cancel(t) \/ Try(t) \/ Call(t) \/ GiveUp(t)

Spec == Init /\ [][Next]_vars
=============================================================================
