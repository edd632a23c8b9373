--------------------------- MODULE ConfigRegister ---------------------------
(***************************************************************************)
(* What the runtime configuration store promises to the Companion and to   *)
(* the next boot: one register.  A request names some of its fields; it    *)
(* takes effect as a whole or not at all, leaves the fields it does not    *)
(* name as they were, and is only answered "ok" once it has taken effect.  *)
(* A power loss forgets the request, never the register.                   *)
(*                                                                         *)
(* Slots, pages, generations and checksums do not appear.                  *)
(***************************************************************************)
CONSTANTS
    Values,        \* what the register can hold
    Requests,      \* [keeps |-> fields not named, to |-> values of the others]
    Factory,       \* stands for the fields not named while nothing is stored
    None           \* nothing stored, nothing asked

VARIABLES stored, asked, answer

rvars == <<stored, asked, answer>>

Base(s) == IF s = None THEN Factory ELSE s

\* The register after request r.
Merge(s, r) ==
    [main    |-> IF "main"    \in r.keeps THEN Base(s).main    ELSE r.to.main,
     balance |-> IF "balance" \in r.keeps THEN Base(s).balance ELSE r.to.balance,
     rate    |-> IF "rate"    \in r.keeps THEN Base(s).rate    ELSE r.to.rate,
     cold    |-> IF "cold"    \in r.keeps THEN Base(s).cold    ELSE r.to.cold]

RInit == stored \in Values \cup {None} /\ asked = None /\ answer = "none"

Ask ==
    /\ asked = None
    /\ asked' \in Requests
    /\ answer' = "none"
    /\ UNCHANGED stored

Apply ==
    /\ asked # None
    /\ stored' = Merge(stored, asked)
    /\ UNCHANGED <<asked, answer>>

Reply ==
    /\ asked # None
    /\ asked' = None
    /\ \/ answer' = "ok" /\ stored = Merge(stored, asked)
       \/ answer' \in {"denied", "invalid"}
    /\ UNCHANGED stored

\* The supply may fail before or after the request has taken effect.
PowerLoss ==
    /\ asked' = None
    /\ answer' = "none"
    /\ \/ UNCHANGED stored
       \/ asked # None /\ stored' = Merge(stored, asked)

RNext == Ask \/ Apply \/ Reply \/ PowerLoss

RSpec == RInit /\ [][RNext]_rvars
=============================================================================
