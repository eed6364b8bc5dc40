---------------------------- MODULE OrderedBatch ----------------------------
(***************************************************************************)
(* What --refine promises about the output, whatever runs in parallel and  *)
(* whatever fails: every function gets exactly one text, its refined one   *)
(* or its own pseudo-code, and the texts are printed once, in the order of *)
(* the functions.                                                          *)
(***************************************************************************)
EXTENDS Integers, Sequences

CONSTANT N          \* number of functions; they are 1..N

VARIABLES
    text,           \* per function "open", "raw" or "refined"
    printed         \* the output, a sequence of [fn, kind]

batchVars == <<text, printed>>

BatchInit ==
    /\ text = [i \in 1..N |-> "open"]
    /\ printed = <<>>

\* Some functions get their text; what is decided is never changed.
Decide ==
    /\ text' \in [1..N -> {"open", "raw", "refined"}]
    /\ \A i \in 1..N : text[i] # "open" => text'[i] = text[i]
    /\ UNCHANGED printed

Publish ==
    /\ \A i \in 1..N : text[i] # "open"
    /\ printed = <<>>
    /\ printed' = [i \in 1..N |-> [fn |-> i, kind |-> text[i]]]
    /\ UNCHANGED text

BatchSpec == BatchInit /\ [][Decide \/ Publish]_batchVars

=============================================================================
