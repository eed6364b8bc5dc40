--------------------------- MODULE MCExternalTool ---------------------------
(***************************************************************************)
(* Instances of ExternalTool for TLC.                                      *)
(***************************************************************************)
EXTENDS ExternalTool

\* Outputs up to three chunks in every order, against pipes of one chunk.
Writes == UNION {[1..n -> Streams] : n \in 0..3}

AllPlans == [capture : BOOLEAN, writes : Writes,
             speed : {"fast", "slow", "never"},
             helper : {"none", "brief", "lasting"}]

\* A tool that does not end in time and whose helper keeps the pipes open.
SurvivingHelper == {[capture |-> TRUE, writes |-> <<"stdout">>,
                     speed |-> "never", helper |-> "lasting"]}

=============================================================================
