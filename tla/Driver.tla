------------------------------- MODULE Driver -------------------------------
(***************************************************************************)
(* main of src/src/main.rs: a file is decoded and its graph is built; with *)
(* --decompile an external tool then turns LLVM IR into C, with --refine   *)
(* the pseudo-code of the functions is refined in parallel, with --llvm    *)
(* nothing follows that fails or waits.  A file that cannot be decoded     *)
(* ends the program.                                                       *)
(***************************************************************************)
EXTENDS CfgBuild, ExternalTool, RefineBatch

VARIABLES
    output_mode,    \* "PseudoCode", "LlvmIr" or "Decompile"
    enable_refine

optionVars == <<output_mode, enable_refine>>

driverVars == <<allVars, vars, refineVars, optionVars>>

DriverInit ==
    /\ CInit
    /\ Init
    /\ RInit
    /\ output_mode \in {"PseudoCode", "LlvmIr", "Decompile"}
    /\ enable_refine \in BOOLEAN

LoadFile == CNext /\ UNCHANGED <<vars, refineVars, optionVars>>

-----------------------------------------------------------------------------
(* --decompile: decompile::decompile calls the tool of a backend. *)

Decompiling == phase = "built" /\ output_mode = "Decompile"

DecompileStep(A) == Decompiling /\ A /\ UNCHANGED <<allVars, refineVars, optionVars>>

CallerStep == DecompileStep(Caller)
ReaderStep(s) == DecompileStep(Reader(s))
ToolStep == DecompileStep(Tool)
HelperStep == DecompileStep(HelperExit)
FailureStep == DecompileStep(Failure)

-----------------------------------------------------------------------------
(* --refine without --llvm or --decompile, which return before it. *)

Refining == phase = "built" /\ output_mode = "PseudoCode" /\ enable_refine

RefineStep(A) == Refining /\ A /\ UNCHANGED <<allVars, vars, optionVars>>

MainStep == RefineStep(Main)
ThreadStep(i) == RefineStep(Thread(i))

-----------------------------------------------------------------------------
DriverNext ==
    \/ LoadFile
    \/ CallerStep \/ (\E s \in Streams : ReaderStep(s)) \/ ToolStep \/ HelperStep \/ FailureStep
    \/ MainStep \/ (\E i \in Fns : ThreadStep(i))

\* The threads and processes of the parts run as in the specifications of
\* these; nothing that is claimed rests on when a file has been loaded.
DriverFairness ==
    /\ WF_driverVars(CallerStep)
    /\ \A s \in Streams : WF_driverVars(ReaderStep(s))
    /\ WF_driverVars(ToolStep)
    /\ WF_driverVars(HelperStep)
    /\ WF_driverVars(MainStep)
    /\ \A i \in Fns : WF_driverVars(ThreadStep(i))

DriverSpec == DriverInit /\ [][DriverNext]_driverVars /\ DriverFairness

=============================================================================
