------------------------------ MODULE CloudJob ------------------------------
(***************************************************************************)
(* What the options of a job of the cloud mean for the engine              *)
(* (oas/converter.go, and the readers of JobData.MitigationInfo).  Both    *)
(* options arrive as JSON that the user wrote: they may be absent, null,   *)
(* or an object with or without the member that matters.                   *)
(***************************************************************************)

\* The member transpiler_lib: missing, null, the name of the one library the
\* engine accepts, another name, or a value that is not a string.
TranspilerInfos == {"absent", "null", "noLib", "nullLib", "qiskit",
                    "otherLib", "notAString"}

useTranspiler(ti) == ti # "nullLib"

useDefaultTranspiler(ti) == ti \in {"absent", "null", "noLib"}

\* A value that cannot be decoded leaves an empty configuration.
ConvertToTranspilerInfo(ti) == IF ti = "notAString" THEN "nil" ELSE ti

\* TranspilerConfig.TranspilerLib; "nil" stands for the nil pointer.
TranspilerLib(ti) ==
    IF ~useTranspiler(ti) THEN "nil"
    ELSE IF useDefaultTranspiler(ti) THEN "qiskit"
    ELSE ConvertToTranspilerInfo(ti)

\* The default is written back to the cloud, where the user finds it.
NeedsUpdateTranspilerInfo(ti) == useTranspiler(ti) /\ useDefaultTranspiler(ti)

NeedTranspiling(lib) == lib # "nil"

IsAcceptableTranspilerLib(lib) == lib = "qiskit"

\* validateJobParam of package core: the job is made, or an UnknownJob in its
\* place.  The shots are looked at for a job of type normal only, which no job
\* of the cloud is.
PassesValidation(ti) ==
    TranspilerLib(ti) = "nil" \/ IsAcceptableTranspilerLib(TranspilerLib(ti))

-----------------------------------------------------------------------------
\* The member ro_error_mitigation: missing, or a value with its JSON text.
MitigationInfos == {"absent", "null", "noMember", "pseudo_inverse",
                    "nullMember", "otherMember"}

\* The text of a JSON string has its quotes.
JsonText(mi) ==
    CASE mi = "pseudo_inverse" -> "\"pseudo_inverse\""
      [] mi = "nullMember"     -> "null"
      [] OTHER                 -> "\"otherMember\""

\* The string the engine keeps under the member; "" when it is missing.
ConvertToMitigationInfo(mi) ==
    IF mi \in {"absent", "null", "noMember"} THEN "" ELSE JsonText(mi)

\* NewMitigationInfoFromJobData and, with the same text, the post-processing
\* of a sampling job.
NeedToBeMitigated(text) == text = "\"pseudo_inverse\""

\* The post-processing of an estimation job has a text of its own.
ShouldMitigateEstimation(text) == text = "pseudo_inverse"
=============================================================================
