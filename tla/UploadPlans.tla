---------------------------- MODULE UploadPlans -----------------------------
(***************************************************************************)
(* The upload contract of FileUpload with the sizes of its parts: an       *)
(* intent plans and signs by PartPlan, whose sizes FileUpload leaves out.  *)
(***************************************************************************)
EXTENDS FileUpload, PartPlan

\* A multipart upload may be open for a file of any size above the threshold:
\* whatever that size, planParts has not thrown, the parts it signs are the
\* file, and there is something to resume from.
OpenUploadsPlanned == \A f \in Files : upload[f] = "open" => PlanSound

=============================================================================
