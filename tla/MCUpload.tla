------------------------------- MODULE MCUpload -------------------------------
(***************************************************************************)
(* Instances of UploadPipeline for TLC.  Two files and one or two          *)
(* connections; the limits 1 and 2 are the ones that files compete for,    *)
(* and 11 is out of range: 3 on the server, 10 in the browser.             *)
(***************************************************************************)
EXTENDS UploadPipeline, TLC

\* Files are interchangeable, and so are connections; the safety run uses it.
UploadSymmetry == Permutations(Jobs) \cup Permutations(Conns)

================================================================================
