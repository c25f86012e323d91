----------------------------- MODULE MCSshManager -----------------------------
(***************************************************************************)
(* Instances of SshManager for TLC.                                        *)
(***************************************************************************)
EXTENDS SshManager, TLC

\* Connections are interchangeable; the safety runs use it.
ConnSymmetry == Permutations(Conns)

================================================================================
