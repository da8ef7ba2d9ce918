--------------------------- MODULE ResumeRetryMC ---------------------------
(***************************************************************************)
(* ResumeRetry on a small instance.                                        *)
(***************************************************************************)
EXTENDS ResumeRetry

\* Awake already, or at any time up to some while after the timeout.
Waking == 0..(ResumeTimeout + 3 * MaxBackoff)

=============================================================================
