---------------------------- MODULE RoundService ----------------------------
(***************************************************************************)
(* What boot_diag.c promises the main loop: a request made while no round   *)
(* is under way starts one, a request made during a round is ignored, and   *)
(* every round ends.  BootRound implements this module, Panel builds on it. *)
(***************************************************************************)
VARIABLES
    phase,    \* boot_diag_phase(), with the phases of a pass as one: "RUN"
    request   \* s_request

serviceVars == <<phase, request>>

ServiceInit == phase = "IDLE" /\ request = FALSE

(* boot_diag_start returns early during a round.                            *)
Ask == phase # "RUN" /\ request' = TRUE /\ UNCHANGED phase

Begin == phase # "RUN" /\ request /\ phase' = "RUN" /\ request' = FALSE
End   == phase = "RUN" /\ phase' = "DONE" /\ UNCHANGED request

ServiceNext   == Ask \/ Begin \/ End
ServiceSafety == ServiceInit /\ [][ServiceNext]_serviceVars
ServiceSpec   == ServiceSafety /\ WF_serviceVars(Begin \/ End)
=============================================================================
