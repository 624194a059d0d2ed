--------------------------------- MODULE Pages ---------------------------------
(***************************************************************************)
(* Three pages that have nothing to tell each other: the plot editor       *)
(* (/plot), the chat (/dashboard/chat) and the reset of a password         *)
(* (/forgot-password, /reset-password).  A page keeps its state in its     *)
(* components; to go to another page mounts that one anew.                 *)
(***************************************************************************)
EXTENDS PlotView, ChatPrompt, PasswordReset

VARIABLE page

\* What a page not mounted would start with makes no difference.
PagesInit ==
  /\ VInit /\ PInit /\ RInit /\ page \in {"plot", "chat", "reset"}
  /\ page = "plot" \/ ~loading
  /\ page = "chat" \/ ~provider

PagesNext ==
  \/ page = "plot" /\ VNext /\ UNCHANGED <<page, pvars, rvars>>
  \/ page = "chat" /\ PNext /\ UNCHANGED <<page, vvars, rvars>>
  \/ page = "reset" /\ RNext /\ UNCHANGED <<page, vvars, pvars>>

PagesSpec == PagesInit /\ [][PagesNext]_<<page, vvars, pvars, rvars>>
=============================================================================
