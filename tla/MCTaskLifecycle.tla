--------------------------- MODULE MCTaskLifecycle ---------------------------
(***************************************************************************)
(* Instances of TaskLifecycle for TLC: the client starts task t over and   *)
(* over, as a chat session does; a retry of t runs as tr.                  *)
(***************************************************************************)
EXTENDS TaskLifecycle, TLC

CONSTANTS t, tr

MCTaskIds == {t, tr}
MCStartIds == {t}
MCRetryId == t :> tr
==============================================================================
