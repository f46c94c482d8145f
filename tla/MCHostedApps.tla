---------------------------- MODULE MCHostedApps ----------------------------
(***************************************************************************)
(* Instances of HostedApps for TLC: enough requests for the longest task   *)
(* of an application, with a wrong turn before it where that is cheap.     *)
(***************************************************************************)
EXTENDS HostedApps

SmallRequests ==
    [a \in {"notes-lite", "calendar-lite", "inbox-lite", "sheets-lite", "wiki-lite",
            "repo-lite", "shopping-lite", "forum-lite"} |->
        CASE a \in {"inbox-lite", "calendar-lite"} -> 5
          [] a = "shopping-lite" -> 3
          [] OTHER -> 4]
=============================================================================
