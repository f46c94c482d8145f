----------------------------- MODULE HostedApps -----------------------------
(***************************************************************************)
(* The hosted applications side by side: a session is one of one           *)
(* application (app-registry.ts of hosted-sites), from its first request   *)
(* to the result the orchestrator stores for it.                           *)
(***************************************************************************)
EXTENDS Naturals, Sequences

CONSTANT
    Requests    \* by application, a bound on the accepted requests of a session

ASSUME RequestsAssumption ==
    Requests \in [{"notes-lite", "calendar-lite", "inbox-lite", "sheets-lite",
                   "wiki-lite", "repo-lite", "shopping-lite", "forum-lite"} -> Nat]

Apps == DOMAIN Requests

VARIABLES app, task, work, open, finishing, result, log

vars == <<app, task, work, open, finishing, result, log>>

Notes == INSTANCE NotesLite WITH MaxRequests <- Requests["notes-lite"]
Calendar == INSTANCE CalendarLite WITH MaxRequests <- Requests["calendar-lite"]
Inbox == INSTANCE InboxLite WITH MaxRequests <- Requests["inbox-lite"]
Sheets == INSTANCE SheetsLite WITH MaxRequests <- Requests["sheets-lite"]
Wiki == INSTANCE WikiLite WITH MaxRequests <- Requests["wiki-lite"]
Repo == INSTANCE RepoLite WITH MaxRequests <- Requests["repo-lite"]
Shopping == INSTANCE ShoppingLite WITH MaxRequests <- Requests["shopping-lite"]
Forum == INSTANCE ForumLite WITH MaxRequests <- Requests["forum-lite"]

Init ==
    \/ app = "notes-lite" /\ Notes!Init
    \/ app = "calendar-lite" /\ Calendar!Init
    \/ app = "inbox-lite" /\ Inbox!Init
    \/ app = "sheets-lite" /\ Sheets!Init
    \/ app = "wiki-lite" /\ Wiki!Init
    \/ app = "repo-lite" /\ Repo!Init
    \/ app = "shopping-lite" /\ Shopping!Init
    \/ app = "forum-lite" /\ Forum!Init

Next ==
    /\ \/ app = "notes-lite" /\ Notes!Next
       \/ app = "calendar-lite" /\ Calendar!Next
       \/ app = "inbox-lite" /\ Inbox!Next
       \/ app = "sheets-lite" /\ Sheets!Next
       \/ app = "wiki-lite" /\ Wiki!Next
       \/ app = "repo-lite" /\ Repo!Next
       \/ app = "shopping-lite" /\ Shopping!Next
       \/ app = "forum-lite" /\ Forum!Next
    /\ UNCHANGED app

Spec == Init /\ [][Next]_vars

-----------------------------------------------------------------------------
(* What the agent's requests deserve, read off their history alone. *)
Deserved ==
    CASE app = "notes-lite" -> Notes!Deserved
      [] app = "calendar-lite" -> Calendar!Deserved
      [] app = "inbox-lite" -> Inbox!Deserved
      [] app = "sheets-lite" -> Sheets!Deserved
      [] app = "wiki-lite" -> Wiki!Deserved
      [] app = "repo-lite" -> Repo!Deserved
      [] app = "shopping-lite" -> Shopping!Deserved
      [] app = "forum-lite" -> Forum!Deserved

(* The type invariant: the state of every application and the envelope of  *)
(* its session.                                                            *)
TypeOK ==
    /\ app \in Apps
    /\ Notes!TypeOfEnvelope
    /\ Len(log) <= Requests[app]
    /\ app = "notes-lite" => Notes!TypeOfWork
    /\ app = "calendar-lite" => Calendar!TypeOfWork
    /\ app = "inbox-lite" => Inbox!TypeOfWork
    /\ app = "sheets-lite" => Sheets!TypeOfWork
    /\ app = "wiki-lite" => Wiki!TypeOfWork
    /\ app = "repo-lite" => Repo!TypeOfWork
    /\ app = "shopping-lite" => Shopping!TypeOfWork
    /\ app = "forum-lite" => Forum!TypeOfWork

(* A session passes only if the agent's requests did what the question     *)
(* asks for: neither copies, nor the order of requests, nor an actor's     *)
(* update, nor a recovery between them makes an undeserved pass.           *)
PassIsDeserved == [][result = "none" /\ result' = "passed" => Deserved]_vars

(* And a session that is judged to have failed had not done it.            *)
FailIsDeserved == [][result = "none" /\ result' = "failed" => ~Deserved]_vars

(* What the agent did is kept: only an accepted request changes the work,  *)
(* a recovery from the latest snapshot does not (data-flow.md:220).        *)
RecoveryKeepsWork == [][log' = log => work' = work]_vars
=============================================================================
