----------------------------- MODULE MCPlatform -----------------------------
(***************************************************************************)
(* Notifications and Sessions share no state.  They are checked in one     *)
(* run: `focus` picks the one that moves, the other stays as it began.     *)
(*                                                                         *)
(* Notifications: one Slack message, two callers and two workers.          *)
(* Sessions: each scenario starts from an account and lets a group of      *)
(* handlers run, one at a time or two together, so that the state spaces   *)
(* of the scenarios add up instead of multiplying.                         *)
(***************************************************************************)
EXTENDS Notifications, Sessions, TLC

CONSTANTS u1, dm, c1, c2, w1, w2, staff, admin, p1, p2

VARIABLE focus

ToOneUser == dm :> u1
BySlack == dm :> "slack"

Active == [NoUser EXCEPT !.status = "ACTIVE", !.password = TRUE, !.changed = 1, !.roles = {staff}]
WithMfa == [Active EXCEPT !.mfa = TRUE, !.secret = 1, !.codes = {1}]

Scene(account, slots, requests, dies, ops) ==
    [account |-> account, procs |-> slots, requests |-> requests, dies |-> dies, ops |-> ops]

MCScenarios ==
    { Scene(Active, {p1}, 5, TRUE, {"login", "refresh", "logout", "logoutAll", "change"}),
      Scene(Active, {p1}, 5, FALSE, {"login", "forgot", "reset", "refresh"}),
      Scene(WithMfa, {p1}, 5, TRUE, {"login", "verifyMfa", "mfa", "forgot", "reset"}),
      Scene(Active, {p1}, 6, FALSE, {"login", "mfa", "recover"}),
      Scene(NoUser, {p1}, 5, FALSE, {"invite", "acceptInvite", "login", "admin"}),
      Scene(Active, {p1}, 5, FALSE, {"login", "request", "mfa", "change", "admin", "role"}),
      Scene(Active, {p1, p2}, 4, FALSE, {"login", "refresh", "logout", "logoutAll", "change"}),
      Scene(Active, {p1, p2}, 3, FALSE, {"login", "request", "admin", "role"}) }

(* A request of a login that is edited meanwhile.                          *)
MCOverlap == { Scene(Active, {p1, p2}, 3, FALSE, {"login", "request", "admin"}) }

MCInit ==
    /\ NotificationsInit /\ Init
    /\ focus \in {"notifications", "sessions"}
    /\ focus = "notifications" => scenario.account = Active /\ scenario.dies

MCNext ==
    \/ focus = "notifications" /\ NotificationsNext /\ UNCHANGED <<vars, focus>>
    \/ focus = "sessions" /\ Next /\ UNCHANGED <<notifications, focus>>

(* No fair action is enabled before notifications have moved.              *)
MCSpec == MCInit /\ [][MCNext]_<<notifications, vars, focus>> /\ NotificationsFairness
=============================================================================
