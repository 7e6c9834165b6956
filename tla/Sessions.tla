------------------------------ MODULE Sessions ------------------------------
(***************************************************************************)
(* Signing in (AuthService, TokenService, MfaService, UsersService) and    *)
(* the cached login the guards read (RbacService, JwtAuthGuard), for one   *)
(* login: everything is keyed by user id.  Handlers are split at their     *)
(* awaits: a handler in flight is the list of the steps it has left, with  *)
(* the user row it loaded, which its saves write back in full.             *)
(*                                                                         *)
(* A tick is the second of JWTs and passwordChangedAt and the time step of *)
(* authenticator codes; times to live are scaled down to a few ticks.      *)
(* Names, e-mails, device data, the audit rows and the passwords           *)
(* themselves are left out: a presented password is right or wrong.        *)
(***************************************************************************)
EXTENDS Integers, Sequences, FiniteSets

CONSTANTS
    Roles,          \* role names
    SystemRoles,    \* those that cannot be deleted
    MfaRoles,       \* MFA_REQUIRED_ROLES
    Permissions,    \* the permission catalogue
    MaxAttempts,    \* LOGIN_MAX_ATTEMPTS
    LockTime,       \* LOGIN_LOCKOUT_MINUTES
    AccessTtl,      \* JWT_ACCESS_TTL
    RefreshTtl,     \* JWT_REFRESH_TTL
    OneTimeTtl,     \* ONE_TIME_TOKEN_TTL_MS
    ChallengeTtl,   \* MFA_CHALLENGE_TTL_SECONDS
    Window,         \* MFA_TOTP_WINDOW
    Procs,          \* handlers that may be in flight together
    Scenarios,      \* which handlers run, in how many slots, from which account
    MaxTime, MaxTokens, MaxOneTime, MaxSecrets   \* bounds

VARIABLES
    user,       \* the row of users
    roles,      \* permissions of each role; NoRole when it does not exist
    tokens,     \* refresh_tokens, in order of creation
    oneTime,    \* one_time_tokens, in order of creation
    cache,      \* auth:user:<id> in Redis; Miss when absent
    denied,     \* when auth:revoked-session:<family> expires
    access,     \* unexpired access tokens clients hold
    challenge,  \* when the latest MFA challenge expires
    now,        \* the clock
    secrets,    \* authenticator seeds and recovery codes made so far
    procs,      \* handlers in flight
    scenario,   \* the scenario of this behaviour
    left,       \* requests that may still be made
    signedOut,  \* history: access tokens whose session was denied
    ended,      \* history: families a finished password change found live
    accepted,   \* history: second-factor codes spent
    reused,     \* history: codes spent twice
    barred      \* history: until when failures have locked the login

redis == <<cache, denied>>
clients == <<access, challenge>>
history == <<signedOut, ended, accepted, reused, barred>>
rows == <<user, roles, tokens, oneTime, secrets>>
vars == <<rows, redis, clients, now, procs, scenario, left, history>>

UserRow ==
    [status : {"NONE", "INVITED", "ACTIVE", "SUSPENDED"}, password : BOOLEAN,
     changed : 0..MaxTime, mfa : BOOLEAN, secret : 0..MaxSecrets, lastStep : Int,
     codes : SUBSET (1..MaxSecrets), attempts : 0..MaxAttempts - 1, locked : Nat,
     roles : SUBSET Roles]

(* The seed and the recovery codes of an account a scenario begins with    *)
(* are among those made so far.                                            *)
ASSUME SessionsAssumption ==
    /\ SystemRoles \subseteq Roles /\ MfaRoles \subseteq Roles
    /\ {MaxAttempts, LockTime, AccessTtl, RefreshTtl, OneTimeTtl, ChallengeTtl, MaxTime}
           \subseteq Nat \ {0}
    /\ {Window, MaxTokens, MaxSecrets} \subseteq Nat
    /\ \A s \in Scenarios :
           /\ IsFiniteSet(s.procs)
           /\ s.account \in UserRow /\ s.account.codes \subseteq 1..s.account.secret

NoRole == {"deleted"}
Miss == [status |-> "MISS", changed |-> 0, mfa |-> FALSE, mfaDue |-> FALSE, permissions |-> {}]
NoUser == [status |-> "NONE", password |-> FALSE, changed |-> 0, mfa |-> FALSE, secret |-> 0,
           lastStep |-> -1, codes |-> {}, attempts |-> 0, locked |-> 0, roles |-> {}]

RefreshToken == [family : 1..MaxTokens, expires : Nat, revoked : BOOLEAN, given : BOOLEAN]
OneTimeToken == [type : {"INVITE", "PASSWORD_RESET"}, used : BOOLEAN, expires : Nat]

IsUsable(t) == ~oneTime[t].used /\ oneTime[t].expires > now
IsExpired(t) == tokens[t].expires <= now
IsLocked(row) == row.locked > now
CanLogin(row) == row.status = "ACTIVE"

Idle == [todo |-> <<>>, row |-> NoUser, token |-> 0, families |-> {}, ctx |-> Miss,
         code |-> <<>>, perms |-> NoRole, role |-> "none", at |-> 0]

Existing == {r \in Roles : roles[r] # NoRole}

-----------------------------------------------------------------------------
(* The login as the guards see it.                                         *)
Context(row) ==
    [status |-> row.status, changed |-> row.changed, mfa |-> row.mfa,
     mfaDue |-> row.roles \cap MfaRoles # {},
     permissions |-> UNION {roles[r] : r \in row.roles}]

(* JwtAuthGuard: signature and expiry, deny list, account, password date.  *)
Accepts(a, ctx) ==
    /\ a.issued + AccessTtl > now
    /\ denied[a.session] <= now
    /\ ctx.status = "ACTIVE"
    /\ ~(ctx.changed # 0 /\ a.issued < ctx.changed)

(* ... then second-factor enrolment, and PermissionsGuard.                 *)
Serves(a, ctx, perm) ==
    /\ Accepts(a, ctx)
    /\ ctx.mfa \/ ~ctx.mfaDue
    /\ perm \in ctx.permissions

Seen == IF cache = Miss THEN Context(user) ELSE cache
SignedIn == \E a \in access : Accepts(a, Seen)

-----------------------------------------------------------------------------
(* Handlers in flight; with one slot, requests are served one at a time.   *)
Serial == Cardinality(scenario.procs) = 1

MayStart(p, op) ==
    /\ p \in scenario.procs
    /\ procs[p] = Idle
    /\ op \in scenario.ops
    /\ left > 0 /\ left' = left - 1

Put(p, h) == procs' = [procs EXCEPT ![p] = IF h.todo = <<>> THEN Idle ELSE h]
Go(p, todo, row) == Put(p, [Idle EXCEPT !.todo = todo, !.row = row])
At(p, step) == procs[p].todo # <<>> /\ Head(procs[p].todo) = step
Rest(p) == [procs[p] EXCEPT !.todo = Tail(@)]

(* Mutant: signing out everywhere does not deny the sessions.              *)
RevokeAllRows == <<"find", "revoke">>
RevokeAll == <<"find", "revoke", "deny">>
RevokeFamily == <<"revokeFamily", "deny">>
Void == [INVITE |-> "voidInvite", PASSWORD_RESET |-> "voidReset"]
New == [INVITE |-> "newInvite", PASSWORD_RESET |-> "newReset"]
IssueOneTime(type) == <<Void[type], New[type]>>
ApplyNewPassword == <<"password">> \o RevokeAll \o <<"changed">>

(* MfaService.verify: an authenticator code of a step within the window    *)
(* that is later than the last one accepted, or an unused recovery code.   *)
(* Mutant: the last accepted step is accepted again.                       *)
VerifyTotpAgain(row) ==
    {<<"totp", row.secret, s>> : s \in {s \in (now - Window)..(now + Window) : s >= row.lastStep}}
VerifyTotp(row) ==
    {<<"totp", row.secret, s>> : s \in {s \in (now - Window)..(now + Window) : s > row.lastStep}}
Verify(row) ==
    IF row.mfa /\ row.secret # 0
    THEN VerifyTotp(row) \cup {<<"recovery", c>> : c \in row.codes}
    ELSE {}
Spent(row, code) ==
    IF code[1] = "totp" THEN [row EXCEPT !.lastStep = code[3]]
    ELSE [row EXCEPT !.codes = @ \ {code[2]}]
Cleared(row) == [row EXCEPT !.mfa = FALSE, !.secret = 0, !.lastStep = -1, !.codes = {}]

GoSpending(p, code, todo) ==
    Put(p, [Idle EXCEPT !.todo = <<"spend">> \o todo, !.row = Spent(user, code), !.code = code])

-----------------------------------------------------------------------------
(* What a request does before its first write.                             *)
Login(p) ==
    /\ MayStart(p, "login")
    /\ user.password
    /\ ~IsLocked(user)
    /\ \/ Go(p, <<"fail">>, NoUser) /\ UNCHANGED challenge
       \/ /\ CanLogin(user) /\ ~user.mfa
          /\ Go(p, <<"complete", "issue">>, user) /\ UNCHANGED challenge
       \/ /\ CanLogin(user) /\ user.mfa
          /\ challenge' = now + ChallengeTtl
          /\ UNCHANGED procs
    /\ UNCHANGED <<rows, redis, access, now, scenario, history>>

(* Mutant: the second factor does not look at the lock.                    *)
VerifyMfaLocked(p) ==
    /\ MayStart(p, "verifyMfa")
    /\ challenge > now
    /\ CanLogin(user)
    /\ \/ \E code \in Verify(user) : GoSpending(p, code, <<"complete", "issue">>)
       \/ Go(p, <<"fail">>, NoUser)
    /\ UNCHANGED <<rows, redis, clients, now, scenario, history>>

VerifyMfa(p) ==
    /\ MayStart(p, "verifyMfa")
    /\ challenge > now
    /\ ~IsLocked(user)
    /\ CanLogin(user)
    /\ \/ \E code \in Verify(user) : GoSpending(p, code, <<"complete", "issue">>)
       \/ Go(p, <<"fail">>, NoUser)
    /\ UNCHANGED <<rows, redis, clients, now, scenario, history>>

(* TokenService.rotate: a revoked token ends its family.                   *)
Refresh(p) ==
    /\ MayStart(p, "refresh")
    /\ \E t \in 1..Len(tokens) :
        /\ tokens[t].given
        /\ \/ /\ tokens[t].revoked
              /\ Put(p, [Idle EXCEPT !.todo = RevokeFamily, !.families = {tokens[t].family}])
           \/ /\ ~tokens[t].revoked /\ ~IsExpired(t) /\ Len(tokens) < MaxTokens
              /\ Put(p, [Idle EXCEPT !.todo = <<"rotate", "context", "enter">>, !.token = t])
    /\ UNCHANGED <<rows, redis, clients, now, scenario, history>>

(* logout, revokeSession: the family of a token one holds, or lists.       *)
Logout(p) ==
    /\ MayStart(p, "logout")
    /\ \E t \in 1..Len(tokens) :
        /\ tokens[t].given
        /\ Put(p, [Idle EXCEPT !.todo = RevokeFamily, !.families = {tokens[t].family}])
    /\ UNCHANGED <<rows, redis, clients, now, scenario, history>>

LogoutAll(p) ==
    /\ MayStart(p, "logoutAll")
    /\ SignedIn
    /\ Go(p, RevokeAll, NoUser)
    /\ UNCHANGED <<rows, redis, clients, now, scenario, history>>

(* createInvited saves the row, then the token is issued; resendInvite     *)
(* issues another one.                                                     *)
Invite(p) ==
    /\ MayStart(p, "invite")
    /\ \/ /\ user.status = "NONE"
          /\ user' \in {[NoUser EXCEPT !.status = "INVITED", !.roles = rs] : rs \in SUBSET Existing}
       \/ user.status = "INVITED" /\ UNCHANGED user
    /\ Go(p, IssueOneTime("INVITE"), NoUser)
    /\ UNCHANGED <<roles, tokens, oneTime, secrets, redis, clients, now, scenario, history>>

AcceptInvite(p) ==
    /\ MayStart(p, "acceptInvite")
    /\ \E t \in 1..Len(oneTime) :
        /\ oneTime[t].type = "INVITE" /\ IsUsable(t)
        /\ Put(p, [Idle EXCEPT !.todo = <<"burn", "accept">>, !.token = t])
    /\ UNCHANGED <<rows, redis, clients, now, scenario, history>>

RequestPasswordReset(p) ==
    /\ MayStart(p, "forgot")
    /\ user.status = "ACTIVE"
    /\ Go(p, IssueOneTime("PASSWORD_RESET"), NoUser)
    /\ UNCHANGED <<rows, redis, clients, now, scenario, history>>

(* peekOneTime; the link is burned only after the second factor.           *)
ResetPassword(p) ==
    /\ MayStart(p, "reset")
    /\ \E t \in 1..Len(oneTime) :
        /\ oneTime[t].type = "PASSWORD_RESET" /\ IsUsable(t)
        /\ Put(p, [Idle EXCEPT !.todo = <<"resetLoad">>, !.token = t])
    /\ UNCHANGED <<rows, redis, clients, now, scenario, history>>

ChangePassword(p) ==
    /\ MayStart(p, "change")
    /\ SignedIn /\ user.password
    /\ Go(p, ApplyNewPassword, user)
    /\ UNCHANGED <<rows, redis, clients, now, scenario, history>>

(* The break-glass command: unlock, MFA reset, sign-out everywhere, and a  *)
(* new password if one is given.                                           *)
RecoverAccount(p) ==
    /\ MayStart(p, "recover")
    /\ user.status # "NONE"
    /\ \E setPassword \in BOOLEAN :
        Go(p, <<"unlock", "release", "load", "clear", "invalidate">> \o RevokeAll
              \o (IF setPassword THEN <<"load">> \o ApplyNewPassword ELSE <<>>)
              \o <<"invalidate">>, NoUser)
    /\ UNCHANGED <<rows, redis, clients, now, scenario, history>>

(* MfaService: setup, enable, regenerateRecoveryCodes, disable, reset.     *)
BeginSetup(p) ==
    /\ MayStart(p, "mfa")
    /\ SignedIn /\ ~user.mfa /\ secrets < MaxSecrets
    /\ secrets' = secrets + 1
    /\ Go(p, <<"save">>, [user EXCEPT !.secret = secrets'])
    /\ UNCHANGED <<user, roles, tokens, oneTime, redis, clients, now, scenario, history>>

Enable(p) ==
    /\ MayStart(p, "mfa")
    /\ SignedIn /\ ~user.mfa /\ user.secret # 0 /\ secrets < MaxSecrets
    /\ secrets' = secrets + 1
    /\ \E s \in (now - Window)..(now + Window) :
        LET code == <<"totp", user.secret, s>> IN
        Put(p, [Idle EXCEPT !.todo = <<"spend", "invalidate">>, !.code = code,
                    !.row = [user EXCEPT !.mfa = TRUE, !.lastStep = s, !.codes = {secrets'}]])
    /\ UNCHANGED <<user, roles, tokens, oneTime, redis, clients, now, scenario, history>>

RegenerateRecoveryCodes(p) ==
    /\ MayStart(p, "mfa")
    /\ SignedIn /\ user.mfa /\ user.secret # 0 /\ secrets < MaxSecrets
    /\ \E code \in VerifyTotp(user) : GoSpending(p, code, <<"regenerate">>)
    /\ secrets' = secrets + 1
    /\ UNCHANGED <<user, roles, tokens, oneTime, redis, clients, now, scenario, history>>

Disable(p) ==
    /\ MayStart(p, "mfa")
    /\ SignedIn /\ user.mfa
    /\ user.roles \cap MfaRoles = {}
    /\ \E code \in Verify(user) : GoSpending(p, code, <<"clear", "invalidate">>)
    /\ UNCHANGED <<rows, redis, clients, now, scenario, history>>

ResetMfa(p) ==
    /\ MayStart(p, "admin")
    /\ user.status # "NONE"
    /\ Go(p, <<"clear", "invalidate">>, user)
    /\ UNCHANGED <<rows, redis, clients, now, scenario, history>>

(* Mutant: setStatus leaves the cached login alone.                        *)
EditUserCached(p) ==
    /\ MayStart(p, "admin")
    /\ user.status # "NONE"
    /\ \/ \E rs \in SUBSET Existing : Go(p, <<"save", "invalidate">>, [user EXCEPT !.roles = rs])
       \/ \E status \in {"ACTIVE", "SUSPENDED"} :
            /\ ~(user.status = "INVITED" /\ status = "ACTIVE")
            /\ Go(p, <<"save">>, [user EXCEPT !.status = status])
    /\ UNCHANGED <<rows, redis, clients, now, scenario, history>>

(* UsersService: updateProfile (names), setRoles, setStatus, unlock.       *)
EditUser(p) ==
    /\ MayStart(p, "admin")
    /\ user.status # "NONE"
    /\ \/ Go(p, <<"save">>, user)
       \/ \E rs \in SUBSET Existing : Go(p, <<"save", "invalidate">>, [user EXCEPT !.roles = rs])
       \/ \E status \in {"ACTIVE", "SUSPENDED"} :
            /\ ~(user.status = "INVITED" /\ status = "ACTIVE")
            /\ Go(p, <<"save", "invalidate">>, [user EXCEPT !.status = status])
       \/ Go(p, <<"release">>, [user EXCEPT !.attempts = 0, !.locked = 0])
    /\ UNCHANGED <<rows, redis, clients, now, scenario, history>>

(* RbacService: createRole, updateRole, deleteRole.  The name of a role    *)
(* that was deleted is not given away while an edit of it is in flight.    *)
EditRole(p) ==
    /\ MayStart(p, "role")
    /\ \E r \in Roles :
        \/ /\ roles[r] = NoRole /\ \A q \in Procs : procs[q].role # r
           /\ \E perms \in SUBSET Permissions : roles' = [roles EXCEPT ![r] = perms]
           /\ UNCHANGED procs
        \/ /\ r \in Existing
           /\ \E perms \in SUBSET Permissions :
                Put(p, [Idle EXCEPT !.todo = <<"saveRole", "holders", "drop">>, !.role = r,
                                    !.perms = perms])
           /\ UNCHANGED roles
        \/ /\ r \in Existing \ SystemRoles
           /\ Put(p, [Idle EXCEPT !.todo = <<"holders", "drop", "removeRole">>, !.role = r])
           /\ UNCHANGED roles
    /\ UNCHANGED <<user, tokens, oneTime, secrets, redis, clients, now, scenario, history>>

(* Any authenticated request: the guards resolve the login.                *)
Request(p) ==
    /\ MayStart(p, "request")
    /\ \E a \in access : a.issued + AccessTtl > now /\ denied[a.session] <= now
    /\ Go(p, <<"context">>, NoUser)
    /\ UNCHANGED <<rows, redis, clients, now, scenario, history>>

Ask(p) ==
    \/ Login(p) \/ VerifyMfa(p) \/ Refresh(p) \/ Logout(p) \/ LogoutAll(p)
    \/ Invite(p) \/ AcceptInvite(p) \/ RequestPasswordReset(p) \/ ResetPassword(p)
    \/ ChangePassword(p) \/ RecoverAccount(p)
    \/ BeginSetup(p) \/ Enable(p) \/ RegenerateRecoveryCodes(p) \/ Disable(p) \/ ResetMfa(p)
    \/ EditUser(p) \/ EditRole(p) \/ Request(p)

-----------------------------------------------------------------------------
(* The awaited steps.  users.save writes the loaded row; one with a role   *)
(* deleted meanwhile breaks the foreign key and ends the handler.          *)
Written(step, row) ==
    CASE step \in {"save", "spend", "release"} -> row
      [] step = "complete" -> [row EXCEPT !.attempts = 0, !.locked = 0]
      [] step = "password" -> [row EXCEPT !.password = TRUE, !.changed = now]
      [] step = "clear" -> Cleared(row)
      [] step = "regenerate" -> [row EXCEPT !.codes = {secrets}]

SaveUser(p) ==
    \E step \in {"save", "spend", "release", "complete", "password", "clear", "regenerate"} :
        /\ At(p, step)
        /\ LET row == Written(step, procs[p].row)
               code == procs[p].code
               spending == step = "spend" /\ row.roles \subseteq Existing
           IN  /\ \/ /\ row.roles \subseteq Existing
                     /\ user' = row
                     /\ Put(p, [Rest(p) EXCEPT !.row = row])
                  \/ /\ ~(row.roles \subseteq Existing)
                     /\ Put(p, Idle)
                     /\ UNCHANGED user
               /\ accepted' = IF spending THEN accepted \cup {code} ELSE accepted
               /\ reused' = IF spending /\ code \in accepted THEN reused \cup {code} ELSE reused
               /\ barred' = IF step = "release" /\ row.roles \subseteq Existing THEN 0 ELSE barred
        /\ UNCHANGED <<roles, tokens, oneTime, secrets, redis, clients, now, scenario, left,
                       signedOut, ended>>

(* recordFailedLogin: one UPDATE, so parallel guesses all count.           *)
RecordFailedLogin(p) ==
    /\ At(p, "fail")
    /\ user' = IF user.attempts + 1 >= MaxAttempts
               THEN [user EXCEPT !.attempts = 0, !.locked = now + LockTime]
               ELSE [user EXCEPT !.attempts = @ + 1]
    /\ barred' = IF user.attempts + 1 >= MaxAttempts THEN now + LockTime ELSE barred
    /\ Put(p, Rest(p))
    /\ UNCHANGED <<roles, tokens, oneTime, secrets, redis, clients, now, scenario, left,
                   signedOut, ended, accepted, reused>>

(* findById in the middle of a handler.                                    *)
Reload(p) ==
    /\ \/ At(p, "load") /\ Put(p, [Rest(p) EXCEPT !.row = user])
       \/ At(p, "unlock") /\ Put(p, [Rest(p) EXCEPT !.row = [user EXCEPT !.attempts = 0, !.locked = 0]])
       \/ /\ At(p, "accept")
          /\ IF user.status = "INVITED"
             THEN Put(p, [procs[p] EXCEPT
                     !.row = [user EXCEPT !.status = "ACTIVE", !.password = TRUE, !.changed = now],
                     !.todo = <<"save", "invalidate", "issue">>])
             ELSE Put(p, Idle)
       \/ /\ At(p, "resetLoad")
          /\ LET rest == <<"consume", "burn">> \o ApplyNewPassword
             IN  \/ ~CanLogin(user) /\ Put(p, Idle)
                 \/ CanLogin(user) /\ ~user.mfa /\ Put(p, [procs[p] EXCEPT !.row = user, !.todo = rest])
                 \/ /\ CanLogin(user) /\ user.mfa
                    /\ \/ Go(p, <<"fail">>, NoUser)
                       \/ \E code \in Verify(user) :
                            Put(p, [procs[p] EXCEPT !.row = Spent(user, code), !.code = code,
                                                    !.todo = <<"spend">> \o rest])
       \/ At(p, "consume") /\ Put(p, IF IsUsable(procs[p].token) THEN Rest(p) ELSE Idle)
    /\ UNCHANGED <<rows, redis, clients, now, scenario, left, history>>

(* issueOneTime voids the unused tokens of the type and adds one;          *)
(* consumeOneTime saves the row it found usable.                           *)
WriteOneTime(p) ==
    /\ \/ \E type \in {"INVITE", "PASSWORD_RESET"} :
            \/ /\ At(p, Void[type])
               /\ oneTime' = [t \in 1..Len(oneTime) |->
                                IF oneTime[t].type = type THEN [oneTime[t] EXCEPT !.used = TRUE]
                                ELSE oneTime[t]]
            \/ /\ At(p, New[type])
               /\ Len(oneTime) < MaxOneTime
               /\ oneTime' = Append(oneTime, [type |-> type, used |-> FALSE, expires |-> now + OneTimeTtl])
       \/ /\ At(p, "burn")
          /\ oneTime' = [oneTime EXCEPT ![procs[p].token].used = TRUE]
    /\ Put(p, Rest(p))
    /\ UNCHANGED <<user, roles, tokens, secrets, redis, clients, now, scenario, left, history>>

(* issuePair of a login: a new family; the client gets both tokens.        *)
Issue(p) ==
    /\ At(p, "issue")
    /\ Len(tokens) < MaxTokens
    /\ LET id == Len(tokens) + 1 IN
        /\ tokens' = Append(tokens, [family |-> id, expires |-> now + RefreshTtl,
                                     revoked |-> FALSE, given |-> TRUE])
        /\ access' = access \cup {[session |-> id, issued |-> now]}
    /\ Put(p, Rest(p))
    /\ UNCHANGED <<user, roles, oneTime, secrets, redis, challenge, now, scenario, left, history>>

(* issuePair of a rotation, one transaction: the successor is saved and    *)
(* the presented token revoked.                                            *)
(* Mutant: the presented token stays valid.                                *)
RotateKeeping(p) ==
    /\ At(p, "rotate")
    /\ Len(tokens) < MaxTokens
    /\ tokens' = Append(tokens, [family |-> tokens[procs[p].token].family, expires |-> now + RefreshTtl,
                                 revoked |-> FALSE, given |-> FALSE])
    /\ Put(p, [Rest(p) EXCEPT !.token = Len(tokens'), !.at = now])
    /\ UNCHANGED <<user, roles, oneTime, secrets, redis, clients, now, scenario, left, history>>

Rotate(p) ==
    /\ At(p, "rotate")
    /\ Len(tokens) < MaxTokens
    /\ LET t == procs[p].token IN
        tokens' = Append([tokens EXCEPT ![t].revoked = TRUE],
                         [family |-> tokens[t].family, expires |-> now + RefreshTtl,
                          revoked |-> FALSE, given |-> FALSE])
    /\ Put(p, [Rest(p) EXCEPT !.token = Len(tokens'), !.at = now])
    /\ UNCHANGED <<user, roles, oneTime, secrets, redis, clients, now, scenario, left, history>>

(* refresh: "Suspension after the refresh token was issued must still lock *)
(* the user out."                                                          *)
Enter(p) ==
    /\ At(p, "enter")
    /\ LET t == procs[p].token IN
        IF procs[p].ctx.status = "ACTIVE"
        THEN /\ access' = access \cup {[session |-> tokens[t].family, issued |-> procs[p].at]}
             /\ tokens' = [tokens EXCEPT ![t].given = TRUE]
             /\ Put(p, Rest(p))
        ELSE Go(p, RevokeAll, NoUser) /\ UNCHANGED <<access, tokens>>
    /\ UNCHANGED <<user, roles, oneTime, secrets, redis, challenge, now, scenario, left, history>>

(* revokeAllForUser reads the live families, revokes what is live by then  *)
(* and denies the families it read; revokeFamily does one family.          *)
RevokedIn(families) ==
    [t \in 1..Len(tokens) |->
        IF tokens[t].family \in families THEN [tokens[t] EXCEPT !.revoked = TRUE] ELSE tokens[t]]
LiveFamilies == {tokens[t].family : t \in {t \in 1..Len(tokens) : ~tokens[t].revoked}}

Revoke(p) ==
    /\ \/ /\ At(p, "find")
          /\ Put(p, [Rest(p) EXCEPT !.families = LiveFamilies])
          /\ UNCHANGED tokens
       \/ At(p, "revoke") /\ tokens' = RevokedIn(1..MaxTokens) /\ Put(p, Rest(p))
       \/ At(p, "revokeFamily") /\ tokens' = RevokedIn(procs[p].families) /\ Put(p, Rest(p))
    /\ UNCHANGED <<user, roles, oneTime, secrets, redis, clients, now, scenario, left, history>>

(* Mutant: the deny list expires before the access tokens.                 *)
DenySessionsBriefly(p) ==
    /\ At(p, "deny")
    /\ denied' = [f \in DOMAIN denied |->
                    IF f \in procs[p].families THEN now + AccessTtl - 1 ELSE denied[f]]
    /\ signedOut' = signedOut \cup {a \in access : a.session \in procs[p].families}
    /\ Put(p, Rest(p))
    /\ UNCHANGED <<rows, cache, clients, now, scenario, left, ended, accepted, reused, barred>>

DenySessions(p) ==
    /\ At(p, "deny")
    /\ denied' = [f \in DOMAIN denied |->
                    IF f \in procs[p].families THEN now + AccessTtl ELSE denied[f]]
    /\ signedOut' = signedOut \cup {a \in access : a.session \in procs[p].families}
    /\ Put(p, Rest(p))
    /\ UNCHANGED <<rows, cache, clients, now, scenario, left, ended, accepted, reused, barred>>

(* getAuthUser: the cached login, or a database read stored in the cache.  *)
GetAuthUser(p) ==
    /\ At(p, "context")
    /\ Put(p, IF cache = Miss THEN [Rest(p) EXCEPT !.todo = <<"read", "store">> \o @]
              ELSE [Rest(p) EXCEPT !.ctx = cache])
    /\ UNCHANGED <<rows, redis, clients, now, scenario, left, history>>

ReadContext(p) ==
    /\ At(p, "read")
    /\ Put(p, [Rest(p) EXCEPT !.ctx = Context(user)])
    /\ UNCHANGED <<rows, redis, clients, now, scenario, left, history>>

StoreContext(p) ==
    /\ At(p, "store")
    /\ cache' = procs[p].ctx
    /\ Put(p, Rest(p))
    /\ UNCHANGED <<rows, denied, clients, now, scenario, left, history>>

(* invalidateAuthUser; the last step of applyNewPassword is one of them.   *)
Invalidate(p) ==
    /\ At(p, "invalidate") \/ At(p, "changed")
    /\ cache' = Miss
    /\ ended' = IF At(p, "changed") THEN ended \cup procs[p].families ELSE ended
    /\ Put(p, Rest(p))
    /\ UNCHANGED <<rows, denied, clients, now, scenario, left, signedOut, accepted, reused, barred>>

(* updateRole saves, which inserts a role deleted meanwhile once more, and *)
(* then invalidates the holders; deleteRole invalidates them first.        *)
WriteRole(p) ==
    LET r == procs[p].role IN
    /\ \/ /\ At(p, "saveRole")
          /\ roles' = [roles EXCEPT ![r] = procs[p].perms]
          /\ Put(p, Rest(p))
          /\ UNCHANGED <<user, cache>>
       \/ /\ At(p, "holders")
          /\ Put(p, [Rest(p) EXCEPT !.at = IF r \in user.roles THEN 1 ELSE 0])
          /\ UNCHANGED <<user, roles, cache>>
       \/ /\ At(p, "drop")
          /\ cache' = IF procs[p].at = 1 THEN Miss ELSE cache
          /\ Put(p, Rest(p))
          /\ UNCHANGED <<user, roles>>
       \/ /\ At(p, "removeRole")
          /\ roles' = [roles EXCEPT ![r] = NoRole]
          /\ user' = [user EXCEPT !.roles = @ \ {r}]
          /\ Put(p, Rest(p))
          /\ UNCHANGED cache
    /\ UNCHANGED <<tokens, oneTime, secrets, denied, clients, now, scenario, left, history>>

Step(p) ==
    \/ SaveUser(p) \/ RecordFailedLogin(p) \/ Reload(p) \/ WriteOneTime(p)
    \/ Issue(p) \/ Rotate(p) \/ Enter(p) \/ Revoke(p) \/ DenySessions(p)
    \/ GetAuthUser(p) \/ ReadContext(p) \/ StoreContext(p) \/ Invalidate(p) \/ WriteRole(p)

(* A handler ends in the middle: the process exits or a call fails.        *)
Die(p) ==
    /\ scenario.dies
    /\ procs[p] # Idle
    /\ Put(p, Idle)
    /\ UNCHANGED <<rows, redis, clients, now, scenario, left, history>>

(* AUTH_CONTEXT_TTL_SECONDS after the entry was stored, or earlier.        *)

CacheExpires ==
    /\ cache # Miss
    /\ cache' = Miss
    /\ UNCHANGED <<rows, denied, clients, now, procs, scenario, left, history>>

Unexpired(as) == {a \in as : a.issued + AccessTtl > now'}
Tick ==
    /\ now < MaxTime
    /\ now' = now + 1
    /\ access' = Unexpired(access)
    /\ signedOut' = Unexpired(signedOut)
    /\ UNCHANGED <<rows, redis, challenge, procs, scenario, left, ended, accepted, reused, barred>>

Init ==
    /\ scenario \in Scenarios
    /\ user = scenario.account
    /\ roles \in [Roles -> {Permissions, NoRole}]
    /\ \A r \in SystemRoles \cup scenario.account.roles : roles[r] # NoRole
    /\ tokens = <<>> /\ oneTime = <<>> /\ secrets = scenario.account.secret
    /\ cache = Miss /\ denied = [f \in 1..MaxTokens |-> 0]
    /\ access = {} /\ challenge = 0 /\ now = 1
    /\ procs = [p \in Procs |-> Idle] /\ left = scenario.requests
    /\ signedOut = {} /\ ended = {} /\ accepted = {} /\ reused = {} /\ barred = 0

Next == Tick \/ CacheExpires \/ \E p \in Procs : Ask(p) \/ Step(p) \/ Die(p)

Spec == Init /\ [][Next]_vars


TypeOK ==
    /\ user \in UserRow
    /\ roles \in [Roles -> (SUBSET Permissions) \cup {NoRole}]
    /\ tokens \in Seq(RefreshToken) /\ oneTime \in Seq(OneTimeToken)
    /\ denied \in [1..MaxTokens -> Nat]
    /\ access \subseteq [session : 1..MaxTokens, issued : 0..MaxTime]

-----------------------------------------------------------------------------
(* DELETE /auth/sessions/:id: "its access token stops working at once",    *)
(* and for good: the deny list outlives every access token of a session it *)
(* was written for.  Handlers overlap.                                     *)
SignedOutStaysOut == \A a \in signedOut : ~Accepts(a, Seen)

(* POST /auth/reset-password: "all sessions are revoked".  Once a password *)
(* change has ended, no session it found live can be used or refreshed.    *)
(* Requests are served one at a time, and may end half-way.                *)
PasswordChangeEndsSessions ==
    Serial =>
        /\ \A t \in 1..Len(tokens) : tokens[t].family \in ended => tokens[t].revoked
        /\ \A a \in access : a.session \in ended => ~Accepts(a, Seen)

(* RefreshToken: "each refresh revokes the used token and issues a         *)
(* successor in the same family"; listSessions shows a device once.        *)
(* Requests are served one at a time.                                      *)
RefreshChainsAreSingle ==
    Serial =>
        \A s, t \in 1..Len(tokens) :
            /\ tokens[s].family = tokens[t].family
            /\ ~tokens[s].revoked /\ ~tokens[t].revoked
            => s = t

(* users.mfaLastStep: "a code can't be replayed"; a recovery code works    *)
(* once; also over disabling and enrolling again, and when a handler ends  *)
(* half-way.  Requests are served one at a time.                           *)
CodesWorkOnce == Serial => reused = {}

(* A login locked by failures opens no session before the lock is over or  *)
(* an administrator lifts it, whatever it had got to when it was locked.   *)
(* Requests are served one at a time.                                      *)
LockKeepsOut ==
    [][Serial /\ barred > now =>
        \A t \in (Len(tokens) + 1)..Len(tokens') : tokens'[t].family # t]_vars

(* "Call after anything that changes a user's status or roles": whichever  *)
(* handler changes what the guards go by (status, roles, permissions of a  *)
(* role, password date, second factor), the cached login is the row's, or  *)
(* that handler is still about to invalidate it.  Requests are served one  *)
(* at a time, and none ends half-way.                                      *)
Invalidates(h) == \E i \in 1..Len(h.todo) : h.todo[i] \in {"invalidate", "changed", "drop"}
LoginIsCurrent ==
    Serial /\ ~scenario.dies =>
        \/ cache \in {Miss, Context(user)}
        \/ \E p \in Procs : Invalidates(procs[p])

(* "Suspending a user, changing roles, or changing a password invalidates  *)
(* the Redis-cached auth context, so the change bites on the very next     *)
(* request": once the handlers in flight have ended, nobody is served who  *)
(* is not entitled.                                                        *)
Entitled(perm) == user.status = "ACTIVE" /\ perm \in Context(user).permissions
ChangesBiteAtOnce ==
    (\A p \in Procs : procs[p] = Idle) =>
        \A a \in access, perm \in Permissions : Serves(a, Seen, perm) => Entitled(perm)
=============================================================================
