----------------------------- MODULE Connections -----------------------------
(***************************************************************************)
(* Saved connections of the .NET API and their credentials: Connections.cs.*)
(* Requests run side by side; those that read and write the vault queue at *)
(* one gate, which they hold while they await OpenAI. A step goes from one *)
(* await to the next. A request that waits at the gate has read nothing    *)
(* yet, but for a sign-in, which has taken its attempt out already.        *)
(*                                                                         *)
(* The provider (OpenAI) is external: a sign-in is granted once, a grant   *)
(* has a current refresh token that a renewal may replace, an old one is   *)
(* rejected. The answer of a request that took effect can get lost; that   *)
(* also stands for an exception between the answer and the end of Save.    *)
(***************************************************************************)
EXTENDS Naturals

CONSTANTS
    Requests,    \* HTTP requests in progress
    Profiles,    \* identities of saved connections
    Attempts,    \* state values that Start can draw
    Subjects,    \* accounts at the provider
    Clients,     \* client identities it issues
    Grants,      \* sign-ins it grants
    MaxVersion,  \* bound: refresh tokens of a grant
    None

ASSUME ConnectionsAssumption ==
    /\ MaxVersion \in Nat \ {0}
    /\ None \notin Requests \cup Profiles \cup Attempts \cup Subjects \cup Clients \cup Grants

VARIABLES
    vault,     \* the credential files
    attempts,  \* _attempts: sign-ins that were started
    gate,      \* the request that holds _gate, or None
    task,      \* what each request is doing
    grants,    \* the provider
    removed,   \* connections removed and not signed in to again (history)
    given,     \* those of which a credential was handed out since (history)
    lost       \* grants of which the answer to a renewal got lost (history)

history == <<removed, given, lost>>
vars == <<vault, attempts, gate, task, grants, history>>

Tokens == [grant : Grants, version : 1..MaxVersion]
NoToken == [grant |-> None, version |-> 0]

(* `access': AccessToken is not empty. `plan': the scope allows plan usage. *)
(* `stale': the access token has less than a minute left.                   *)
Account ==
    [mode : {"chatgpt"}, subject : Subjects \cup {None}, client : Clients,
     access : BOOLEAN, refresh : Tokens \cup {NoToken}, plan : BOOLEAN,
     stale : BOOLEAN, reconnect : BOOLEAN]
Key ==
    [mode : {"api"}, subject : {None}, client : {None}, access : BOOLEAN,
     refresh : {NoToken}, plan : {FALSE}, stale : BOOLEAN, reconnect : {FALSE}]

NoProfile ==
    [mode |-> "none", subject |-> None, client |-> None, access |-> FALSE,
     refresh |-> NoToken, plan |-> FALSE, stale |-> FALSE, reconnect |-> FALSE]
Profile == Account \cup Key \cup {NoProfile}

KeyProfile ==
    [mode |-> "api", subject |-> None, client |-> None, access |-> TRUE,
     refresh |-> NoToken, plan |-> FALSE, stale |-> FALSE, reconnect |-> FALSE]
Registration(client) ==
    [mode |-> "chatgpt", subject |-> None, client |-> client, access |-> FALSE,
     refresh |-> NoToken, plan |-> FALSE, stale |-> TRUE, reconnect |-> FALSE]

(* A profile `with' other values: the mode and the client never change.    *)
With(profile, subject, access, refresh, plan, stale, reconnect) ==
    [mode |-> profile.mode, subject |-> subject, client |-> profile.client,
     access |-> access, refresh |-> refresh, plan |-> plan, stale |-> stale,
     reconnect |-> reconnect]

(* Fault: the subject of the registration is kept. *)
SignedInKeepingSubject(profile, subject, access, refresh, plan) ==
    With(profile, profile.subject, access, refresh, plan, FALSE, FALSE)
SignedIn(profile, subject, access, refresh, plan) ==
    With(profile, subject, access, refresh, plan, FALSE, FALSE)

(* Fault: the refresh token that came with the new access token is ignored. *)
RenewedKeepingToken(profile, refresh) ==
    With(profile, profile.subject, TRUE, profile.refresh, profile.plan, FALSE, profile.reconnect)
Renewed(profile, refresh) ==
    With(profile, profile.subject, TRUE, refresh, profile.plan, FALSE, profile.reconnect)
Unrenewable(profile) ==
    With(profile, profile.subject, FALSE, NoToken, profile.plan, TRUE, TRUE)
Blank(profile) ==
    With(profile, profile.subject, FALSE, NoToken, FALSE, TRUE, profile.reconnect)

Attempt == [status : {"none", "open", "expired", "gone"}, connection : Profiles \cup {None}]
NoAttempt == [status |-> "none", connection |-> None]
Opened(p) == [status |-> "open", connection |-> p]
Expired(attempt) == [status |-> "expired", connection |-> attempt.connection]
Taken(attempt) == [status |-> "gone", connection |-> attempt.connection]

(* `copy' is what the request has read from the vault under the gate.      *)
Task ==
    [at : {"idle", "signin", "exchange", "refresh", "revoke"},
     attempt : Attempts \cup {None}, profile : Profiles \cup {None}, copy : Profile]
Doing(step, a, p, profile) ==
    [at |-> step, attempt |-> a, profile |-> p, copy |-> profile]
Idle == Doing("idle", None, None, NoProfile)

(* A grant at the provider and the current version of its refresh token.   *)
Grant ==
    [attempt : Attempts \cup {None}, subject : Subjects \cup {None},
     client : Clients \cup {None}, version : 0..MaxVersion, live : BOOLEAN]
NoGrant ==
    [attempt |-> None, subject |-> None, client |-> None, version |-> 0, live |-> FALSE]
Issued(attempt, subject, client) ==
    [attempt |-> attempt, subject |-> subject, client |-> client, version |-> 1, live |-> TRUE]
Rotated(grant, version) ==
    [attempt |-> grant.attempt, subject |-> grant.subject, client |-> grant.client,
     version |-> version, live |-> grant.live]
Dead(grant) ==
    [attempt |-> grant.attempt, subject |-> grant.subject, client |-> grant.client,
     version |-> grant.version, live |-> FALSE]

TypeOK ==
    /\ vault \in [Profiles -> Profile]
    /\ attempts \in [Attempts -> Attempt]
    /\ gate \in Requests \cup {None}
    /\ task \in [Requests -> Task]
    /\ grants \in [Grants -> Grant]
    /\ removed \subseteq Profiles
    /\ given \subseteq Profiles
    /\ lost \subseteq Grants

Init ==
    /\ vault = [p \in Profiles |-> NoProfile]
    /\ attempts = [a \in Attempts |-> NoAttempt]
    /\ gate = None
    /\ task = [h \in Requests |-> Idle]
    /\ grants = [g \in Grants |-> NoGrant]
    /\ removed = {} /\ given = {} /\ lost = {}

Exists(p) == vault[p].mode # "none"
Save(p, profile) == vault' = [vault EXCEPT ![p] = profile]

(* The request sends `step' to the provider and keeps the gate.            *)
Await(h, step, a, p, profile) ==
    /\ gate' = h
    /\ task' = [task EXCEPT ![h] = Doing(step, a, p, profile)]

(* Fault: a renewal does not release the gate. *)
LeaveRenewing(h) ==
    /\ gate' = IF task[h].at = "refresh" THEN gate ELSE None
    /\ task' = [task EXCEPT ![h] = Idle]

(* The request ends, by a return or an exception. *)
Leave(h) ==
    /\ gate' = None
    /\ task' = [task EXCEPT ![h] = Idle]

-----------------------------------------------------------------------------
(* Saving a connection *)

(* The key has been tried on the model catalog. *)
ApiKey(p) ==
    /\ gate = None
    /\ ~Exists(p)
    /\ Save(p, KeyProfile)
    /\ UNCHANGED <<attempts, gate, task, grants, history>>

(* A sign-in of its own, or one that reconnects connection p. *)
Start(a, p) ==
    /\ gate = None
    /\ attempts[a].status = "none"
    /\ p # None => vault[p].mode = "chatgpt"
    /\ attempts' = [b \in Attempts |->
           CASE b = a -> Opened(p)
             [] b # a /\ attempts[b].status = "expired" -> Taken(attempts[b])
             [] OTHER -> attempts[b]]
    /\ UNCHANGED <<vault, gate, task, grants, history>>

(* Fault: the attempt is looked up and removed by a later request. *)
CallbackKeeping(h, a) ==
    /\ task[h] = Idle
    /\ attempts[a].status = "open"
    /\ task' = [task EXCEPT ![h] = Doing("signin", a, attempts[a].connection, NoProfile)]
    /\ UNCHANGED <<vault, attempts, gate, grants, history>>

(* Complete up to the gate. A callback whose attempt is not there, has     *)
(* expired or reports that the owner declined goes no further.             *)
Callback(h, a) ==
    /\ task[h] = Idle
    /\ attempts[a].status \in {"open", "expired"}
    /\ attempts' = [attempts EXCEPT ![a] = Taken(attempts[a])]
    /\ \/ /\ attempts[a].status = "open"
          /\ task' = [task EXCEPT ![h] = Doing("signin", a, attempts[a].connection, NoProfile)]
       \/ UNCHANGED task
    /\ UNCHANGED <<vault, gate, grants, history>>

(* The registration is saved before the code is exchanged. *)
Register(h, client) ==
    /\ task[h].at = "signin" /\ task[h].profile = None
    /\ gate = None
    /\ \E p \in Profiles :
         /\ ~Exists(p)
         /\ Save(p, Registration(client))
         /\ Await(h, "exchange", task[h].attempt, p, Registration(client))
    /\ UNCHANGED <<attempts, grants, history>>

Reregister(h, client) ==
    LET p == task[h].profile
    IN  /\ task[h].at = "signin" /\ p # None
        /\ gate = None
        /\ client \in {None, vault[p].client}
        /\ Await(h, "exchange", task[h].attempt, p, vault[p])
        /\ UNCHANGED <<vault, attempts, grants, history>>

(* No client identity was issued, or one of another registration. *)
RegistrationFails(h) ==
    /\ task[h].at = "signin"
    /\ gate = None
    /\ Leave(h)
    /\ UNCHANGED <<vault, attempts, grants, history>>

(* Fault: whoever signs in becomes the account of the connection. *)
AnyAccount(profile, subject) == TRUE

SameAccount(profile, subject) == profile.subject \in {None, subject}

(***************************************************************************)
(* The code is exchanged and the identity verified. A grant that is not    *)
(* saved, because its answer got lost or its identity is not valid or of   *)
(* another account, stays with the provider.                               *)
(***************************************************************************)
Exchange(h) ==
    LET p == task[h].profile
        copy == task[h].copy
    IN  /\ task[h].at = "exchange"
        /\ \/ UNCHANGED <<vault, grants, removed>>
           \/ \E g \in Grants, s \in Subjects :
                /\ grants[g] = NoGrant
                /\ grants' = [grants EXCEPT ![g] = Issued(task[h].attempt, s, copy.client)]
                /\ \/ UNCHANGED <<vault, removed>>
                   \/ /\ SameAccount(copy, s)
                      /\ \E access, plan \in BOOLEAN,
                            refresh \in {NoToken, [grant |-> g, version |-> 1]} :
                           Save(p, SignedIn(copy, s, access, refresh, plan))
                      /\ removed' = removed \ {p}
        /\ Leave(h)
        /\ UNCHANGED <<attempts, given, lost>>

-----------------------------------------------------------------------------
(* Using a connection *)

Usable(p) ==
    /\ Exists(p)
    /\ ~vault[p].reconnect
    /\ vault[p].mode = "chatgpt" => vault[p].plan

(* Credential without a renewal. *)
HandOut(p) ==
    /\ gate = None
    /\ Usable(p) /\ vault[p].access
    /\ vault[p].mode = "chatgpt" => ~vault[p].stale
    /\ given' = given \cup {p}
    /\ UNCHANGED <<vault, attempts, gate, task, grants, removed, lost>>

BeginRenewal(h, p) ==
    /\ task[h] = Idle /\ gate = None
    /\ Usable(p)
    /\ vault[p].mode = "chatgpt" /\ vault[p].stale /\ vault[p].refresh # NoToken
    /\ Await(h, "refresh", None, p, vault[p])
    /\ UNCHANGED <<vault, attempts, grants, history>>

(* The provider accepts the token; it may replace it. *)
Renew(h) ==
    LET p == task[h].profile
        copy == task[h].copy
        grant == copy.refresh.grant
    IN  /\ task[h].at = "refresh"
        /\ grants[grant].live /\ grants[grant].version = copy.refresh.version
        /\ \E v \in {copy.refresh.version, copy.refresh.version + 1} :
             /\ v <= MaxVersion
             /\ grants' = [grants EXCEPT ![grant] = Rotated(grants[grant], v)]
             /\ \/ /\ Save(p, Renewed(copy, [grant |-> grant, version |-> v]))
                   /\ given' = given \cup {p}
                   /\ UNCHANGED lost
                \/ /\ lost' = lost \cup {grant}
                   /\ UNCHANGED <<vault, given>>
        /\ Leave(h)
        /\ UNCHANGED <<attempts, removed>>

(* A token that was revoked or replaced is rejected for good. *)
RenewalRejected(h) ==
    LET p == task[h].profile
        copy == task[h].copy
        grant == copy.refresh.grant
    IN  /\ task[h].at = "refresh"
        /\ ~(grants[grant].live /\ grants[grant].version = copy.refresh.version)
        /\ Save(p, Unrenewable(copy))
        /\ Leave(h)
        /\ UNCHANGED <<attempts, grants, history>>

(* The provider is not available, or answers with another error. *)
RenewalFails(h) ==
    /\ task[h].at = "refresh"
    /\ Leave(h)
    /\ UNCHANGED <<vault, attempts, grants, history>>

-----------------------------------------------------------------------------
(* Removing a connection *)

(* Fault: the credentials are cleared at once, whoever holds the gate. *)
DisconnectUngated(h, p) ==
    /\ task[h] = Idle
    /\ Exists(p)
    /\ Save(p, Blank(vault[p]))
    /\ removed' = removed \cup {p}
    /\ given' = given \ {p}
    /\ UNCHANGED <<attempts, gate, task, grants, lost>>

Disconnect(h, p) ==
    /\ task[h] = Idle /\ gate = None
    /\ Exists(p)
    /\ Save(p, Blank(vault[p]))
    /\ removed' = removed \cup {p}
    /\ given' = given \ {p}
    /\ \/ vault[p].refresh = NoToken /\ UNCHANGED <<gate, task>>
       \/ vault[p].refresh # NoToken /\ Await(h, "revoke", None, p, vault[p])
    /\ UNCHANGED <<attempts, grants, lost>>

(* The provider revokes the grant, or is not reached; either may look like *)
(* the other to the request.                                               *)
Revoke(h) ==
    LET grant == task[h].copy.refresh.grant
    IN  /\ task[h].at = "revoke"
        /\ \/ UNCHANGED grants
           \/ grants' = [grants EXCEPT ![grant] = Dead(grants[grant])]
        /\ Leave(h)
        /\ UNCHANGED <<vault, attempts, history>>

-----------------------------------------------------------------------------
(* The environment *)

(* The process ends; the vault stays, a file is replaced as a whole. *)
Crash ==
    /\ attempts' = [a \in Attempts |-> IF attempts[a].status \in {"open", "expired"}
                                       THEN Taken(attempts[a]) ELSE attempts[a]]
    /\ gate' = None
    /\ task' = [h \in Requests |-> Idle]
    /\ UNCHANGED <<vault, grants, history>>

AttemptExpires(a) ==
    /\ attempts[a].status = "open"
    /\ attempts' = [attempts EXCEPT ![a] = Expired(attempts[a])]
    /\ UNCHANGED <<vault, gate, task, grants, history>>

AccessExpires(p) ==
    /\ vault[p].mode = "chatgpt" /\ ~vault[p].stale
    /\ Save(p, [vault[p] EXCEPT !.stale = TRUE])
    /\ UNCHANGED <<attempts, gate, task, grants, history>>

(* The owner withdraws a grant in the settings of the provider. *)
Withdraw(g) ==
    /\ grants[g].live
    /\ grants' = [grants EXCEPT ![g] = Dead(grants[g])]
    /\ UNCHANGED <<vault, attempts, gate, task, history>>

Answered(h) == Exchange(h) \/ Renew(h) \/ RenewalRejected(h) \/ RenewalFails(h) \/ Revoke(h)

Next ==
    \/ \E p \in Profiles : ApiKey(p) \/ HandOut(p) \/ AccessExpires(p)
    \/ \E a \in Attempts : AttemptExpires(a) \/ \E p \in Profiles \cup {None} : Start(a, p)
    \/ \E h \in Requests :
         \/ \E a \in Attempts : Callback(h, a)
         \/ \E client \in Clients : Register(h, client)
         \/ \E client \in Clients \cup {None} : Reregister(h, client)
         \/ RegistrationFails(h)
         \/ \E p \in Profiles : BeginRenewal(h, p) \/ Disconnect(h, p)
         \/ Answered(h)
    \/ \E g \in Grants : Withdraw(g)
    \/ Crash

Spec == Init /\ [][Next]_vars

-----------------------------------------------------------------------------
(* Properties *)

(* Exactly the request that awaits the provider holds the gate, and no     *)
(* other request awaits it: every way out of a request releases the gate,  *)
(* without which all connections would be out of use until a restart.      *)
GateIsHeld ==
    \A h \in Requests : gate = h <=> task[h].at \in {"exchange", "refresh", "revoke"}

(***************************************************************************)
(* Renewals are serialized (docs/workbench.md:130): the refresh token in   *)
(* the vault is the one the provider accepts, unless the grant is gone or  *)
(* the answer to a renewal got lost. While a renewal is under way the      *)
(* vault may be behind.                                                    *)
(***************************************************************************)
SavedTokenIsCurrent ==
    \A p \in Profiles :
        LET refresh == vault[p].refresh
        IN  refresh # NoToken =>
                \/ grants[refresh.grant].version = refresh.version
                \/ refresh.grant \in lost

(***************************************************************************)
(* The tokens of a connection are those of its account and registration,   *)
(* through sign-ins with other accounts, renewals and removals.            *)
(***************************************************************************)
TokensMatchAccount ==
    \A p \in Profiles :
        LET refresh == vault[p].refresh
        IN  refresh # NoToken => /\ grants[refresh.grant].subject = vault[p].subject
                                 /\ grants[refresh.grant].client = vault[p].client

(* The account and the client identity of a connection never change: runs  *)
(* refer to it by its identity for as long as they can be resumed.         *)
AccountIsKept ==
    [][\A p \in Profiles :
          /\ vault[p].subject # None => vault'[p].subject = vault[p].subject
          /\ vault[p].client # None => vault'[p].client = vault[p].client]_vars

(* A state value is good for one sign-in, however often and how quickly    *)
(* the callback is called with it (WorkbenchConnectionTests.cs:34).        *)
OneSignInPerAttempt ==
    \A g, k \in Grants :
        grants[g].attempt # None /\ grants[g].attempt = grants[k].attempt => g = k

(***************************************************************************)
(* "Stop local credential use" (Connections.cs:259): from its removal      *)
(* until the owner signs in again a connection has no token and hands out  *)
(* no credential, also when a renewal of it was under way.                 *)
(***************************************************************************)
RemovedIsSilent ==
    \A p \in removed : /\ p \notin given
                       /\ ~vault[p].access
                       /\ vault[p].refresh = NoToken

=============================================================================
