-------------------------- MODULE ConnectionsProofs --------------------------
(***************************************************************************)
(* Saved connections, for any number of requests, connections, sign-ins,   *)
(* accounts and grants. The argument: only the request that holds the gate *)
(* awaits the provider, so what it read from the vault is still there when *)
(* the answer comes, and it is the only one that presents the token of a   *)
(* grant, since no two connections have tokens of one grant.               *)
(***************************************************************************)
EXTENDS Connections, TLAPS

(* What a request has in hand while it awaits the provider; a sign-in that *)
(* reconnects does so for a ChatGPT connection.                            *)
InHand ==
    /\ \A h \in Requests :
         /\ task[h].at \in {"exchange", "refresh", "revoke"} =>
               task[h].profile \in Profiles /\ task[h].copy \in Account
         /\ task[h].at \in {"refresh", "revoke"} => task[h].copy.refresh \in Tokens
         /\ task[h].at = "signin" /\ task[h].profile # None =>
               vault[task[h].profile].mode = "chatgpt"
    /\ \A a \in Attempts :
         attempts[a].connection # None => vault[attempts[a].connection].mode = "chatgpt"

Typed == TypeOK /\ InHand

(* Modes of saved connections are for good. *)
LEMMA ProfileFacts ==
    /\ NoProfile \in Profile /\ NoProfile.mode = "none"
    /\ KeyProfile \in Profile /\ KeyProfile.mode = "api"
    /\ \A c \in Clients : Registration(c) \in Account
    /\ \A q \in Account : q \in Profile /\ q.mode = "chatgpt" /\ q.refresh \in Tokens \cup {NoToken}
    /\ \A q \in Profile : q.mode = "chatgpt" => q \in Account
    /\ \A q \in Profile : q.mode # "none" => Blank(q) \in Profile /\ Blank(q).mode = q.mode
    /\ \A q \in Account, t \in Tokens : Renewed(q, t) \in Account
    /\ \A q \in Account : Unrenewable(q) \in Account
    /\ \A q \in Account : [q EXCEPT !.stale = TRUE] \in Account
    /\ \A q \in Account, s \in Subjects, access, plan \in BOOLEAN, t \in Tokens \cup {NoToken} :
          SignedIn(q, s, access, t, plan) \in Account
<1>. USE DEF Profile, Account, Key
<1>1. NoProfile \in Profile /\ NoProfile.mode = "none"
    BY DEF NoProfile
<1>2. KeyProfile \in Profile /\ KeyProfile.mode = "api"
    BY DEF KeyProfile
<1>3. \A c \in Clients : Registration(c) \in Account
    BY DEF Registration
<1>4. \A q \in Account : q \in Profile /\ q.mode = "chatgpt" /\ q.refresh \in Tokens \cup {NoToken}
    OBVIOUS
<1>5. \A q \in Profile : q.mode = "chatgpt" => q \in Account
    <2>1. \A q \in Key : q.mode = "api"
        OBVIOUS
    <2>. QED
        BY <1>1, <2>1
<1>6. \A q \in Profile : q.mode # "none" => Blank(q) \in Profile /\ Blank(q).mode = q.mode
    <2>1. \A q \in Account : Blank(q) \in Account /\ Blank(q).mode = q.mode
        BY DEF Blank, With
    <2>2. \A q \in Key : Blank(q) \in Key /\ Blank(q).mode = q.mode
        BY DEF Blank, With
    <2>. QED
        BY <1>1, <2>1, <2>2
<1>7. \A q \in Account, t \in Tokens : Renewed(q, t) \in Account
    BY DEF Renewed, With
<1>8. \A q \in Account : Unrenewable(q) \in Account
    BY DEF Unrenewable, With
<1>9. \A q \in Account : [q EXCEPT !.stale = TRUE] \in Account
    OBVIOUS
<1>10. \A q \in Account, s \in Subjects, access, plan \in BOOLEAN, t \in Tokens \cup {NoToken} :
          SignedIn(q, s, access, t, plan) \in Account
    BY DEF SignedIn, With
<1>. QED
    BY <1>1, <1>2, <1>3, <1>4, <1>5, <1>6, <1>7, <1>8, <1>9, <1>10

LEMMA AttemptFacts ==
    /\ NoAttempt \in Attempt
    /\ \A p \in Profiles \cup {None} : Opened(p) \in Attempt /\ Opened(p).connection = p
    /\ \A t \in Attempt : /\ Expired(t) \in Attempt /\ Expired(t).connection = t.connection
                          /\ Taken(t) \in Attempt /\ Taken(t).connection = t.connection
    BY DEF Attempt, NoAttempt, Opened, Expired, Taken

LEMMA GrantFacts ==
    /\ NoGrant \in Grant
    /\ \A a \in Attempts \cup {None}, s \in Subjects, c \in Clients : Issued(a, s, c) \in Grant
    /\ \A k \in Grant : Dead(k) \in Grant
    /\ \A k \in Grant, v \in 0..MaxVersion : Rotated(k, v) \in Grant
    BY ConnectionsAssumption DEF Grant, NoGrant, Issued, Dead, Rotated

LEMMA TaskFacts ==
    /\ Idle \in Task /\ Idle.at = "idle"
    /\ \A at \in {"idle", "signin", "exchange", "refresh", "revoke"},
          a \in Attempts \cup {None}, p \in Profiles \cup {None}, q \in Profile :
          [at |-> at, attempt |-> a, profile |-> p, copy |-> q] \in Task
    BY ProfileFacts DEF Task, Idle, Doing

(* A request that ends leaves nothing of its own behind. *)
LEMMA LeaveInHand ==
    ASSUME Typed, NEW h \in Requests, Leave(h), UNCHANGED attempts,
           \A p \in Profiles : vault[p].mode = "chatgpt" => vault'[p].mode = "chatgpt"
    PROVE  InHand'
<1>1. \A k \in Requests : task'[k] = task[k] \/ task'[k].at = "idle"
    BY TaskFacts DEF Typed, TypeOK, Leave
<1>2. /\ \A k \in Requests : task[k].profile \in Profiles \cup {None}
      /\ \A a \in Attempts : attempts[a].connection \in Profiles \cup {None}
    BY DEF Typed, TypeOK, Task, Attempt
<1>. QED
    BY <1>1, <1>2 DEF Typed, InHand

LEMMA ApiKeyTyped ==
    ASSUME Typed, NEW p \in Profiles, ApiKey(p)
    PROVE  Typed'
<1>. USE ProfileFacts, AttemptFacts, GrantFacts, TaskFacts, ConnectionsAssumption
     DEF Typed, history
<1>1. TypeOK'
    BY DEF TypeOK, InHand, Task, Grant, Attempt, Tokens, ApiKey, Save, Exists
<1>2. InHand'
    BY DEF TypeOK, InHand, Task, Attempt, ApiKey, Save, Exists
<1>. QED
    BY <1>1, <1>2

LEMMA RegisterTyped ==
    ASSUME Typed, NEW h \in Requests, NEW client \in Clients, Register(h, client)
    PROVE  Typed'
<1>. USE ProfileFacts, AttemptFacts, GrantFacts, TaskFacts, ConnectionsAssumption
     DEF Typed, history
<1>1. TypeOK'
    BY DEF TypeOK, InHand, Task, Grant, Attempt, Tokens, Register, Save, Exists, Await, Doing
<1>2. InHand'
    BY DEF TypeOK, InHand, Task, Attempt, Register, Save, Exists, Await, Doing
<1>. QED
    BY <1>1, <1>2

LEMMA ReregisterTyped ==
    ASSUME Typed, NEW h \in Requests, NEW client \in Clients \cup {None}, Reregister(h, client)
    PROVE  Typed'
<1>. USE ProfileFacts, AttemptFacts, GrantFacts, TaskFacts, ConnectionsAssumption
     DEF Typed, history
<1>1. TypeOK'
    BY DEF TypeOK, InHand, Task, Grant, Attempt, Tokens, Reregister, Await, Doing
<1>2. InHand'
    BY DEF TypeOK, InHand, Task, Attempt, Reregister, Await, Doing
<1>. QED
    BY <1>1, <1>2

LEMMA RegistrationFailsTyped ==
    ASSUME Typed, NEW h \in Requests, RegistrationFails(h)
    PROVE  Typed'
<1>. USE ProfileFacts, AttemptFacts, GrantFacts, TaskFacts, ConnectionsAssumption
     DEF Typed, history
<1>1. TypeOK'
    BY DEF TypeOK, InHand, Task, Grant, Attempt, Tokens, RegistrationFails, Leave
<1>2. InHand'
    BY DEF TypeOK, InHand, Task, Attempt, RegistrationFails, Leave
<1>. QED
    BY <1>1, <1>2

LEMMA HandOutTyped ==
    ASSUME Typed, NEW p \in Profiles, HandOut(p)
    PROVE  Typed'
<1>. USE ProfileFacts, AttemptFacts, GrantFacts, TaskFacts, ConnectionsAssumption
     DEF Typed, history
<1>1. TypeOK'
    BY DEF TypeOK, InHand, Task, Grant, Attempt, Tokens, HandOut
<1>2. InHand'
    BY DEF TypeOK, InHand, Task, Attempt, HandOut
<1>. QED
    BY <1>1, <1>2

LEMMA BeginRenewalTyped ==
    ASSUME Typed, NEW h \in Requests, NEW p \in Profiles, BeginRenewal(h, p)
    PROVE  Typed'
<1>. USE ProfileFacts, AttemptFacts, GrantFacts, TaskFacts, ConnectionsAssumption
     DEF Typed, history
<1>1. TypeOK'
    BY DEF TypeOK, InHand, Task, Grant, Attempt, Tokens, BeginRenewal, Await, Doing
<1>2. InHand'
    BY DEF TypeOK, InHand, Task, Attempt, BeginRenewal, Await, Doing
<1>. QED
    BY <1>1, <1>2

LEMMA RenewalRejectedTyped ==
    ASSUME Typed, NEW h \in Requests, RenewalRejected(h)
    PROVE  Typed'
<1>. USE ProfileFacts, AttemptFacts, GrantFacts, TaskFacts, ConnectionsAssumption
     DEF Typed, history
<1>1. TypeOK'
    BY DEF TypeOK, InHand, Task, Grant, Attempt, Tokens, RenewalRejected, Save, Leave
<1>2. InHand'
    BY DEF TypeOK, InHand, Task, Attempt, RenewalRejected, Save, Leave
<1>. QED
    BY <1>1, <1>2

LEMMA RenewalFailsTyped ==
    ASSUME Typed, NEW h \in Requests, RenewalFails(h)
    PROVE  Typed'
<1>. USE ProfileFacts, AttemptFacts, GrantFacts, TaskFacts, ConnectionsAssumption
     DEF Typed, history
<1>1. TypeOK'
    BY DEF TypeOK, InHand, Task, Grant, Attempt, Tokens, RenewalFails, Leave
<1>2. InHand'
    BY DEF TypeOK, InHand, Task, Attempt, RenewalFails, Leave
<1>. QED
    BY <1>1, <1>2

LEMMA RevokeTyped ==
    ASSUME Typed, NEW h \in Requests, Revoke(h)
    PROVE  Typed'
<1>. USE ProfileFacts, AttemptFacts, GrantFacts, TaskFacts, ConnectionsAssumption
     DEF Typed, history
<1>1. task[h].copy.refresh.grant \in Grants
    BY DEF InHand, Tokens, Revoke
<1>2. TypeOK'
    BY <1>1 DEF TypeOK, Revoke, Leave
<1>3. InHand'
    BY DEF TypeOK, InHand, Task, Attempt, Revoke, Leave
<1>. QED
    BY <1>2, <1>3

LEMMA CrashTyped ==
    ASSUME Typed, Crash
    PROVE  Typed'
<1>. USE ProfileFacts, AttemptFacts, GrantFacts, TaskFacts, ConnectionsAssumption
     DEF Typed, history
<1>1. TypeOK'
    BY DEF TypeOK, InHand, Task, Grant, Attempt, Tokens, Crash
<1>2. InHand'
    BY DEF TypeOK, InHand, Task, Attempt, Crash
<1>. QED
    BY <1>1, <1>2

LEMMA AttemptExpiresTyped ==
    ASSUME Typed, NEW a \in Attempts, AttemptExpires(a)
    PROVE  Typed'
<1>. USE ProfileFacts, AttemptFacts, GrantFacts, TaskFacts, ConnectionsAssumption
     DEF Typed, history
<1>1. TypeOK'
    BY DEF TypeOK, InHand, Task, Grant, Attempt, Tokens, AttemptExpires
<1>2. InHand'
    BY DEF TypeOK, InHand, Task, Attempt, AttemptExpires
<1>. QED
    BY <1>1, <1>2

LEMMA AccessExpiresTyped ==
    ASSUME Typed, NEW p \in Profiles, AccessExpires(p)
    PROVE  Typed'
<1>. USE ProfileFacts, AttemptFacts, GrantFacts, TaskFacts, ConnectionsAssumption
     DEF Typed, history
<1>1. TypeOK'
    BY DEF TypeOK, InHand, Task, Grant, Attempt, Tokens, AccessExpires, Save
<1>2. InHand'
    BY DEF TypeOK, InHand, Task, Attempt, AccessExpires, Save
<1>. QED
    BY <1>1, <1>2

LEMMA WithdrawTyped ==
    ASSUME Typed, NEW g \in Grants, Withdraw(g)
    PROVE  Typed'
<1>. USE ProfileFacts, AttemptFacts, GrantFacts, TaskFacts, ConnectionsAssumption
     DEF Typed, history
<1>1. TypeOK'
    BY DEF TypeOK, InHand, Task, Grant, Attempt, Tokens, Withdraw
<1>2. InHand'
    BY DEF TypeOK, InHand, Task, Attempt, Withdraw
<1>. QED
    BY <1>1, <1>2

LEMMA StartTyped ==
    ASSUME Typed, NEW a \in Attempts, NEW p \in Profiles \cup {None}, Start(a, p)
    PROVE  Typed'
<1>. USE ProfileFacts, AttemptFacts, GrantFacts, TaskFacts, ConnectionsAssumption
     DEF Typed, history
<1>1. TypeOK'
    BY DEF TypeOK, InHand, Task, Grant, Attempt, Tokens, Start
<1>2. InHand'
    BY DEF TypeOK, InHand, Task, Attempt, Start
<1>. QED
    BY <1>1, <1>2

LEMMA CallbackTyped ==
    ASSUME Typed, NEW h \in Requests, NEW a \in Attempts, Callback(h, a)
    PROVE  Typed'
<1>. USE ProfileFacts, AttemptFacts, GrantFacts, TaskFacts, ConnectionsAssumption
     DEF Typed, history
<1>1. attempts[a].connection \in Profiles \cup {None}
    BY DEF TypeOK, Attempt
<1>2. TypeOK'
    BY <1>1 DEF TypeOK, Callback, Doing
<1>3. \A b \in Attempts : attempts'[b].connection = attempts[b].connection
    BY DEF TypeOK, Callback, Doing
<1>4. \A k \in Requests :
         \/ task'[k] = task[k]
         \/ /\ task'[k].at = "signin"
            /\ task'[k].profile = attempts[a].connection
    BY DEF TypeOK, Callback, Doing
<1>5. InHand'
    BY <1>3, <1>4 DEF InHand, Callback
<1>. QED
    BY <1>2, <1>5

LEMMA ExchangeTyped ==
    ASSUME Typed, NEW h \in Requests, Exchange(h)
    PROVE  Typed'
<1>. USE ProfileFacts, AttemptFacts, GrantFacts, TaskFacts, ConnectionsAssumption
     DEF Typed, history
<1>1. /\ task[h].profile \in Profiles /\ task[h].copy \in Account
      /\ task[h].copy.client \in Clients /\ task[h].attempt \in Attempts \cup {None}
    BY DEF TypeOK, InHand, Task, Account, Exchange
<1>2. vault' \in [Profiles -> Profile] /\ grants' \in [Grants -> Grant] /\ removed' \subseteq Profiles
    <2>1. CASE UNCHANGED <<vault, grants, removed>>
        BY <2>1 DEF TypeOK
    <2>2. ASSUME NEW g \in Grants, NEW s \in Subjects,
                 grants' = [grants EXCEPT ![g] = Issued(task[h].attempt, s, task[h].copy.client)]
          PROVE  grants' \in [Grants -> Grant]
        BY <1>1, <2>2 DEF TypeOK
    <2>3. ASSUME NEW g \in Grants, NEW s \in Subjects, NEW access \in BOOLEAN,
                 NEW plan \in BOOLEAN, NEW refresh \in {NoToken, [grant |-> g, version |-> 1]},
                 Save(task[h].profile, SignedIn(task[h].copy, s, access, refresh, plan))
          PROVE  vault' \in [Profiles -> Profile]
        <3>1. refresh \in Tokens \cup {NoToken}
            BY DEF Tokens
        <3>2. SignedIn(task[h].copy, s, access, refresh, plan) \in Profile
            BY <1>1, <3>1
        <3>. QED
            BY <2>3, <3>2 DEF TypeOK, Save
    <2>4. CASE \E g \in Grants, s \in Subjects :
                 /\ grants' = [grants EXCEPT ![g] =
                        Issued(task[h].attempt, s, task[h].copy.client)]
                 /\ \/ UNCHANGED <<vault, removed>>
                    \/ /\ \E access, plan \in BOOLEAN,
                             refresh \in {NoToken, [grant |-> g, version |-> 1]} :
                             Save(task[h].profile,
                                  SignedIn(task[h].copy, s, access, refresh, plan))
                       /\ removed' = removed \ {task[h].profile}
        <3>1. grants' \in [Grants -> Grant]
            BY <2>4, <2>2
        <3>2. vault' \in [Profiles -> Profile]
            BY <2>4, <2>3 DEF TypeOK
        <3>. QED
            BY <2>4, <3>1, <3>2 DEF TypeOK
    <2>. QED
        BY <2>1, <2>4 DEF Exchange
<1>3. TypeOK'
    BY <1>2 DEF TypeOK, Exchange, Leave
<1>4. \A p \in Profiles : vault[p].mode = "chatgpt" => vault'[p].mode = "chatgpt"
    <2>1. ASSUME NEW s, NEW access, NEW refresh, NEW plan
          PROVE  SignedIn(task[h].copy, s, access, refresh, plan).mode = "chatgpt"
        BY <1>1 DEF SignedIn, With
    <2>2. \/ UNCHANGED vault
          \/ \E s, access, refresh, plan :
                Save(task[h].profile, SignedIn(task[h].copy, s, access, refresh, plan))
        BY DEF Exchange
    <2>. QED
        BY <2>1, <2>2 DEF TypeOK, Save
<1>5. InHand'
    BY <1>4, LeaveInHand DEF TypeOK, Exchange
<1>. QED
    BY <1>3, <1>5

LEMMA RenewTyped ==
    ASSUME Typed, NEW h \in Requests, Renew(h)
    PROVE  Typed'
<1>. USE ProfileFacts, AttemptFacts, GrantFacts, TaskFacts, ConnectionsAssumption
     DEF Typed, history
<1>1. /\ task[h].profile \in Profiles /\ task[h].copy \in Account
      /\ task[h].copy.refresh.grant \in Grants /\ task[h].copy.refresh.version \in 1..MaxVersion
    BY DEF TypeOK, InHand, Tokens, Renew
<1>2. PICK v \in {task[h].copy.refresh.version, task[h].copy.refresh.version + 1} :
         /\ v <= MaxVersion
         /\ grants' = [grants EXCEPT ![task[h].copy.refresh.grant] =
                Rotated(grants[task[h].copy.refresh.grant], v)]
         /\ \/ /\ Save(task[h].profile,
                       Renewed(task[h].copy, [grant |-> task[h].copy.refresh.grant, version |-> v]))
               /\ given' = given \cup {task[h].profile}
               /\ UNCHANGED lost
            \/ /\ lost' = lost \cup {task[h].copy.refresh.grant}
               /\ UNCHANGED <<vault, given>>
    BY DEF Renew
<1>3. v \in 1..MaxVersion
    BY <1>1, <1>2
<1>4. /\ [grant |-> task[h].copy.refresh.grant, version |-> v] \in Tokens
      /\ Rotated(grants[task[h].copy.refresh.grant], v) \in Grant
    BY <1>1, <1>3 DEF TypeOK, Tokens
<1>5. TypeOK'
    BY <1>1, <1>2, <1>4 DEF TypeOK, Renew, Save, Leave
<1>6. \A p \in Profiles : vault[p].mode = "chatgpt" => vault'[p].mode = "chatgpt"
    <2>1. Renewed(task[h].copy, [grant |-> task[h].copy.refresh.grant, version |-> v]).mode = "chatgpt"
        BY <1>1, <1>4
    <2>. QED
        BY <1>2, <2>1 DEF TypeOK, Save
<1>7. InHand'
    BY <1>6, LeaveInHand DEF TypeOK, Renew
<1>. QED
    BY <1>5, <1>7

LEMMA DisconnectTyped ==
    ASSUME Typed, NEW h \in Requests, NEW p \in Profiles, Disconnect(h, p)
    PROVE  Typed'
<1>. USE ProfileFacts, AttemptFacts, GrantFacts, TaskFacts, ConnectionsAssumption
     DEF Typed, history
<1>1. Blank(vault[p]) \in Profile /\ Blank(vault[p]).mode = vault[p].mode
    BY DEF TypeOK, Disconnect, Exists
<1>2. vault[p].refresh # NoToken => vault[p] \in Account /\ vault[p].refresh \in Tokens
    <2>1. vault[p] \in Profile
        BY DEF TypeOK
    <2>2. \A q \in Key : q.refresh = NoToken
        BY DEF Key
    <2>3. NoProfile.refresh = NoToken
        BY DEF NoProfile
    <2>. QED
        BY <2>1, <2>2, <2>3 DEF Profile
<1>3. TypeOK'
    BY <1>1 DEF TypeOK, Disconnect, Save, Await, Doing
<1>4. \A q \in Profiles : vault'[q].mode = vault[q].mode
    BY <1>1 DEF TypeOK, Disconnect, Save
<1>5. \A k \in Requests :
         \/ task'[k] = task[k]
         \/ task'[k] = [at |-> "revoke", attempt |-> None, profile |-> p, copy |-> vault[p]]
            /\ vault[p].refresh # NoToken
    BY DEF TypeOK, Disconnect, Await, Doing
<1>6. InHand'
    <2>1. attempts' = attempts
        BY DEF Disconnect
    <2>2. /\ \A k \in Requests : task[k].profile \in Profiles \cup {None}
          /\ \A a \in Attempts : attempts[a].connection \in Profiles \cup {None}
        BY DEF TypeOK, Task, Attempt
    <2>. QED
        BY <1>2, <1>4, <1>5, <2>1, <2>2 DEF InHand
<1>. QED
    BY <1>3, <1>6

(* The step relation as one disjunct per action. *)
LEMMA NextCases ==
    ASSUME Next
    PROVE  \/ \E p \in Profiles : ApiKey(p) \/ HandOut(p) \/ AccessExpires(p)
           \/ \E a \in Attempts : AttemptExpires(a)
           \/ \E a \in Attempts, p \in Profiles \cup {None} : Start(a, p)
           \/ \E h \in Requests, a \in Attempts : Callback(h, a)
           \/ \E h \in Requests, client \in Clients : Register(h, client)
           \/ \E h \in Requests, client \in Clients \cup {None} : Reregister(h, client)
           \/ \E h \in Requests, p \in Profiles : BeginRenewal(h, p) \/ Disconnect(h, p)
           \/ \E h \in Requests : RegistrationFails(h) \/ Exchange(h) \/ Renew(h)
                                  \/ RenewalRejected(h) \/ RenewalFails(h) \/ Revoke(h)
           \/ \E g \in Grants : Withdraw(g)
           \/ Crash
    BY DEF Next, Answered

(* Type correctness, with the mode of every connection that is at hand.    *)
THEOREM TypeInvariant == Spec => []Typed
<1>1. Init => Typed
    BY ProfileFacts, AttemptFacts, GrantFacts, TaskFacts, ConnectionsAssumption
       DEF Init, Typed, TypeOK, InHand, NoAttempt
<1>2. ASSUME Typed, [Next]_vars
      PROVE  Typed'
    <2>1. CASE UNCHANGED vars
        BY <1>2, <2>1 DEF vars, history, Typed, TypeOK, InHand
    <2>2. CASE Next
        BY <1>2, <2>2, NextCases, ApiKeyTyped, HandOutTyped, AccessExpiresTyped,
           AttemptExpiresTyped, StartTyped, CallbackTyped, RegisterTyped, ReregisterTyped,
           BeginRenewalTyped, DisconnectTyped, RegistrationFailsTyped, ExchangeTyped,
           RenewTyped, RenewalRejectedTyped, RenewalFailsTyped, RevokeTyped, WithdrawTyped,
           CrashTyped
    <2>. QED
        BY <1>2, <2>1, <2>2
<1>. QED
    BY <1>1, <1>2, PTL DEF Spec

THEOREM TypeCorrect == Spec => []TypeOK
    BY TypeInvariant, PTL DEF Typed

-----------------------------------------------------------------------------
(* The gate *)

Awaiting(h) == task[h].at \in {"exchange", "refresh", "revoke"}

(* What a request awaiting an answer has read is still in the vault.       *)
CopyIsSaved ==
    \A h \in Requests :
        task[h].at \in {"exchange", "refresh"} =>
            /\ vault[task[h].profile].mode = "chatgpt"
            /\ vault[task[h].profile].subject = task[h].copy.subject
            /\ vault[task[h].profile].client = task[h].copy.client
            /\ vault[task[h].profile].refresh = task[h].copy.refresh

Gated == GateIsHeld /\ CopyIsSaved

(* Taking the gate, leaving it, and what does not concern it. *)
LEMMA AwaitGated ==
    ASSUME Typed, GateIsHeld, gate = None, NEW h \in Requests, NEW p \in Profiles,
           NEW step \in {"exchange", "refresh", "revoke"}, NEW a, NEW q,
           Await(h, step, a, p, q),
           step \in {"exchange", "refresh"} => vault'[p] = q /\ q.mode = "chatgpt"
    PROVE  Gated'
<1>1. /\ task'[h] = [at |-> step, attempt |-> a, profile |-> p, copy |-> q]
      /\ \A k \in Requests \ {h} : task'[k] = task[k]
      /\ gate' = h
    BY DEF Typed, TypeOK, Await, Doing
<1>2. \A k \in Requests : ~Awaiting(k)
    BY ConnectionsAssumption DEF GateIsHeld, Awaiting
<1>3. GateIsHeld'
    BY <1>1, <1>2 DEF GateIsHeld, Awaiting
<1>4. CopyIsSaved'
    BY <1>1, <1>2 DEF CopyIsSaved, Awaiting
<1>. QED
    BY <1>3, <1>4 DEF Gated

LEMMA LeaveGated ==
    ASSUME Typed, GateIsHeld, NEW h \in Requests, Leave(h), gate \in {h, None}
    PROVE  Gated'
<1>1. \A k \in Requests : ~Awaiting(k)'
    BY ConnectionsAssumption, TaskFacts DEF Typed, TypeOK, GateIsHeld, Leave, Awaiting
<1>2. gate' = None
    BY DEF Leave
<1>. QED
    BY <1>1, <1>2, ConnectionsAssumption DEF Gated, GateIsHeld, CopyIsSaved, Awaiting

LEMMA OtherGated ==
    ASSUME Typed, Gated, UNCHANGED gate,
           \A k \in Requests : task'[k] = task[k] \/ (~Awaiting(k) /\ ~Awaiting(k)'),
           gate = None \/ \A p \in Profiles : /\ vault'[p].mode = vault[p].mode
                                              /\ vault'[p].subject = vault[p].subject
                                              /\ vault'[p].client = vault[p].client
                                              /\ vault'[p].refresh = vault[p].refresh
    PROVE  Gated'
<1>1. GateIsHeld'
    BY DEF Gated, GateIsHeld, Awaiting
<1>2. CopyIsSaved'
    <2>1. CASE gate = None
        BY <2>1, ConnectionsAssumption DEF Gated, GateIsHeld, CopyIsSaved, Awaiting
    <2>2. CASE gate # None
        BY <2>2 DEF Gated, CopyIsSaved, Typed, InHand, Awaiting
    <2>. QED
        BY <2>1, <2>2
<1>. QED
    BY <1>1, <1>2 DEF Gated

LEMMA StepGated ==
    ASSUME Typed, Gated, [Next]_vars
    PROVE  Gated'
<1>. USE DEF history
<1>1. ASSUME UNCHANGED <<vault, task, gate>>
      PROVE  Gated'
    BY <1>1, OtherGated
<1>2. ASSUME NEW p \in Profiles, ApiKey(p)
      PROVE  Gated'
    BY <1>2, OtherGated DEF ApiKey
<1>3. ASSUME NEW p \in Profiles, AccessExpires(p)
      PROVE  Gated'
    <2>1. vault[p] \in Account
        BY <1>3, ProfileFacts DEF Typed, TypeOK, AccessExpires
    <2>2. \A q \in Profiles : /\ vault'[q].mode = vault[q].mode
                              /\ vault'[q].subject = vault[q].subject
                              /\ vault'[q].client = vault[q].client
                              /\ vault'[q].refresh = vault[q].refresh
        BY <1>3, <2>1 DEF Typed, TypeOK, AccessExpires, Save, Account
    <2>. QED
        BY <1>3, <2>2, OtherGated DEF AccessExpires
<1>4. ASSUME NEW h \in Requests, NEW a \in Attempts, Callback(h, a)
      PROVE  Gated'
    <2>1. \A k \in Requests : task'[k] = task[k] \/ (~Awaiting(k) /\ ~Awaiting(k)')
        BY <1>4, TaskFacts DEF Typed, TypeOK, Callback, Awaiting, Doing
    <2>. QED
        BY <1>4, <2>1, OtherGated DEF Callback
<1>5. ASSUME NEW h \in Requests, NEW client \in Clients, Register(h, client)
      PROVE  Gated'
    <2>1. PICK p \in Profiles :
             /\ Save(p, Registration(client))
             /\ Await(h, "exchange", task[h].attempt, p, Registration(client))
        BY <1>5 DEF Register
    <2>2. vault'[p] = Registration(client) /\ Registration(client).mode = "chatgpt"
        BY <2>1, ProfileFacts DEF Typed, TypeOK, Save
    <2>. QED
        BY <1>5, <2>1, <2>2, AwaitGated DEF Register, Gated
<1>6. ASSUME NEW h \in Requests, NEW client \in Clients \cup {None}, Reregister(h, client)
      PROVE  Gated'
    <2>1. /\ task[h].profile \in Profiles
          /\ vault[task[h].profile].mode = "chatgpt"
        BY <1>6 DEF Reregister, Typed, TypeOK, Task, InHand
    <2>. QED
        BY <1>6, <2>1, AwaitGated DEF Reregister, Gated
<1>7. ASSUME NEW h \in Requests, NEW p \in Profiles, BeginRenewal(h, p)
      PROVE  Gated'
    BY <1>7, AwaitGated DEF BeginRenewal, Gated
<1>8. ASSUME NEW h \in Requests, NEW p \in Profiles, Disconnect(h, p)
      PROVE  Gated'
    <2>1. CASE UNCHANGED <<gate, task>>
        BY <1>8, <2>1, OtherGated DEF Disconnect
    <2>2. CASE Await(h, "revoke", None, p, vault[p])
        BY <1>8, <2>2, AwaitGated DEF Disconnect, Gated
    <2>. QED
        BY <1>8, <2>1, <2>2 DEF Disconnect
<1>9. ASSUME NEW h \in Requests,
             \/ RegistrationFails(h) \/ Exchange(h) \/ Renew(h)
             \/ RenewalRejected(h) \/ RenewalFails(h) \/ Revoke(h)
      PROVE  Gated'
    <2>1. Leave(h) /\ gate \in {h, None}
        BY <1>9 DEF RegistrationFails, Exchange, Renew, RenewalRejected, RenewalFails,
           Revoke, Gated, GateIsHeld
    <2>. QED
        BY <2>1, LeaveGated DEF Gated
<1>10. ASSUME Crash
       PROVE  Gated'
    BY <1>10, ConnectionsAssumption, TaskFacts DEF Crash, Gated, GateIsHeld, CopyIsSaved
<1>. QED
    BY <1>1, <1>2, <1>3, <1>4, <1>5, <1>6, <1>7, <1>8, <1>9, <1>10, NextCases
       DEF vars, HandOut, AttemptExpires, Start, Withdraw

(* The gate is held exactly while its holder awaits the provider, and what *)
(* the holder read stays true.                                             *)
THEOREM GateInvariant == Spec => []Gated
<1>1. Init => Gated
    BY ConnectionsAssumption, TaskFacts DEF Init, Gated, GateIsHeld, CopyIsSaved
<1>. QED
    BY <1>1, TypeInvariant, StepGated, PTL DEF Spec

THEOREM GateCorrect == Spec => []GateIsHeld
    BY GateInvariant, PTL DEF Gated

-----------------------------------------------------------------------------
(* Tokens *)

(* A saved token is of a grant, and no other connection has one of it. *)
TokensAreOwn ==
    /\ \A p \in Profiles :
         vault[p].refresh # NoToken => grants[vault[p].refresh.grant].version # 0
    /\ \A p, q \in Profiles :
         /\ vault[p].refresh # NoToken /\ vault[q].refresh # NoToken
         /\ vault[p].refresh.grant = vault[q].refresh.grant
         => p = q

Consistent == TokensAreOwn /\ TokensMatchAccount /\ SavedTokenIsCurrent

(* Every step but a sign-in and a renewal that take effect only drops tokens. *)
Dropping ==
    /\ \A p \in Profiles :
         \/ vault'[p].refresh = NoToken
         \/ /\ vault'[p].refresh = vault[p].refresh
            /\ vault'[p].subject = vault[p].subject
            /\ vault'[p].client = vault[p].client
    /\ \A g \in Grants : /\ grants'[g].subject = grants[g].subject
                         /\ grants'[g].client = grants[g].client
                         /\ grants'[g].version = grants[g].version
    /\ lost \subseteq lost'

LEMMA SavedTokens ==
    ASSUME Typed, NEW p \in Profiles
    PROVE  /\ vault[p].refresh \in Tokens \cup {NoToken}
           /\ vault[p].refresh # NoToken => vault[p].refresh.grant \in Grants
    <1>1. \A q \in Key : q.refresh = NoToken
        BY DEF Key
    <1>2. NoProfile.refresh = NoToken
        BY DEF NoProfile
    <1>3. vault[p].refresh \in Tokens \cup {NoToken}
        BY <1>1, <1>2, ProfileFacts DEF Typed, TypeOK, Profile
    <1>. QED
        BY <1>3 DEF Tokens

LEMMA DroppingConsistent ==
    ASSUME Typed, Consistent, Dropping
    PROVE  Consistent'
<1>1. \A p \in Profiles : vault[p].refresh # NoToken => vault[p].refresh.grant \in Grants
    BY SavedTokens
<1>2. TokensAreOwn'
    BY <1>1 DEF Consistent, Dropping, TokensAreOwn
<1>3. TokensMatchAccount'
    BY <1>1 DEF Consistent, Dropping, TokensMatchAccount
<1>4. SavedTokenIsCurrent'
    BY <1>1 DEF Consistent, Dropping, SavedTokenIsCurrent
<1>. QED
    BY <1>2, <1>3, <1>4 DEF Consistent

LEMMA ExchangeConsistent ==
    ASSUME Typed, Gated, Consistent, NEW h \in Requests, Exchange(h)
    PROVE  Consistent'
<1>. DEFINE p == task[h].profile
            copy == task[h].copy
<1>1. p \in Profiles /\ copy \in Account
    BY DEF Typed, InHand, Exchange
<1>2. vault[p].client = copy.client
    BY DEF Gated, CopyIsSaved, Exchange
<1>3. lost' = lost
    BY DEF Exchange
<1>4. CASE UNCHANGED <<vault, grants>>
    BY <1>3, <1>4, DroppingConsistent DEF Dropping
<1>5. ASSUME NEW g \in Grants, NEW s \in Subjects,
             grants[g] = NoGrant,
             grants' = [grants EXCEPT ![g] = Issued(task[h].attempt, s, copy.client)],
             \/ UNCHANGED vault
             \/ \E access, plan \in BOOLEAN, refresh \in {NoToken, [grant |-> g, version |-> 1]} :
                   Save(p, SignedIn(copy, s, access, refresh, plan))
      PROVE  Consistent'
    <2>1. /\ grants[g].version = 0
          /\ grants'[g].version = 1 /\ grants'[g].subject = s /\ grants'[g].client = copy.client
          /\ \A k \in Grants \ {g} : grants'[k] = grants[k]
        BY <1>5 DEF Typed, TypeOK, NoGrant, Issued
    <2>2. \A q \in Profiles : vault[q].refresh # NoToken =>
              vault[q].refresh.grant \in Grants \ {g}
        BY <2>1, SavedTokens DEF Consistent, TokensAreOwn
    <2>3. \A q \in Profiles :
             \/ vault'[q] = vault[q]
             \/ vault'[q].refresh = NoToken
             \/ /\ q = p
                /\ vault'[q].refresh = [grant |-> g, version |-> 1]
                /\ vault'[q].subject = s /\ vault'[q].client = copy.client
        <3>1. CASE UNCHANGED vault
            BY <3>1
        <3>2. ASSUME NEW access, NEW plan, NEW refresh \in {NoToken, [grant |-> g, version |-> 1]},
                     Save(p, SignedIn(copy, s, access, refresh, plan))
              PROVE  /\ \A q \in Profiles \ {p} : vault'[q] = vault[q]
                     /\ vault'[p].refresh \in {NoToken, [grant |-> g, version |-> 1]}
                     /\ vault'[p].subject = s /\ vault'[p].client = copy.client
            BY <1>1, <3>2 DEF Typed, TypeOK, Save, SignedIn, With
        <3>. QED
            BY <1>5, <3>1, <3>2
    <2>4. TokensAreOwn'
        BY <2>1, <2>2, <2>3 DEF Consistent, TokensAreOwn
    <2>5. TokensMatchAccount'
        BY <2>1, <2>2, <2>3 DEF Consistent, TokensMatchAccount
    <2>6. SavedTokenIsCurrent'
        BY <1>3, <2>1, <2>2, <2>3 DEF Consistent, SavedTokenIsCurrent
    <2>. QED
        BY <2>4, <2>5, <2>6 DEF Consistent
<1>. QED
    BY <1>4, <1>5 DEF Exchange

LEMMA RenewConsistent ==
    ASSUME Typed, Gated, Consistent, NEW h \in Requests, Renew(h)
    PROVE  Consistent'
<1>. DEFINE p == task[h].profile
            copy == task[h].copy
            g == copy.refresh.grant
<1>1. p \in Profiles /\ copy \in Account /\ copy.refresh \in Tokens /\ g \in Grants
    BY DEF Typed, InHand, Tokens, Renew
<1>2. /\ vault[p].subject = copy.subject /\ vault[p].client = copy.client
      /\ vault[p].refresh = copy.refresh
    BY DEF Gated, CopyIsSaved, Renew
<1>3. copy.refresh # NoToken /\ copy.refresh.version \in 1..MaxVersion
    BY <1>1, ConnectionsAssumption DEF Tokens, NoToken
<1>4. PICK v \in {copy.refresh.version, copy.refresh.version + 1} :
         /\ grants' = [grants EXCEPT ![g] = Rotated(grants[g], v)]
         /\ \/ Save(p, Renewed(copy, [grant |-> g, version |-> v])) /\ lost' = lost
            \/ UNCHANGED vault /\ lost' = lost \cup {g}
    BY DEF Renew
<1>5. v # 0
    BY <1>3, <1>4
<1>6. /\ grants'[g].version = v
      /\ \A k \in Grants : grants'[k].subject = grants[k].subject /\ grants'[k].client = grants[k].client
      /\ \A k \in Grants \ {g} : grants'[k].version = grants[k].version
    BY <1>1, <1>4 DEF Typed, TypeOK, Rotated
<1>7. \A q \in Profiles \ {p} :
         /\ vault'[q] = vault[q]
         /\ vault[q].refresh # NoToken => vault[q].refresh.grant \in Grants \ {g}
    BY <1>1, <1>2, <1>3, <1>4, SavedTokens DEF Consistent, TokensAreOwn, Typed, TypeOK, Save
<1>8. \/ /\ vault'[p].refresh = [grant |-> g, version |-> v]
         /\ vault'[p].subject = vault[p].subject /\ vault'[p].client = vault[p].client
         /\ lost' = lost
      \/ vault'[p] = vault[p] /\ lost' = lost \cup {g}
    BY <1>1, <1>2, <1>4 DEF Typed, TypeOK, Save, Renewed, With
<1>9. TokensAreOwn'
    <2>1. vault'[p].refresh.grant = g
        BY <1>2, <1>8
    <2>2. \A q \in Profiles : vault'[q].refresh # NoToken =>
              grants'[vault'[q].refresh.grant].version # 0
        <3>1. \A q \in Profiles \ {p} : vault'[q].refresh # NoToken =>
                  grants'[vault'[q].refresh.grant].version # 0
            BY <1>6, <1>7 DEF Consistent, TokensAreOwn
        <3>. QED
            BY <1>5, <1>6, <2>1, <3>1
    <2>3. \A q \in Profiles \ {p} :
              vault'[q].refresh # NoToken => vault'[q].refresh.grant # g
        BY <1>7
    <2>4. \A q, r \in Profiles \ {p} :
             /\ vault'[q].refresh # NoToken /\ vault'[r].refresh # NoToken
             /\ vault'[q].refresh.grant = vault'[r].refresh.grant
             => q = r
        BY <1>7 DEF Consistent, TokensAreOwn
    <2>. QED
        BY <2>1, <2>2, <2>3, <2>4 DEF TokensAreOwn
<1>10. TokensMatchAccount'
    BY <1>1, <1>2, <1>3, <1>6, <1>7, <1>8 DEF Consistent, TokensMatchAccount
<1>11. SavedTokenIsCurrent'
    BY <1>1, <1>2, <1>3, <1>6, <1>7, <1>8 DEF Consistent, SavedTokenIsCurrent
<1>. QED
    BY <1>9, <1>10, <1>11 DEF Consistent

LEMMA StepConsistent ==
    ASSUME Typed, Gated, Consistent, [Next]_vars
    PROVE  Consistent'
<1>. USE DEF history
<1>1. ASSUME UNCHANGED <<vault, grants, lost>>
      PROVE  Consistent'
    BY <1>1, DroppingConsistent DEF Dropping
<1>2. ASSUME NEW p \in Profiles, NEW q, Save(p, q), q.refresh = NoToken,
             UNCHANGED <<grants, lost>>
      PROVE  Consistent'
    <2>1. \A k \in Profiles : vault'[k].refresh = NoToken \/ vault'[k] = vault[k]
        BY <1>2 DEF Typed, TypeOK, Save
    <2>. QED
        BY <1>2, <2>1, DroppingConsistent DEF Dropping
<1>3. ASSUME NEW p \in Profiles, ApiKey(p)
      PROVE  Consistent'
    BY <1>2, <1>3 DEF ApiKey, KeyProfile
<1>4. ASSUME NEW p \in Profiles, AccessExpires(p)
      PROVE  Consistent'
    <2>1. vault[p] \in Account
        BY <1>4, ProfileFacts DEF Typed, TypeOK, AccessExpires
    <2>2. \A q \in Profiles : /\ vault'[q].subject = vault[q].subject
                              /\ vault'[q].client = vault[q].client
                              /\ vault'[q].refresh = vault[q].refresh
        BY <1>4, <2>1 DEF Typed, TypeOK, AccessExpires, Save, Account
    <2>. QED
        BY <1>4, <2>2, DroppingConsistent DEF AccessExpires, Dropping
<1>5. ASSUME NEW h \in Requests, NEW client \in Clients, Register(h, client)
      PROVE  Consistent'
    BY <1>2, <1>5 DEF Register, Registration
<1>6. ASSUME NEW h \in Requests, NEW p \in Profiles, Disconnect(h, p)
      PROVE  Consistent'
    BY <1>2, <1>6 DEF Disconnect, Blank, With
<1>7. ASSUME NEW h \in Requests, RenewalRejected(h)
      PROVE  Consistent'
    <2>1. task[h].profile \in Profiles
        BY <1>7 DEF Typed, InHand, RenewalRejected
    <2>. QED
        BY <1>2, <1>7, <2>1 DEF RenewalRejected, Unrenewable, With
<1>8. ASSUME NEW g \in Grants, grants' = grants \/ grants' = [grants EXCEPT ![g] = Dead(grants[g])],
             UNCHANGED <<vault, lost>>
      PROVE  Consistent'
    <2>1. \A k \in Grants : /\ grants'[k].subject = grants[k].subject
                            /\ grants'[k].client = grants[k].client
                            /\ grants'[k].version = grants[k].version
        BY <1>8 DEF Typed, TypeOK, Dead
    <2>. QED
        BY <1>8, <2>1, DroppingConsistent DEF Dropping
<1>9. ASSUME NEW h \in Requests, Revoke(h)
      PROVE  Consistent'
    <2>1. task[h].copy.refresh.grant \in Grants
        BY <1>9 DEF Typed, InHand, Tokens, Revoke
    <2>. QED
        BY <1>8, <1>9, <2>1 DEF Revoke
<1>10. ASSUME NEW g \in Grants, Withdraw(g)
      PROVE  Consistent'
    BY <1>8, <1>10 DEF Withdraw
<1>. QED
    BY <1>1, <1>3, <1>4, <1>5, <1>6, <1>7, <1>9, <1>10, ExchangeConsistent, RenewConsistent,
       NextCases
       DEF vars, HandOut, AttemptExpires, Start, Callback, Reregister, BeginRenewal,
           RegistrationFails, RenewalFails, Crash

THEOREM TokenInvariant == Spec => []Consistent
<1>1. Init => Consistent
    BY DEF Init, NoProfile, Consistent, TokensAreOwn, TokensMatchAccount, SavedTokenIsCurrent
<1>. QED
    BY <1>1, TypeInvariant, GateInvariant, StepConsistent, PTL DEF Spec

(* The vault has the token the provider accepts, unless an answer got lost. *)
THEOREM TokenIsCurrent == Spec => []SavedTokenIsCurrent
    BY TokenInvariant, PTL DEF Consistent

(* Tokens stay with the account and registration they were issued for. *)
THEOREM TokensMatch == Spec => []TokensMatchAccount
    BY TokenInvariant, PTL DEF Consistent

-----------------------------------------------------------------------------
(* Removal *)

Silent == RemovedIsSilent /\ \A p \in removed : Exists(p)

LEMMA ExchangeSilent ==
    ASSUME Typed, Silent, NEW h \in Requests, Exchange(h)
    PROVE  Silent'
<1>1. CASE UNCHANGED <<vault, removed>>
    BY <1>1 DEF Exchange, Silent, RemovedIsSilent, Exists
<1>2. ASSUME NEW q, Save(task[h].profile, q), removed' = removed \ {task[h].profile}
      PROVE  Silent'
    <2>1. \A p \in removed' : p \in removed /\ vault'[p] = vault[p]
        BY <1>2 DEF Typed, TypeOK, Save
    <2>2. given' = given
        BY DEF Exchange
    <2>. QED
        BY <2>1, <2>2 DEF Silent, RemovedIsSilent, Exists
<1>. QED
    BY <1>1, <1>2 DEF Exchange

LEMMA RenewSilent ==
    ASSUME Typed, Gated, Silent, NEW h \in Requests, Renew(h)
    PROVE  Silent'
<1>. DEFINE p == task[h].profile
<1>1. p \in Profiles /\ vault[p].refresh \in Tokens
    BY DEF Typed, InHand, Gated, CopyIsSaved, Renew
<1>2. p \notin removed
    BY <1>1, ConnectionsAssumption DEF Silent, RemovedIsSilent, Tokens, NoToken
<1>3. \A q \in removed : vault'[q] = vault[q] /\ (q \in given' => q \in given)
    BY <1>1, <1>2 DEF Typed, TypeOK, Renew, Save
<1>. QED
    BY <1>3 DEF Silent, RemovedIsSilent, Exists, Renew

LEMMA StepSilent ==
    ASSUME Typed, Gated, Silent, [Next]_vars
    PROVE  Silent'
<1>. USE DEF history
<1>1. ASSUME UNCHANGED <<vault, removed, given>>
      PROVE  Silent'
    BY <1>1 DEF Silent, RemovedIsSilent, Exists
<1>2. ASSUME NEW p \in Profiles, NEW q, Save(p, q), UNCHANGED <<removed, given>>,
             p \notin removed \/ (q.mode # "none" /\ ~q.access /\ q.refresh = NoToken)
      PROVE  Silent'
    <2>1. \A k \in removed : vault'[k] = vault[k] \/ (k = p /\ vault'[k] = q)
        BY <1>2 DEF Typed, TypeOK, Save
    <2>. QED
        BY <1>2, <2>1 DEF Silent, RemovedIsSilent, Exists
<1>3. ASSUME NEW p \in Profiles, ApiKey(p)
      PROVE  Silent'
    BY <1>2, <1>3 DEF ApiKey, Silent
<1>4. ASSUME NEW h \in Requests, NEW client \in Clients, Register(h, client)
      PROVE  Silent'
    BY <1>2, <1>4 DEF Register, Silent
<1>5. ASSUME NEW p \in Profiles, AccessExpires(p)
      PROVE  Silent'
    <2>1. vault[p] \in Account
        BY <1>5, ProfileFacts DEF Typed, TypeOK, AccessExpires
    <2>2. \A q \in Profiles : /\ vault'[q].mode = vault[q].mode
                              /\ vault'[q].access = vault[q].access
                              /\ vault'[q].refresh = vault[q].refresh
        BY <1>5, <2>1 DEF Typed, TypeOK, AccessExpires, Save, Account
    <2>. QED
        BY <1>5, <2>2 DEF AccessExpires, Typed, TypeOK, Silent, RemovedIsSilent, Exists
<1>6. ASSUME NEW p \in Profiles, HandOut(p)
      PROVE  Silent'
    <2>1. p \notin removed
        BY <1>6 DEF HandOut, Silent, RemovedIsSilent
    <2>. QED
        BY <1>6, <2>1 DEF HandOut, Silent, RemovedIsSilent, Exists
<1>7. ASSUME NEW h \in Requests, NEW p \in Profiles, Disconnect(h, p)
      PROVE  Silent'
    <2>1. /\ vault'[p] = Blank(vault[p])
          /\ \A q \in Profiles \ {p} : vault'[q] = vault[q]
          /\ removed' = removed \cup {p} /\ given' = given \ {p}
        BY <1>7 DEF Typed, TypeOK, Disconnect, Save
    <2>2. vault'[p].mode # "none" /\ ~vault'[p].access /\ vault'[p].refresh = NoToken
        BY <1>7, <2>1 DEF Disconnect, Exists, Blank, With
    <2>. QED
        BY <2>1, <2>2 DEF Typed, TypeOK, Silent, RemovedIsSilent, Exists
<1>8. ASSUME NEW h \in Requests, RenewalRejected(h)
      PROVE  Silent'
    <2>1. task[h].profile \in Profiles /\ task[h].copy \in Account
        BY <1>8 DEF Typed, InHand, RenewalRejected
    <2>2. LET q == Unrenewable(task[h].copy)
          IN  q.mode # "none" /\ ~q.access /\ q.refresh = NoToken
        BY <2>1, ProfileFacts DEF Unrenewable, With
    <2>. QED
        BY <1>2, <1>8, <2>1, <2>2 DEF RenewalRejected
<1>. QED
    BY <1>1, <1>3, <1>4, <1>5, <1>6, <1>7, <1>8, ExchangeSilent, RenewSilent, NextCases
       DEF vars, AttemptExpires, Start, Callback, Reregister, BeginRenewal,
           RegistrationFails, RenewalFails, Revoke, Withdraw, Crash

LEMMA SilentInvariant == Spec => []Silent
<1>1. Init => Silent
    BY DEF Init, Silent, RemovedIsSilent
<1>. QED
    BY <1>1, TypeInvariant, GateInvariant, StepSilent, PTL DEF Spec

(* A removed connection keeps no token and hands out no credential. *)
THEOREM RemovalIsEffective == Spec => []RemovedIsSilent
    BY SilentInvariant, PTL DEF Silent

-----------------------------------------------------------------------------
(* Sign-ins *)

Unused(a) == attempts[a].status # "gone"

(* An attempt has passed to at most one request, and from it to one grant. *)
Spent ==
    /\ \A a \in Attempts : Unused(a) =>
          /\ \A g \in Grants : grants[g].attempt # a
          /\ \A h \in Requests : task[h].attempt # a
    /\ \A h \in Requests : task[h].attempt # None =>
          /\ \A g \in Grants : grants[g].attempt # task[h].attempt
          /\ \A k \in Requests : task[k].attempt = task[h].attempt => k = h

SignIns == OneSignInPerAttempt /\ Spent

LEMMA OtherSignIns ==
    ASSUME Typed, SignIns,
           \A a \in Attempts : Unused(a)' => Unused(a),
           \A h \in Requests : task'[h].attempt \in {task[h].attempt, None},
           \A g \in Grants : grants'[g].attempt = grants[g].attempt
    PROVE  SignIns'
<1>1. OneSignInPerAttempt'
    BY DEF SignIns, OneSignInPerAttempt
<1>2. Spent'
    BY ConnectionsAssumption DEF SignIns, Spent
<1>. QED
    BY <1>1, <1>2 DEF SignIns

LEMMA CallbackSignIns ==
    ASSUME Typed, SignIns, NEW h \in Requests, NEW a \in Attempts, Callback(h, a)
    PROVE  SignIns'
<1>1. Unused(a) /\ grants' = grants
    BY DEF Callback, Unused
<1>2. \A b \in Attempts : Unused(b)' => Unused(b) /\ b # a
    BY DEF Typed, TypeOK, Callback, Unused, Taken
<1>3. \A k \in Requests : task'[k].attempt = task[k].attempt \/ (k = h /\ task'[k].attempt = a)
    BY DEF Typed, TypeOK, Callback, Doing
<1>4. OneSignInPerAttempt'
    BY <1>1 DEF SignIns, OneSignInPerAttempt
<1>5. Spent'
    BY <1>1, <1>2, <1>3 DEF SignIns, Spent
<1>. QED
    BY <1>4, <1>5 DEF SignIns

LEMMA ExchangeSignIns ==
    ASSUME Typed, SignIns, NEW h \in Requests, Exchange(h)
    PROVE  SignIns'
<1>1. /\ task'[h].attempt = None
      /\ \A k \in Requests \ {h} : task'[k] = task[k]
      /\ attempts' = attempts
    BY DEF Typed, TypeOK, Exchange, Leave, Idle, Doing
<1>2. CASE UNCHANGED grants
    BY <1>1, <1>2, OtherSignIns DEF Unused
<1>3. ASSUME NEW g \in Grants, NEW s, NEW c,
             grants' = [grants EXCEPT ![g] = Issued(task[h].attempt, s, c)]
      PROVE  SignIns'
    <2>1. /\ grants'[g].attempt = task[h].attempt
          /\ \A k \in Grants \ {g} : grants'[k] = grants[k]
        BY <1>3 DEF Typed, TypeOK, Issued
    <2>2. OneSignInPerAttempt'
        BY <2>1 DEF SignIns, OneSignInPerAttempt, Spent
    <2>3. Spent'
        BY <1>1, <2>1, ConnectionsAssumption DEF SignIns, Spent, Unused
    <2>. QED
        BY <2>2, <2>3 DEF SignIns
<1>. QED
    BY <1>2, <1>3 DEF Exchange

LEMMA StepSignIns ==
    ASSUME Typed, SignIns, [Next]_vars
    PROVE  SignIns'
<1>. USE DEF history
<1>1. ASSUME UNCHANGED <<attempts, task, grants>>
      PROVE  SignIns'
    BY <1>1, OtherSignIns DEF Unused
<1>2. ASSUME NEW h \in Requests, Leave(h), UNCHANGED attempts,
             \A g \in Grants : grants'[g].attempt = grants[g].attempt
      PROVE  SignIns'
    <2>1. \A k \in Requests : task'[k].attempt \in {task[k].attempt, None}
        BY <1>2 DEF Typed, TypeOK, Leave, Idle, Doing
    <2>. QED
        BY <1>2, <2>1, OtherSignIns DEF Unused
<1>3. ASSUME NEW h \in Requests, NEW step, NEW p, NEW q, NEW a \in {task[h].attempt, None},
             Await(h, step, a, p, q), UNCHANGED <<attempts, grants>>
      PROVE  SignIns'
    <2>1. \A k \in Requests : task'[k].attempt \in {task[k].attempt, None}
        BY <1>3 DEF Typed, TypeOK, Await, Doing
    <2>. QED
        BY <1>3, <2>1, OtherSignIns DEF Unused
<1>4. ASSUME NEW g \in Grants, NEW k, k.attempt = grants[g].attempt,
             grants' = [grants EXCEPT ![g] = k]
      PROVE  \A j \in Grants : grants'[j].attempt = grants[j].attempt
    BY <1>4 DEF Typed, TypeOK
<1>5. ASSUME NEW a \in Attempts, NEW p, Start(a, p)
      PROVE  SignIns'
    <2>1. \A b \in Attempts : Unused(b)' => Unused(b)
        BY <1>5 DEF Typed, TypeOK, Start, Unused, Opened, Taken
    <2>. QED
        BY <1>5, <2>1, OtherSignIns DEF Start
<1>6. ASSUME NEW a \in Attempts, AttemptExpires(a)
      PROVE  SignIns'
    <2>1. \A b \in Attempts : Unused(b)' => Unused(b)
        BY <1>6 DEF Typed, TypeOK, AttemptExpires, Unused, Expired
    <2>. QED
        BY <1>6, <2>1, OtherSignIns DEF AttemptExpires
<1>7. ASSUME Crash
      PROVE  SignIns'
    <2>1. \A b \in Attempts : Unused(b)' => Unused(b)
        BY <1>7 DEF Typed, TypeOK, Crash, Unused, Taken
    <2>2. \A k \in Requests : task'[k].attempt = None
        BY <1>7 DEF Crash, Idle, Doing
    <2>. QED
        BY <1>7, <2>1, <2>2, OtherSignIns DEF Crash
<1>8. ASSUME NEW h \in Requests, Renew(h) \/ Revoke(h)
      PROVE  SignIns'
    <2>1. task[h].copy.refresh.grant \in Grants
        BY <1>8 DEF Typed, InHand, Tokens, Renew, Revoke
    <2>2. \A g \in Grants : grants'[g].attempt = grants[g].attempt
        BY <1>4, <1>8, <2>1 DEF Renew, Revoke, Rotated, Dead
    <2>. QED
        BY <1>2, <1>8, <2>2 DEF Renew, Revoke
<1>9. ASSUME NEW g \in Grants, Withdraw(g)
      PROVE  SignIns'
    <2>1. \A j \in Grants : grants'[j].attempt = grants[j].attempt
        BY <1>4, <1>9 DEF Withdraw, Dead
    <2>. QED
        BY <1>9, <2>1, OtherSignIns DEF Withdraw, Unused
<1>10. ASSUME NEW h \in Requests, RegistrationFails(h) \/ RenewalRejected(h) \/ RenewalFails(h)
       PROVE  SignIns'
    BY <1>2, <1>10 DEF RegistrationFails, RenewalRejected, RenewalFails
<1>11. ASSUME NEW h \in Requests, NEW client, Register(h, client) \/ Reregister(h, client)
       PROVE  SignIns'
    BY <1>3, <1>11 DEF Register, Reregister
<1>12. ASSUME NEW h \in Requests, NEW p \in Profiles, BeginRenewal(h, p) \/ Disconnect(h, p)
       PROVE  SignIns'
    BY <1>1, <1>3, <1>12 DEF BeginRenewal, Disconnect
<1>. QED
    BY <1>1, <1>5, <1>6, <1>7, <1>8, <1>9, <1>10, <1>11, <1>12, CallbackSignIns,
       ExchangeSignIns, NextCases
       DEF vars, ApiKey, HandOut, AccessExpires

LEMMA SignInInvariant == Spec => []SignIns
<1>1. Init => SignIns
    BY ConnectionsAssumption
       DEF Init, SignIns, OneSignInPerAttempt, Spent, NoGrant, Idle, NoAttempt, Doing
<1>. QED
    BY <1>1, TypeInvariant, StepSignIns, PTL DEF Spec

(* However its callback is repeated, an attempt leads to one grant. *)
THEOREM AttemptsAreSingle == Spec => []OneSignInPerAttempt
    BY SignInInvariant, PTL DEF SignIns

-----------------------------------------------------------------------------
(* Accounts *)

KeepsAccounts ==
    \A p \in Profiles :
        /\ vault[p].subject # None => vault'[p].subject = vault[p].subject
        /\ vault[p].client # None => vault'[p].client = vault[p].client

LEMMA StepKeepsAccounts ==
    ASSUME Typed, Gated, [Next]_vars
    PROVE  KeepsAccounts
<1>. USE DEF history
<1>1. ASSUME UNCHANGED vault
      PROVE  KeepsAccounts
    BY <1>1 DEF KeepsAccounts
<1>2. ASSUME NEW p \in Profiles, NEW q, Save(p, q), ~Exists(p)
      PROVE  KeepsAccounts
    <2>1. vault[p] = NoProfile
        <3>1. \A k \in Key : k.mode = "api"
            BY DEF Key
        <3>. QED
            BY <1>2, <3>1, ProfileFacts DEF Typed, TypeOK, Exists, Profile
    <2>. QED
        BY <1>2, <2>1 DEF Typed, TypeOK, KeepsAccounts, Save, NoProfile
<1>3. ASSUME NEW p \in Profiles, NEW q, Save(p, q), q.client = vault[p].client,
             vault[p].subject = None \/ q.subject = vault[p].subject
      PROVE  KeepsAccounts
    BY <1>3 DEF Typed, TypeOK, KeepsAccounts, Save
<1>4. ASSUME NEW p \in Profiles, AccessExpires(p)
      PROVE  KeepsAccounts
    <2>1. vault[p] \in Account
        BY <1>4, ProfileFacts DEF Typed, TypeOK, AccessExpires
    <2>. QED
        BY <1>4, <2>1 DEF Typed, TypeOK, AccessExpires, Save, Account, KeepsAccounts
<1>5. ASSUME NEW h \in Requests, NEW p \in Profiles, Disconnect(h, p)
      PROVE  KeepsAccounts
    BY <1>3, <1>5 DEF Disconnect, Blank, With
<1>6. ASSUME NEW h \in Requests, task[h].at \in {"exchange", "refresh"}
      PROVE  /\ task[h].profile \in Profiles
             /\ vault[task[h].profile].subject = task[h].copy.subject
             /\ vault[task[h].profile].client = task[h].copy.client
    BY <1>6 DEF Typed, InHand, Gated, CopyIsSaved
<1>7. ASSUME NEW h \in Requests, Exchange(h)
      PROVE  KeepsAccounts
    <2>1. \/ UNCHANGED vault
          \/ \E s, access, refresh, plan :
               /\ SameAccount(task[h].copy, s)
               /\ Save(task[h].profile, SignedIn(task[h].copy, s, access, refresh, plan))
        BY <1>7 DEF Exchange
    <2>2. task[h].at = "exchange"
        BY <1>7 DEF Exchange
    <2>. QED
        BY <1>1, <1>3, <1>6, <2>1, <2>2 DEF SameAccount, SignedIn, With
<1>8. ASSUME NEW h \in Requests, Renew(h)
      PROVE  KeepsAccounts
    BY <1>1, <1>3, <1>6, <1>8 DEF Renew, Renewed, With
<1>9. ASSUME NEW h \in Requests, RenewalRejected(h)
      PROVE  KeepsAccounts
    BY <1>3, <1>6, <1>9 DEF RenewalRejected, Unrenewable, With
<1>. QED
    BY <1>1, <1>2, <1>4, <1>5, <1>7, <1>8, <1>9, NextCases
       DEF vars, ApiKey, Register, HandOut, AttemptExpires, Start, Callback, Reregister,
           BeginRenewal, RegistrationFails, RenewalFails, Revoke, Withdraw, Crash

(* The account and the registration of a connection never change. *)
THEOREM AccountsAreKept == Spec => AccountIsKept
<1>1. ASSUME Typed, Gated, [Next]_vars
      PROVE  [\A p \in Profiles :
                 /\ vault[p].subject # None => vault'[p].subject = vault[p].subject
                 /\ vault[p].client # None => vault'[p].client = vault[p].client]_vars
    BY <1>1, StepKeepsAccounts DEF KeepsAccounts
<1>. QED
    BY <1>1, TypeInvariant, GateInvariant, PTL DEF Spec, AccountIsKept

=============================================================================
