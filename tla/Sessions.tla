------------------------------- MODULE Sessions -------------------------------
(***************************************************************************)
(* The sessions of one account.  A session is a family of refresh tokens,  *)
(* each spent for its successor; access tokens and the sessions of a       *)
(* stack's Adminer are grants that carry the token version of the account. *)
(* A change of password, a suspension and a reset by the administrator     *)
(* revoke the tokens and count the version up.  A handler reads the        *)
(* account first and writes later, in another statement.                   *)
(***************************************************************************)
EXTENDS PanelBase

CONSTANTS
    SesMaxTokens,   \* bound: refresh tokens ever issued
    SesMaxEpochs,   \* bound: changes of credentials
    SesMaxOps       \* bound: requests that read before they write

ASSUME SesAssumption == SesMaxTokens \in Nat /\ SesMaxEpochs \in Nat /\ SesMaxOps \in Nat

VARIABLES
    sesEpoch,      \* how often the sessions have been revoked so far
    sesVersion,    \* token_version of the account
    sesSuspended,
    sesTotp,       \* totp_enabled
    sesToken,      \* sesToken[t]: refresh token t, or None
    sesGrant,      \* grants given: the version they carry, the epoch of the account read
    sesTask,       \* sesTask[i]: the handler of request i
    sesEnded,      \* families that a reused token has ended
    sesTwice       \* history: a version was written that was in use already

sesVars == <<sesEpoch, sesVersion, sesSuspended, sesTotp, sesToken, sesGrant, sesTask, sesEnded,
             sesTwice>>
sesAccount == <<sesEpoch, sesVersion, sesSuspended, sesTwice>>

SesTokens == 1 .. SesMaxTokens
SesRequests == 1 .. SesMaxOps
SesEpochs == 0 .. SesMaxEpochs
SesRow == [family : SesTokens, born : SesEpochs, revoked : BOOLEAN, late : BOOLEAN]
SesNoTask == [kind |-> None, pc |-> "off", version |-> 0, epoch |-> 0, token |-> 0]

\* The absence of a row is not a row.
ASSUME SesNoneAssumption == None \notin SesRow

Issued == {t \in SesTokens : sesToken[t] # None}
Live == {t \in Issued : ~sesToken[t].revoked}
FamilyOf(t) == {u \in Issued : sesToken[u].family = sesToken[t].family}

SesTypeOK ==
    /\ sesEpoch \in SesEpochs /\ sesVersion \in SesEpochs
    /\ \A t \in Issued : sesToken[t].family \in SesTokens /\ sesToken[t].born \in SesEpochs
    /\ sesGrant \subseteq [version : SesEpochs, epoch : SesEpochs]
    /\ \A i \in SesRequests :
         sesTask[i].pc \in {"off", "code", "issue", "claim", "reuse", "write", "revoke"}

\* A request has read the account; the version is the one its tokens will carry.
SesAccept(i, kind, pc, t) ==
    /\ sesTask[i].kind = None /\ \A j \in 1 .. i - 1 : sesTask[j].kind # None
    /\ sesTask' = [sesTask EXCEPT ![i] = [kind |-> kind, pc |-> pc, version |-> sesVersion,
                                          epoch |-> sesEpoch, token |-> t]]
SesEnd(i) == sesTask' = [sesTask EXCEPT ![i].pc = "off"]

Revoked(tokens) == [t \in SesTokens |-> IF t \in tokens THEN [sesToken[t] EXCEPT !.revoked = TRUE]
                                        ELSE sesToken[t]]

\* _issue_tokens(): a row of its own, and an access token of the version read.
IssueTokens(i, tokens, family, late) ==
    LET t == 1 + Cardinality(Issued) IN
    /\ t \in SesTokens
    /\ sesToken' = [tokens EXCEPT ![t] =
                      [family |-> IF family = None THEN t ELSE family, born |-> sesTask[i].epoch,
                       revoked |-> FALSE, late |-> late]]
    /\ sesGrant' = sesGrant \cup {[version |-> sesTask[i].version, epoch |-> sesTask[i].epoch]}

-----------------------------------------------------------------------------
(* Login.                                                                  *)

Login(i) ==
    /\ ~sesSuspended
    /\ SesAccept(i, "login", IF sesTotp THEN "code" ELSE "issue", 0)
    /\ UNCHANGED <<sesAccount, sesTotp, sesToken, sesGrant, sesEnded>>

\* The second request of a login reads the account again.
LoginTotp(i) ==
    /\ sesTask[i].pc = "code"
    /\ IF sesSuspended \/ ~sesTotp THEN SesEnd(i)
       ELSE sesTask' = [sesTask EXCEPT ![i].pc = "issue", ![i].version = sesVersion,
                                       ![i].epoch = sesEpoch]
    /\ UNCHANGED <<sesAccount, sesTotp, sesToken, sesGrant, sesEnded>>

\* Sessions that were revoked since the account was read are not looked at.
LoginIssues(i) ==
    /\ sesTask[i].pc = "issue"
    /\ IssueTokens(i, sesToken, None, sesTask[i].epoch # sesEpoch)
    /\ SesEnd(i)
    /\ UNCHANGED <<sesAccount, sesTotp, sesEnded>>

-----------------------------------------------------------------------------
(* Refresh: the token is read, then claimed.                               *)

Refresh(i, t) ==
    /\ t \in Issued
    /\ sesToken[t].revoked \/ ~sesSuspended
    /\ SesAccept(i, "refresh", IF sesToken[t].revoked THEN "reuse" ELSE "claim", t)
    /\ UNCHANGED <<sesAccount, sesTotp, sesToken, sesGrant, sesEnded>>

\* Mutation: the token that was read is claimed, whatever has become of it.
AlwaysClaimable(t) == TRUE

\* The update claims the token only while nobody has revoked it.
Claimable(t) == ~sesToken[t].revoked

\* The claim and the successor are one transaction.
Rotate(i) ==
    /\ sesTask[i].pc = "claim"
    /\ LET t == sesTask[i].token IN
       /\ Claimable(t)
       /\ IssueTokens(i, Revoked({t}), sesToken[t].family, sesToken[t].late)
    /\ SesEnd(i)
    /\ UNCHANGED <<sesAccount, sesTotp, sesEnded>>

\* A token that was spent before ends the whole family.
EndFamily(i) ==
    /\ LET t == sesTask[i].token IN
       /\ sesTask[i].pc = "reuse" \/ (sesTask[i].pc = "claim" /\ ~Claimable(t))
       /\ sesToken' = Revoked(FamilyOf(t))
       /\ sesEnded' = sesEnded \cup {sesToken[t].family}
    /\ SesEnd(i)
    /\ UNCHANGED <<sesAccount, sesTotp, sesGrant>>

-----------------------------------------------------------------------------
(* Single sessions.                                                        *)

Logout(t) ==
    /\ t \in Live
    /\ sesToken' = Revoked({t})
    /\ UNCHANGED <<sesAccount, sesTotp, sesGrant, sesTask, sesEnded>>

RevokeSession(i, t) ==
    /\ t \in Live
    /\ SesAccept(i, "revoke", "revoke", t)
    /\ UNCHANGED <<sesAccount, sesTotp, sesToken, sesGrant, sesEnded>>

\* The session may have been refreshed since it was read: its successor lives.
RevokeRead(i) ==
    /\ sesTask[i].pc = "revoke"
    /\ sesToken' = Revoked({sesTask[i].token})
    /\ SesEnd(i)
    /\ UNCHANGED <<sesAccount, sesTotp, sesGrant, sesEnded>>

RevokeOthers(t) ==
    /\ t \in Live /\ Live # {t}
    /\ sesToken' = Revoked(Live \ {t})
    /\ UNCHANGED <<sesAccount, sesTotp, sesGrant, sesTask, sesEnded>>

\* A grant that is accepted: get_current_user(), _stack_adminer_upstream().
Accepted(g) == g.version = sesVersion /\ ~sesSuspended

\* The session of a stack's Adminer is bound to the version of the account.
StackSession(g) ==
    /\ g \in sesGrant /\ Accepted(g)
    /\ sesGrant' = sesGrant \cup {[version |-> sesVersion, epoch |-> sesEpoch]}
    /\ UNCHANGED <<sesAccount, sesTotp, sesToken, sesTask, sesEnded>>

-----------------------------------------------------------------------------
(* Changes of the credentials.                                             *)

RevokeAll(version) ==
    /\ sesEpoch < SesMaxEpochs
    /\ sesEpoch' = sesEpoch + 1
    /\ sesVersion' = version
    /\ sesTwice' = (sesTwice \/ version # sesVersion + 1)
    /\ sesToken' = Revoked(Live)

\* change_password() adds one to the version it has read.
ChangePassword(i) ==
    /\ \E g \in sesGrant : Accepted(g)
    /\ SesAccept(i, "change", "write", 0)
    /\ UNCHANGED <<sesAccount, sesTotp, sesToken, sesGrant, sesEnded>>
CommitPassword(i) ==
    /\ sesTask[i].pc = "write"
    /\ RevokeAll(sesTask[i].version + 1)
    /\ SesEnd(i)
    /\ UNCHANGED <<sesSuspended, sesTotp, sesGrant, sesEnded>>

\* _revoke_sessions() leaves the sum to the database.
ResetPassword ==
    /\ RevokeAll(sesVersion + 1)
    /\ UNCHANGED <<sesSuspended, sesTotp, sesGrant, sesTask, sesEnded>>
Suspend ==
    /\ RevokeAll(sesVersion + 1)
    /\ sesSuspended' = TRUE
    /\ UNCHANGED <<sesTotp, sesGrant, sesTask, sesEnded>>
Unsuspend ==
    /\ sesSuspended
    /\ sesSuspended' = FALSE
    /\ UNCHANGED <<sesEpoch, sesVersion, sesTwice, sesTotp, sesToken, sesGrant, sesTask, sesEnded>>
ResetTotp ==
    /\ sesTotp
    /\ RevokeAll(sesVersion + 1)
    /\ sesTotp' = FALSE
    /\ UNCHANGED <<sesSuspended, sesGrant, sesTask, sesEnded>>

\* Neither revokes a session.
SetTotp(on) ==
    /\ sesTotp # on
    /\ \E g \in sesGrant : Accepted(g)
    /\ sesTotp' = on
    /\ UNCHANGED <<sesAccount, sesToken, sesGrant, sesTask, sesEnded>>

-----------------------------------------------------------------------------
SesInit ==
    /\ sesEpoch = 0 /\ sesVersion = 0 /\ sesSuspended = FALSE /\ sesTotp = FALSE
    /\ sesToken = [t \in SesTokens |-> None]
    /\ sesGrant = {} /\ sesEnded = {} /\ sesTwice = FALSE
    /\ sesTask = [i \in SesRequests |-> SesNoTask]

SesNext ==
    \/ ResetPassword \/ Suspend \/ Unsuspend \/ ResetTotp
    \/ \E on \in BOOLEAN : SetTotp(on)
    \/ \E g \in sesGrant : StackSession(g)
    \/ \E t \in SesTokens : Logout(t) \/ RevokeOthers(t)
    \/ \E i \in SesRequests :
         \/ Login(i) \/ LoginTotp(i) \/ LoginIssues(i) \/ Rotate(i) \/ EndFamily(i)
         \/ RevokeRead(i) \/ ChangePassword(i) \/ CommitPassword(i)
         \/ \E t \in SesTokens : Refresh(i, t) \/ RevokeSession(i, t)

SesSpec == SesInit /\ [][SesNext]_sesVars

-----------------------------------------------------------------------------
(* Properties.                                                             *)

\* No session outlives the credentials it was opened with, and a suspended
\* account has none: but for a login that had read the account before they
\* changed and wrote its token after it.
TokensCurrent ==
    \A t \in {u \in Live : ~sesToken[u].late} : sesToken[t].born = sesEpoch /\ ~sesSuspended

\* A family has one token that can be refreshed, however often it was tried at
\* once, and none after a spent one was seen again.
OneLivePerFamily ==
    \A t \in Live : FamilyOf(t) \cap Live = {t} /\ sesToken[t].family \notin sesEnded

\* A grant that is accepted was given after the last change, unless two
\* changes have written the same version.
GrantsCurrent == sesTwice \/ \A g \in sesGrant : Accepted(g) => g.epoch = sesEpoch

SessionsEndTogether == TokensCurrent /\ OneLivePerFamily /\ GrantsCurrent
=============================================================================
