----------------------------- MODULE AccountProofs -----------------------------
(***************************************************************************)
(* What the parts around accounts promise, for any number of requests and  *)
(* failures: the sessions of an account end together, the ranges of the    *)
(* tenants are accounted for, notices follow the checks, zones agree with  *)
(* their owners and with Cloudflare, sources of repositories with GitHub,  *)
(* and the file manager opens the files of whom it has authorised.         *)
(***************************************************************************)
EXTENDS Sessions, AccountTenants, Notices, DnsZones, GitSources, FileSessions, Induction

SesPc == {"off", "code", "issue", "claim", "reuse", "write", "revoke"}
SesGrants == [version : SesEpochs, epoch : SesEpochs]
SesTaskRecord == [kind : {None, "login", "refresh", "revoke", "change"}, pc : SesPc,
                  version : SesEpochs, epoch : SesEpochs, token : SesTokens \cup {0}]

SesShapes ==
    /\ sesEpoch \in SesEpochs /\ sesVersion \in 0 .. sesEpoch
    /\ sesSuspended \in BOOLEAN /\ sesTotp \in BOOLEAN /\ sesTwice \in BOOLEAN
    /\ sesToken \in [SesTokens -> SesRow \cup {None}]
    /\ sesGrant \subseteq SesGrants
    /\ sesTask \in [SesRequests -> SesTaskRecord]

\* Tokens are numbered as they are issued, families by their first token: the
\* next number is that of no token and of no family.
Numbered ==
    /\ \E n \in 0 .. SesMaxTokens : Issued = 1 .. n
    /\ \A t \in Issued : sesToken[t].family \in Issued
    /\ sesEnded \subseteq Issued

\* What a request has read is not from the future; the token it works on has
\* been issued and has not survived a revocation since; and a login that is
\* about to write an account that nobody has changed was not suspended.
RequestsInTime ==
    \A i \in SesRequests :
        /\ sesTask[i].version <= sesTask[i].epoch /\ sesTask[i].epoch <= sesEpoch
        /\ sesTask[i].pc \in {"claim", "reuse", "revoke"} => sesTask[i].token \in Issued
        /\ sesTask[i].pc = "claim" /\ sesTask[i].token \in Live => sesTask[i].epoch = sesEpoch
        /\ sesTask[i].pc = "issue" /\ sesTask[i].epoch = sesEpoch => ~sesSuspended

\* While no version was written twice it counts the revocations, also where
\* it was read.
VersionsCount ==
    sesTwice \/ /\ sesVersion = sesEpoch
                /\ \A g \in sesGrant : g.version = g.epoch
                /\ \A i \in SesRequests : sesTask[i].version = sesTask[i].epoch

SesStrong ==
    SesShapes /\ Numbered /\ RequestsInTime /\ VersionsCount /\ TokensCurrent /\ OneLivePerFamily

-----------------------------------------------------------------------------
LEMMA SesInitStrong == SesInit => SesStrong
<1> SUFFICES ASSUME SesInit PROVE SesStrong
  OBVIOUS
<1>1. SesNoTask \in SesTaskRecord /\ 0 \in SesEpochs /\ sesVersion \in 0 .. sesEpoch
  BY SesAssumption DEF SesInit, SesEpochs, SesTaskRecord, SesNoTask, SesPc
<1>2. SesShapes
  BY <1>1 DEF SesInit, SesShapes
<1>3. Issued = 1 .. 0
  BY DEF SesInit, Issued
<1>4. Numbered
  BY <1>3, SesAssumption DEF SesInit, Numbered
<1>5. RequestsInTime
  BY DEF SesInit, RequestsInTime, SesNoTask
<1> QED
  BY <1>3, <1>4, <1>5, <1>2
     DEF SesInit, SesStrong, VersionsCount, TokensCurrent, OneLivePerFamily, Live, SesNoTask

\* The number of the next token is the one above those that were issued.
LEMMA NextToken ==
    ASSUME Numbered, SesAssumption, 1 + Cardinality(Issued) \in SesTokens
    PROVE  1 + Cardinality(Issued) \notin Issued
<1>1. PICK n \in 0 .. SesMaxTokens : Issued = 1 .. n
  BY DEF Numbered
<1>2. Cardinality(Issued) = n
  BY <1>1, FS_Interval, SesAssumption
<1> QED
  BY <1>1, <1>2, SesAssumption

\* A revocation changes what is revoked and nothing else.
LEMMA RevokedRows ==
    ASSUME SesShapes, NEW tokens \in SUBSET Issued
    PROVE  /\ Revoked(tokens) \in [SesTokens -> SesRow \cup {None}]
           /\ \A t \in SesTokens \ Issued : Revoked(tokens)[t] = None
           /\ \A t \in Issued :
                /\ Revoked(tokens)[t] \in SesRow /\ Revoked(tokens)[t] # None
                /\ Revoked(tokens)[t].family = sesToken[t].family
                /\ Revoked(tokens)[t].born = sesToken[t].born
                /\ Revoked(tokens)[t].late = sesToken[t].late
                /\ Revoked(tokens)[t].revoked = (sesToken[t].revoked \/ t \in tokens)
<1>1. ASSUME NEW t \in SesTokens \ Issued
      PROVE  Revoked(tokens)[t] = None
  BY DEF Revoked, Issued
<1>2. ASSUME NEW t \in Issued
      PROVE  /\ Revoked(tokens)[t] \in SesRow /\ Revoked(tokens)[t] # None
             /\ Revoked(tokens)[t].family = sesToken[t].family
             /\ Revoked(tokens)[t].born = sesToken[t].born
             /\ Revoked(tokens)[t].late = sesToken[t].late
             /\ Revoked(tokens)[t].revoked = (sesToken[t].revoked \/ t \in tokens)
  <2>1. t \in SesTokens /\ sesToken[t] \in SesRow
    BY DEF SesShapes, Issued
  <2>2. Revoked(tokens)[t] = IF t \in tokens THEN [sesToken[t] EXCEPT !.revoked = TRUE]
                             ELSE sesToken[t]
    BY <2>1 DEF Revoked
  <2>3. CASE t \in tokens
    BY <2>1, <2>2, <2>3, SesNoneAssumption DEF SesRow
  <2>4. CASE t \notin tokens
    BY <2>1, <2>2, <2>4, SesNoneAssumption DEF SesRow
  <2> QED
    BY <2>3, <2>4
<1>3. Revoked(tokens) = [t \in SesTokens |-> Revoked(tokens)[t]]
  BY DEF Revoked
<1> QED
  BY <1>1, <1>2, <1>3 DEF Issued

LEMMA RevokedTokens ==
    ASSUME SesShapes, NEW tokens \in SUBSET Issued, sesToken' = Revoked(tokens)
    PROVE  /\ sesToken' \in [SesTokens -> SesRow \cup {None}]
           /\ Issued' = Issued /\ Live' = Live \ tokens
           /\ \A t \in Issued : /\ sesToken'[t].family = sesToken[t].family
                                /\ sesToken'[t].born = sesToken[t].born
                                /\ sesToken'[t].late = sesToken[t].late
<1>1. Issued' = Issued
  BY RevokedRows DEF Issued
<1>2. Live' = Live \ tokens
  BY <1>1, RevokedRows DEF Live
<1> QED
  BY <1>1, <1>2, RevokedRows

-----------------------------------------------------------------------------
(* Requests start and end.                                                 *)

LEMMA SesAcceptTask ==
    ASSUME SesShapes, NEW i \in SesRequests,
           NEW kind \in {"login", "refresh", "revoke", "change"}, NEW pc \in SesPc,
           NEW t \in SesTokens \cup {0}, SesAccept(i, kind, pc, t)
    PROVE  /\ sesTask' \in [SesRequests -> SesTaskRecord]
           /\ sesTask'[i].pc = pc /\ sesTask'[i].token = t
           /\ sesTask'[i].version = sesVersion /\ sesTask'[i].epoch = sesEpoch
           /\ \A j \in SesRequests \ {i} : sesTask'[j] = sesTask[j]
  BY SesAssumption DEF SesShapes, SesAccept, SesTaskRecord, SesEpochs

LEMMA SesEndTask ==
    ASSUME SesShapes, NEW i \in SesRequests, SesEnd(i)
    PROVE  /\ sesTask' \in [SesRequests -> SesTaskRecord]
           /\ \A j \in SesRequests :
                /\ sesTask'[j].version = sesTask[j].version /\ sesTask'[j].epoch = sesTask[j].epoch
                /\ sesTask'[j].pc # "off" => sesTask'[j] = sesTask[j]
  BY DEF SesShapes, SesEnd, SesTaskRecord, SesPc

\* Where neither the tokens change nor what they are held against.
LEMMA TokensKept ==
    ASSUME SesStrong, UNCHANGED <<sesEpoch, sesSuspended, sesToken, sesEnded>>
    PROVE  /\ Issued' = Issued /\ Live' = Live
           /\ Numbered' /\ TokensCurrent' /\ OneLivePerFamily'
<1>1. Issued' = Issued /\ Live' = Live
  BY DEF Issued, Live
<1> QED
  BY <1>1 DEF SesStrong, Numbered, TokensCurrent, OneLivePerFamily, FamilyOf, Issued, Live

\* A request is accepted: it has read what is so now.
LEMMA SesAcceptStrong ==
    ASSUME SesStrong, NEW i \in SesRequests,
           NEW kind \in {"login", "refresh", "revoke", "change"}, NEW pc \in SesPc,
           NEW t \in SesTokens \cup {0}, SesAccept(i, kind, pc, t),
           pc \in {"claim", "reuse", "revoke"} => t \in Issued,
           pc = "issue" => ~sesSuspended,
           UNCHANGED <<sesAccount, sesTotp, sesToken, sesGrant, sesEnded>>
    PROVE  SesStrong'
<1>1. SesShapes /\ UNCHANGED <<sesEpoch, sesVersion, sesSuspended, sesTwice, sesTotp>>
  BY DEF SesStrong, sesAccount
<1>2. Issued' = Issued /\ Live' = Live /\ Numbered' /\ TokensCurrent' /\ OneLivePerFamily'
  BY <1>1, TokensKept
<1>3. SesShapes'
  BY <1>1, SesAcceptTask DEF SesShapes
<1>4. RequestsInTime'
  BY <1>1, <1>2, SesAcceptTask, SesAssumption
     DEF SesStrong, SesShapes, RequestsInTime, SesAccept, SesEpochs
<1>5. VersionsCount'
  BY <1>1, SesAcceptTask DEF SesStrong, VersionsCount
<1> QED
  BY <1>2, <1>3, <1>4, <1>5 DEF SesStrong

LEMMA LoginStrong ==
    ASSUME SesStrong, NEW i \in SesRequests, Login(i)
    PROVE  SesStrong'
<1>1. (IF sesTotp THEN "code" ELSE "issue") \in SesPc \ {"claim", "reuse", "revoke"}
  BY DEF SesPc
<1> QED
  BY <1>1, SesAcceptStrong DEF Login

LEMMA LoginTotpStrong ==
    ASSUME SesStrong, NEW i \in SesRequests, LoginTotp(i)
    PROVE  SesStrong'
<1>1. SesShapes /\ UNCHANGED <<sesEpoch, sesVersion, sesSuspended, sesTwice, sesTotp>>
  BY DEF SesStrong, LoginTotp, sesAccount
<1>2. Issued' = Issued /\ Live' = Live /\ Numbered' /\ TokensCurrent' /\ OneLivePerFamily'
  BY <1>1, TokensKept DEF LoginTotp
<1>3. CASE SesEnd(i)
  <2>1. SesShapes'
    BY <1>1, <1>3, SesEndTask DEF SesShapes, LoginTotp
  <2>2. RequestsInTime'
    BY <1>1, <1>2, <1>3, SesEndTask DEF SesStrong, RequestsInTime
  <2>3. VersionsCount'
    BY <1>1, <1>3, SesEndTask DEF SesStrong, VersionsCount, LoginTotp
  <2> QED
    BY <1>2, <2>1, <2>2, <2>3 DEF SesStrong
<1>4. CASE ~SesEnd(i)
  <2>1. /\ ~sesSuspended
        /\ sesTask' = [sesTask EXCEPT ![i].pc = "issue", ![i].version = sesVersion,
                                      ![i].epoch = sesEpoch]
    BY <1>4 DEF LoginTotp
  <2>2. /\ sesTask' \in [SesRequests -> SesTaskRecord]
        /\ sesTask'[i].pc = "issue"
        /\ sesTask'[i].version = sesVersion /\ sesTask'[i].epoch = sesEpoch
        /\ \A j \in SesRequests \ {i} : sesTask'[j] = sesTask[j]
    <3>1. sesVersion \in SesEpochs /\ sesEpoch \in SesEpochs /\ sesTask[i] \in SesTaskRecord
      BY <1>1, SesAssumption DEF SesShapes, SesEpochs
    <3>2. [sesTask[i] EXCEPT !.pc = "issue", !.version = sesVersion, !.epoch = sesEpoch]
            \in SesTaskRecord
      BY <3>1 DEF SesTaskRecord, SesPc
    <3> QED
      BY <1>1, <2>1, <3>1, <3>2 DEF SesShapes, SesTaskRecord
  <2>3. SesShapes'
    BY <1>1, <2>2 DEF SesShapes, LoginTotp
  <2>4. RequestsInTime'
    BY <1>1, <1>2, <2>1, <2>2, SesAssumption DEF SesStrong, SesShapes, RequestsInTime, SesEpochs
  <2>5. VersionsCount'
    BY <1>1, <2>2 DEF SesStrong, VersionsCount, LoginTotp
  <2> QED
    BY <1>2, <2>3, <2>4, <2>5 DEF SesStrong
<1> QED
  BY <1>3, <1>4

LEMMA RefreshStrong ==
    ASSUME SesStrong, NEW i \in SesRequests, NEW t \in SesTokens,
           Refresh(i, t) \/ RevokeSession(i, t)
    PROVE  SesStrong'
<1>1. (IF sesToken[t].revoked THEN "reuse" ELSE "claim") \in SesPc \ {"issue"}
      /\ "revoke" \in SesPc \ {"issue"}
  BY DEF SesPc
<1> QED
  BY <1>1, SesAcceptStrong DEF Refresh, RevokeSession, Live

LEMMA ChangePasswordStrong ==
    ASSUME SesStrong, NEW i \in SesRequests, ChangePassword(i)
    PROVE  SesStrong'
  BY SesAcceptStrong DEF ChangePassword, SesPc

\* Two-factor authentication and the session of a stack's Adminer.
LEMMA SetTotpStrong ==
    ASSUME SesStrong, NEW on \in BOOLEAN, SetTotp(on)
    PROVE  SesStrong'
<1>1. UNCHANGED <<sesEpoch, sesVersion, sesSuspended, sesTwice, sesToken, sesGrant, sesTask,
                  sesEnded>> /\ sesTotp' \in BOOLEAN
  BY DEF SetTotp, sesAccount
<1>2. Issued' = Issued /\ Live' = Live /\ Numbered' /\ TokensCurrent' /\ OneLivePerFamily'
  BY <1>1, TokensKept
<1> QED
  BY <1>1, <1>2 DEF SesStrong, SesShapes, RequestsInTime, VersionsCount

LEMMA StackSessionStrong ==
    ASSUME SesStrong, NEW g \in sesGrant, StackSession(g)
    PROVE  SesStrong'
<1>1. UNCHANGED <<sesEpoch, sesVersion, sesSuspended, sesTwice, sesTotp, sesToken, sesTask, sesEnded>>
  BY DEF StackSession, sesAccount
<1>2. Issued' = Issued /\ Live' = Live /\ Numbered' /\ TokensCurrent' /\ OneLivePerFamily'
  BY <1>1, TokensKept
<1>3. SesShapes'
  BY <1>1, SesAssumption DEF SesStrong, SesShapes, StackSession, SesGrants, SesEpochs
<1>4. RequestsInTime' /\ VersionsCount'
  BY <1>1, <1>2 DEF SesStrong, RequestsInTime, VersionsCount, StackSession
<1> QED
  BY <1>2, <1>3, <1>4 DEF SesStrong

-----------------------------------------------------------------------------
(* Tokens are written.                                                     *)

\* _issue_tokens() on the tokens there are, or on those a claim has left.
LEMMA TokensIssued ==
    ASSUME SesStrong, NEW i \in SesRequests,
           NEW tokens \in SUBSET Issued, NEW family \in Issued \cup {None}, NEW late \in BOOLEAN,
           IssueTokens(i, Revoked(tokens), family, late), UNCHANGED sesEnded
    PROVE  \E t \in SesTokens \ Issued :
             /\ sesToken' \in [SesTokens -> SesRow \cup {None}]
             /\ Issued' = Issued \cup {t} /\ Live' = (Live \ tokens) \cup {t}
             /\ \A u \in Issued : /\ sesToken'[u].family = sesToken[u].family
                                  /\ sesToken'[u].born = sesToken[u].born
                                  /\ sesToken'[u].late = sesToken[u].late
             /\ sesToken'[t].family = (IF family = None THEN t ELSE family)
             /\ sesToken'[t].born = sesTask[i].epoch /\ sesToken'[t].late = late
             /\ Numbered'
<1> DEFINE t == 1 + Cardinality(Issued)
           f == Revoked(tokens)
           row == [family |-> IF family = None THEN t ELSE family, born |-> sesTask[i].epoch,
                   revoked |-> FALSE, late |-> late]
<1>1. t \in SesTokens \ Issued /\ sesToken' = [f EXCEPT ![t] = row]
  BY NextToken, SesAssumption DEF IssueTokens, SesStrong
<1>2. row \in SesRow /\ row # None /\ ~row.revoked
      /\ row.family = (IF family = None THEN t ELSE family)
      /\ row.born = sesTask[i].epoch /\ row.late = late
  <2>1. row \in SesRow
    BY <1>1 DEF SesStrong, SesShapes, SesRow, SesTaskRecord, Issued
  <2> QED
    BY <2>1, SesNoneAssumption
<1>3. PICK n \in 0 .. SesMaxTokens : Issued = 1 .. n /\ t = n + 1
  <2>1. PICK n \in 0 .. SesMaxTokens : Issued = 1 .. n
    BY DEF SesStrong, Numbered
  <2>2. Cardinality(Issued) = n
    BY <2>1, FS_Interval, SesAssumption
  <2> QED
    BY <2>1, <2>2
<1> HIDE DEF t, f, row
<1>4. /\ f \in [SesTokens -> SesRow \cup {None}]
      /\ \A u \in SesTokens \ Issued : f[u] = None
      /\ \A u \in Issued :
           /\ f[u] # None /\ f[u].family = sesToken[u].family
           /\ f[u].born = sesToken[u].born /\ f[u].late = sesToken[u].late
           /\ f[u].revoked = (sesToken[u].revoked \/ u \in tokens)
  BY RevokedRows DEF SesStrong, f
<1>5. /\ sesToken' \in [SesTokens -> SesRow \cup {None}] /\ sesToken'[t] = row
      /\ \A u \in SesTokens \ {t} : sesToken'[u] = f[u]
  BY <1>1, <1>2, <1>4
<1>6. Issued' = Issued \cup {t}
  BY <1>1, <1>2, <1>4, <1>5 DEF Issued
<1>7. Live' = (Live \ tokens) \cup {t}
  BY <1>1, <1>2, <1>4, <1>5, <1>6 DEF Live, Issued
<1>8. \A u \in Issued : u \in SesTokens \ {t} /\ sesToken'[u] = f[u]
  BY <1>1, <1>5 DEF Issued
<1>9. Numbered'
  <2>1. n + 1 \in 0 .. SesMaxTokens /\ Issued' = 1 .. n + 1
    BY <1>1, <1>3, <1>6, SesAssumption DEF SesTokens
  <2>2. sesEnded' \subseteq Issued'
    BY <1>6 DEF SesStrong, Numbered
  <2>3. \A u \in Issued' : sesToken'[u].family \in Issued'
    BY <1>2, <1>4, <1>5, <1>6, <1>8 DEF SesStrong, Numbered
  <2> QED
    BY <2>1, <2>2, <2>3 DEF Numbered
<1> QED
  BY <1>1, <1>2, <1>4, <1>5, <1>6, <1>7, <1>8, <1>9

\* What a step that writes tokens leaves of the requests that go on.
LEMMA RequestsGoOn ==
    ASSUME SesStrong, UNCHANGED <<sesEpoch, sesVersion, sesSuspended, sesTwice>>,
           NEW t \in SesTokens \ Issued, Issued \subseteq Issued', Live' \subseteq Live \cup {t},
           \/ sesTask' = sesTask
           \/ \E i \in SesRequests : SesEnd(i)
    PROVE  RequestsInTime'
<1>1. \A j \in SesRequests :
         /\ sesTask'[j].version = sesTask[j].version /\ sesTask'[j].epoch = sesTask[j].epoch
         /\ sesTask'[j].pc # "off" => sesTask'[j] = sesTask[j]
  BY SesEndTask DEF SesStrong
<1> QED
  BY <1>1 DEF SesStrong, RequestsInTime

LEMMA LoginIssuesStrong ==
    ASSUME SesStrong, NEW i \in SesRequests, LoginIssues(i)
    PROVE  SesStrong'
<1>1. SesShapes /\ UNCHANGED <<sesEpoch, sesVersion, sesSuspended, sesTwice, sesTotp, sesEnded>>
  BY DEF SesStrong, LoginIssues, sesAccount
<1>2. Revoked({}) = sesToken
  BY <1>1 DEF Revoked, SesShapes
<1> DEFINE late == sesTask[i].epoch # sesEpoch
<1>3. PICK t \in SesTokens \ Issued :
         /\ sesToken' \in [SesTokens -> SesRow \cup {None}]
         /\ Issued' = Issued \cup {t} /\ Live' = Live \cup {t}
         /\ \A u \in Issued : /\ sesToken'[u].family = sesToken[u].family
                              /\ sesToken'[u].born = sesToken[u].born
                              /\ sesToken'[u].late = sesToken[u].late
         /\ sesToken'[t].family = t
         /\ sesToken'[t].born = sesTask[i].epoch /\ sesToken'[t].late = late
         /\ Numbered'
  <2>1. IssueTokens(i, Revoked({}), None, late)
    BY <1>2 DEF LoginIssues
  <2> HIDE DEF late
  <2>2. late \in BOOLEAN
    BY DEF late
  <2> QED
    BY <1>1, <2>1, <2>2, TokensIssued
<1>4. SesShapes'
  <2>1. sesGrant' \subseteq SesGrants
    BY <1>1, SesAssumption DEF LoginIssues, IssueTokens, SesShapes, SesGrants, SesTaskRecord
  <2> QED
    BY <1>1, <1>3, <2>1, SesEndTask DEF SesShapes, LoginIssues
<1>5. RequestsInTime'
  BY <1>1, <1>3, RequestsGoOn DEF LoginIssues
<1>6. VersionsCount'
  BY <1>1, SesEndTask DEF SesStrong, VersionsCount, LoginIssues, IssueTokens
<1>7. TokensCurrent'
  <2>1. sesTask[i].epoch = sesEpoch => ~sesSuspended
    BY DEF SesStrong, RequestsInTime, LoginIssues
  <2> QED
    BY <1>1, <1>3, <2>1 DEF SesStrong, TokensCurrent, Live
<1>8. OneLivePerFamily'
  BY <1>1, <1>3 DEF SesStrong, OneLivePerFamily, FamilyOf, Live, Numbered
<1> QED
  BY <1>3, <1>4, <1>5, <1>6, <1>7, <1>8 DEF SesStrong

LEMMA RotateStrong ==
    ASSUME SesStrong, NEW i \in SesRequests, Rotate(i)
    PROVE  SesStrong'
<1> DEFINE old == sesTask[i].token
           family == sesToken[old].family
           late == sesToken[old].late
<1>1. SesShapes /\ UNCHANGED <<sesEpoch, sesVersion, sesSuspended, sesTwice, sesTotp, sesEnded>>
  BY DEF SesStrong, Rotate, sesAccount
<1>2. old \in Live /\ old \in Issued /\ sesTask[i].epoch = sesEpoch
  BY DEF SesStrong, RequestsInTime, Rotate, Claimable, Live
<1>3. family \in Issued /\ family # None /\ late \in BOOLEAN
  BY <1>2, NoneAssumption DEF SesStrong, Numbered, SesShapes, SesRow, Issued, SesTokens
<1>4. IssueTokens(i, Revoked({old}), family, late)
  BY DEF Rotate
<1> HIDE DEF old, family, late
<1>5. PICK t \in SesTokens \ Issued :
         /\ sesToken' \in [SesTokens -> SesRow \cup {None}]
         /\ Issued' = Issued \cup {t} /\ Live' = (Live \ {old}) \cup {t}
         /\ \A u \in Issued : /\ sesToken'[u].family = sesToken[u].family
                              /\ sesToken'[u].born = sesToken[u].born
                              /\ sesToken'[u].late = sesToken[u].late
         /\ sesToken'[t].family = family
         /\ sesToken'[t].born = sesTask[i].epoch /\ sesToken'[t].late = late
         /\ Numbered'
  BY <1>1, <1>2, <1>3, <1>4, TokensIssued
<1>6. SesShapes'
  <2>1. sesGrant' \subseteq SesGrants
    BY <1>1, <1>4, SesAssumption DEF IssueTokens, SesShapes, SesGrants, SesTaskRecord
  <2> QED
    BY <1>1, <1>5, <2>1, SesEndTask DEF SesShapes, Rotate
<1>7. RequestsInTime'
  BY <1>1, <1>5, RequestsGoOn DEF Rotate
<1>8. VersionsCount'
  BY <1>1, <1>4, SesEndTask DEF SesStrong, VersionsCount, Rotate, IssueTokens
<1>9. TokensCurrent'
  BY <1>1, <1>2, <1>5 DEF SesStrong, TokensCurrent, Live, late
<1>10. OneLivePerFamily'
  <2>1. FamilyOf(old) \cap Live = {old} /\ family \notin sesEnded
    BY <1>2 DEF SesStrong, OneLivePerFamily, family
  <2>2. \A u \in Live \ {old} : sesToken[u].family # family
    BY <1>2, <2>1 DEF FamilyOf, Live, family
  <2>3. \A u \in Live' : u = t \/ u \in Live \ {old}
    BY <1>5
  <2>4. \A u \in Live : u \in Issued
    BY DEF Live
  <2>5. ASSUME NEW u \in Live' PROVE FamilyOf(u)' \cap Live' = {u} /\ sesToken'[u].family \notin sesEnded'
    <3>1. CASE u = t
      BY <1>1, <1>5, <2>1, <2>2, <2>4, <3>1 DEF FamilyOf
    <3>2. CASE u # t
      BY <1>1, <1>5, <2>1, <2>2, <2>3, <2>4, <3>2 DEF FamilyOf, SesStrong, OneLivePerFamily
    <3> QED
      BY <3>1, <3>2
  <2> QED
    BY <2>5 DEF OneLivePerFamily
<1> QED
  BY <1>5, <1>6, <1>7, <1>8, <1>9, <1>10 DEF SesStrong

\* Tokens are revoked and nothing else happens to the account.
LEMMA TokensRevoked ==
    ASSUME SesStrong, NEW tokens \in SUBSET Issued, sesToken' = Revoked(tokens),
           NEW families \in SUBSET {sesToken[t].family : t \in tokens},
           sesEnded' = sesEnded \cup families,
           \A t \in tokens : sesToken[t].family \in families => FamilyOf(t) \subseteq tokens,
           UNCHANGED <<sesEpoch, sesVersion, sesSuspended, sesTwice, sesTotp, sesGrant>>,
           \/ sesTask' = sesTask
           \/ \E i \in SesRequests : SesEnd(i)
    PROVE  SesStrong'
<1>1. SesShapes
  BY DEF SesStrong
<1>2. /\ sesToken' \in [SesTokens -> SesRow \cup {None}]
      /\ Issued' = Issued /\ Live' = Live \ tokens
      /\ \A t \in Issued : /\ sesToken'[t].family = sesToken[t].family
                           /\ sesToken'[t].born = sesToken[t].born
                           /\ sesToken'[t].late = sesToken[t].late
  BY <1>1, RevokedTokens
<1>3. /\ sesTask' \in [SesRequests -> SesTaskRecord]
      /\ \A j \in SesRequests :
           /\ sesTask'[j].version = sesTask[j].version /\ sesTask'[j].epoch = sesTask[j].epoch
           /\ sesTask'[j].pc # "off" => sesTask'[j] = sesTask[j]
  BY <1>1, SesEndTask DEF SesShapes
<1>4. SesShapes'
  BY <1>1, <1>2, <1>3 DEF SesShapes
<1>5. Numbered'
  <2>1. Numbered /\ \A t \in tokens : sesToken[t].family \in Issued
    BY DEF SesStrong, Numbered
  <2>2. sesEnded' \subseteq Issued
    BY <2>1 DEF Numbered
  <2> QED
    BY <1>2, <2>1, <2>2 DEF Numbered
<1>6. RequestsInTime'
  BY <1>2, <1>3 DEF SesStrong, RequestsInTime
<1>7. VersionsCount'
  BY <1>3 DEF SesStrong, VersionsCount
<1>8. TokensCurrent'
  BY <1>2 DEF SesStrong, TokensCurrent, Live
<1>9. OneLivePerFamily'
  BY <1>2 DEF SesStrong, OneLivePerFamily, FamilyOf, Live
<1> QED
  BY <1>4, <1>5, <1>6, <1>7, <1>8, <1>9 DEF SesStrong

LEMMA EndFamilyStrong ==
    ASSUME SesStrong, NEW i \in SesRequests, EndFamily(i)
    PROVE  SesStrong'
<1> DEFINE t == sesTask[i].token
<1>1. t \in Issued
  BY DEF SesStrong, RequestsInTime, EndFamily
<1>2. /\ FamilyOf(t) \in SUBSET Issued /\ t \in FamilyOf(t)
      /\ \A u \in FamilyOf(t) : FamilyOf(u) \subseteq FamilyOf(t)
  BY <1>1 DEF FamilyOf
<1>3. {sesToken[t].family} \in SUBSET {sesToken[u].family : u \in FamilyOf(t)}
  BY <1>2
<1>4. /\ sesToken' = Revoked(FamilyOf(t)) /\ sesEnded' = sesEnded \cup {sesToken[t].family}
      /\ UNCHANGED <<sesEpoch, sesVersion, sesSuspended, sesTwice, sesTotp, sesGrant>>
      /\ SesEnd(i)
  BY DEF EndFamily, sesAccount
<1> HIDE DEF t
<1> QED
  BY <1>2, <1>3, <1>4, TokensRevoked

LEMMA RevokeReadStrong ==
    ASSUME SesStrong, NEW i \in SesRequests, RevokeRead(i)
    PROVE  SesStrong'
<1>1. {sesTask[i].token} \in SUBSET Issued
  BY DEF SesStrong, RequestsInTime, RevokeRead
<1>2. /\ sesToken' = Revoked({sesTask[i].token}) /\ sesEnded' = sesEnded \cup {}
      /\ UNCHANGED <<sesEpoch, sesVersion, sesSuspended, sesTwice, sesTotp, sesGrant>>
      /\ SesEnd(i)
  BY DEF RevokeRead, sesAccount
<1> QED
  BY <1>1, <1>2, TokensRevoked

LEMMA LogoutStrong ==
    ASSUME SesStrong, NEW t \in SesTokens, Logout(t) \/ RevokeOthers(t)
    PROVE  SesStrong'
<1>1. {t} \in SUBSET Issued /\ Live \ {t} \in SUBSET Issued
  BY DEF Logout, RevokeOthers, Live
<1>2. /\ sesToken' = Revoked({t}) \/ sesToken' = Revoked(Live \ {t})
      /\ sesEnded' = sesEnded \cup {} /\ UNCHANGED sesTask
      /\ UNCHANGED <<sesEpoch, sesVersion, sesSuspended, sesTwice, sesTotp, sesGrant>>
  BY DEF Logout, RevokeOthers, sesAccount
<1>3. {} \in SUBSET {sesToken[u].family : u \in {t}}
      /\ {} \in SUBSET {sesToken[u].family : u \in Live \ {t}}
  OBVIOUS
<1>4. CASE sesToken' = Revoked({t})
  BY <1>1, <1>2, <1>3, <1>4, TokensRevoked
<1>5. CASE sesToken' = Revoked(Live \ {t})
  BY <1>1, <1>2, <1>3, <1>5, TokensRevoked
<1> QED
  BY <1>2, <1>4, <1>5

-----------------------------------------------------------------------------
(* Changes of the credentials.                                             *)

\* Nothing lives on; what was read before is from before.
LEMMA RevokeAllStrong ==
    ASSUME SesStrong, NEW version \in 1 .. sesEpoch + 1, RevokeAll(version),
           sesSuspended' \in BOOLEAN, sesTotp' \in BOOLEAN, UNCHANGED <<sesGrant, sesEnded>>,
           \/ sesTask' = sesTask
           \/ \E i \in SesRequests : SesEnd(i)
    PROVE  SesStrong'
<1>1. SesShapes /\ Live \in SUBSET Issued
  BY DEF SesStrong, Live
<1>2. /\ sesToken' \in [SesTokens -> SesRow \cup {None}]
      /\ Issued' = Issued /\ Live' = {}
      /\ \A t \in Issued : /\ sesToken'[t].family = sesToken[t].family
                           /\ sesToken'[t].born = sesToken[t].born
                           /\ sesToken'[t].late = sesToken[t].late
  BY <1>1, RevokedTokens DEF RevokeAll
<1>3. /\ sesTask' \in [SesRequests -> SesTaskRecord]
      /\ \A j \in SesRequests :
           /\ sesTask'[j].version = sesTask[j].version /\ sesTask'[j].epoch = sesTask[j].epoch
           /\ sesTask'[j].pc # "off" => sesTask'[j] = sesTask[j]
  BY <1>1, SesEndTask DEF SesShapes
<1>4. /\ sesEpoch \in 0 .. SesMaxEpochs /\ sesEpoch' = sesEpoch + 1 /\ sesVersion' = version
      /\ sesEpoch + 1 \in SesEpochs /\ sesTwice' = (sesTwice \/ version # sesVersion + 1)
  BY <1>1, SesAssumption DEF RevokeAll, SesShapes, SesEpochs
<1>5. SesShapes'
  BY <1>1, <1>2, <1>3, <1>4 DEF SesShapes
<1>6. Numbered'
  BY <1>2 DEF SesStrong, Numbered
<1>7. RequestsInTime'
  <2>1. \A j \in SesRequests : sesTask[j].version <= sesTask[j].epoch /\ sesTask[j].epoch <= sesEpoch
    BY DEF SesStrong, RequestsInTime
  <2>2. \A j \in SesRequests : sesTask[j].version \in Nat /\ sesTask[j].epoch \in Nat
    BY <1>1 DEF SesShapes, SesTaskRecord, SesEpochs
  <2>3. \A j \in SesRequests : /\ sesTask'[j].version <= sesTask'[j].epoch
                               /\ sesTask'[j].epoch < sesEpoch'
    BY <1>3, <1>4, <2>1, <2>2
  <2>4. \A j \in SesRequests :
           sesTask'[j].pc \in {"claim", "reuse", "revoke"} => sesTask'[j].token \in Issued'
    BY <1>2, <1>3 DEF SesStrong, RequestsInTime
  <2> QED
    BY <1>2, <1>3, <1>4, <2>2, <2>3, <2>4 DEF RequestsInTime
<1>8. VersionsCount'
  BY <1>1, <1>3, <1>4 DEF SesStrong, VersionsCount, SesShapes
<1>9. TokensCurrent' /\ OneLivePerFamily'
  BY <1>2 DEF TokensCurrent, OneLivePerFamily
<1> QED
  BY <1>5, <1>6, <1>7, <1>8, <1>9 DEF SesStrong

LEMMA CommitPasswordStrong ==
    ASSUME SesStrong, NEW i \in SesRequests, CommitPassword(i)
    PROVE  SesStrong'
<1>1. sesTask[i].version \in 0 .. sesEpoch
  BY SesAssumption DEF SesStrong, SesShapes, SesTaskRecord, SesEpochs, RequestsInTime
<1>2. sesTask[i].version + 1 \in 1 .. sesEpoch + 1
  BY <1>1, SesAssumption DEF SesStrong, SesShapes, SesEpochs
<1> QED
  BY <1>2, RevokeAllStrong DEF SesStrong, SesShapes, CommitPassword

LEMMA ResetStrong ==
    ASSUME SesStrong, ResetPassword \/ Suspend \/ ResetTotp
    PROVE  SesStrong'
<1>1. sesVersion + 1 \in 1 .. sesEpoch + 1
  BY SesAssumption DEF SesStrong, SesShapes, SesEpochs
<1> QED
  BY <1>1, RevokeAllStrong DEF SesStrong, SesShapes, ResetPassword, Suspend, ResetTotp

LEMMA UnsuspendStrong ==
    ASSUME SesStrong, Unsuspend
    PROVE  SesStrong'
<1>1. Issued' = Issued /\ Live' = Live
  BY DEF Unsuspend, Issued, Live
<1> QED
  BY <1>1 DEF Unsuspend, SesStrong, SesShapes, Numbered, RequestsInTime, VersionsCount,
              TokensCurrent, OneLivePerFamily, FamilyOf

-----------------------------------------------------------------------------
LEMMA SesNextStrong == SesStrong /\ [SesNext]_sesVars => SesStrong'
<1> SUFFICES ASSUME SesStrong, [SesNext]_sesVars PROVE SesStrong'
  OBVIOUS
<1>1. CASE UNCHANGED sesVars
  <2>1. Issued' = Issued /\ Live' = Live
    BY <1>1 DEF sesVars, Issued, Live
  <2> QED
    BY <1>1, <2>1 DEF sesVars, SesStrong, SesShapes, Numbered, RequestsInTime, VersionsCount,
                      TokensCurrent, OneLivePerFamily, FamilyOf
<1>2. CASE ResetPassword \/ Suspend \/ ResetTotp
  BY <1>2, ResetStrong
<1>3. CASE Unsuspend
  BY <1>3, UnsuspendStrong
<1>4. CASE \E on \in BOOLEAN : SetTotp(on)
  BY <1>4, SetTotpStrong
<1>5. CASE \E g \in sesGrant : StackSession(g)
  BY <1>5, StackSessionStrong
<1>6. CASE \E t \in SesTokens : Logout(t) \/ RevokeOthers(t)
  BY <1>6, LogoutStrong
<1>7. ASSUME NEW i \in SesRequests,
             \/ Login(i) \/ LoginTotp(i) \/ LoginIssues(i) \/ Rotate(i) \/ EndFamily(i)
             \/ RevokeRead(i) \/ ChangePassword(i) \/ CommitPassword(i)
      PROVE  SesStrong'
  BY <1>7, LoginStrong, LoginTotpStrong, LoginIssuesStrong, RotateStrong, EndFamilyStrong,
     RevokeReadStrong, ChangePasswordStrong, CommitPasswordStrong
<1>8. ASSUME NEW i \in SesRequests, NEW t \in SesTokens, Refresh(i, t) \/ RevokeSession(i, t)
      PROVE  SesStrong'
  BY <1>8, RefreshStrong
<1> QED
  BY <1>1, <1>2, <1>3, <1>4, <1>5, <1>6, <1>7, <1>8 DEF SesNext

LEMMA SesStrongImplies == SesStrong => SesTypeOK /\ SessionsEndTogether
<1> SUFFICES ASSUME SesStrong PROVE SesTypeOK /\ SessionsEndTogether
  OBVIOUS
<1>1. SesTypeOK
  BY SesAssumption DEF SesStrong, SesShapes, SesTypeOK, SesGrants, SesTaskRecord, SesPc, SesRow,
                       SesEpochs, Issued
<1>2. GrantsCurrent
  BY DEF SesStrong, VersionsCount, GrantsCurrent, Accepted
<1> QED
  BY <1>1, <1>2 DEF SesStrong, SessionsEndTogether

\* Whatever the handlers of login, refresh, logout, revocation and the changes
\* of the credentials read before they write, the rows of tokens and grants
\* keep their types.
THEOREM SessionTypes == SesSpec => []SesTypeOK
<1>1. SesStrong /\ [SesNext]_sesVars => SesStrong'
  BY SesNextStrong
<1> QED
  BY <1>1, SesInitStrong, SesStrongImplies, PTL DEF SesSpec

\* Sessions end with the credentials they were opened with, a family of
\* refresh tokens has at most one that is alive and none once a spent one was
\* presented, and a grant that is accepted is of this version: for any number
\* of tokens, requests and changes (_issue_tokens(), refresh(),
\* change_password(), _revoke_sessions()).
THEOREM SessionsEnd == SesSpec => []SessionsEndTogether
<1>1. SesStrong /\ [SesNext]_sesVars => SesStrong'
  BY SesNextStrong
<1> QED
  BY <1>1, SesInitStrong, SesStrongImplies, PTL DEF SesSpec

-----------------------------------------------------------------------------
(* Tenants.                                                                *)

AccPc == {"off", "reserve", "provision", "userdel", "release", "commit"}
AccTaskRecord == [kind : {None, "delete", "ensure", "remove"}, user : AccIds \cup {0}, pc : AccPc,
                  range : AccRanges \cup {None}, sites : SUBSET AccSites]

AccShapes ==
    /\ accUser \subseteq AccIds /\ accMade \subseteq AccSites
    /\ accTenant \in [AccIds -> AccRanges \cup {None}]
    /\ accHost \in [AccIds -> (SUBSET AccRanges) \cup {None}]
    /\ accOwner \in [AccSites -> AccIds \cup {Admin, None}]
    /\ accTask \in [AccRequests -> AccTaskRecord]

\* A task works on an account; a deletion waits for its commit, and an action
\* that has a range at hand has a real one.
TasksAtWork ==
    \A i \in AccRequests : accTask[i].pc # "off" =>
        /\ accTask[i].user \in AccIds
        /\ accTask[i].kind = "delete" <=> accTask[i].pc = "commit"
        /\ accTask[i].pc \in {"reserve", "provision"} => accTask[i].range \in AccRanges

RangesUnique ==
    \A u, v \in AccIds : u # v /\ accTenant[u] # None => accTenant[u] # accTenant[v]

Followed == AccIds \ (accStranded \cup accRaced)
ActsOn(i, u) == accTask[i].pc \notin {"off", "commit"} /\ accTask[i].user = u

\* One action at a time works on a tenant; its row is there before the Linux
\* user is, and after it.
TenantsHeld ==
    \A u \in Followed :
        /\ accHost[u] # None => accTenant[u] # None /\ accHost[u] \subseteq {accTenant[u]}
        /\ \A i, j \in AccRequests : ActsOn(i, u) /\ ActsOn(j, u) => i = j
        /\ \A i \in AccRequests : ActsOn(i, u) =>
             /\ accTask[i].pc = "provision" => accTenant[u] = accTask[i].range
             /\ accTask[i].pc = "release" => accHost[u] = None

\* A deletion leaves no site behind but those it has missed.
HandedOver ==
    \A i \in AccRequests : accTask[i].pc = "commit" =>
        SitesOf(accTask[i].user) \ accTask[i].sites \subseteq accMissed

AccStrong ==
    AccShapes /\ TasksAtWork /\ RangesUnique /\ TenantsHeld /\ HandedOver /\ SitesOwned

LEMMA AccInitStrong == AccInit => AccStrong
<1> SUFFICES ASSUME AccInit PROVE AccStrong
  OBVIOUS
<1>1. AccNoTask \in AccTaskRecord /\ AccNoTask.pc = "off"
  BY DEF AccNoTask, AccTaskRecord, AccPc
<1>2. \A i \in AccRequests : accTask[i].pc = "off"
  BY <1>1 DEF AccInit
<1>3. AccShapes
  <2>1. accTenant \in [AccIds -> AccRanges \cup {None}] /\ accHost = [u \in AccIds |-> None]
    BY DEF AccInit
  <2>2. accHost \in [AccIds -> (SUBSET AccRanges) \cup {None}]
    BY <2>1
  <2>3. accTask \in [AccRequests -> AccTaskRecord]
    BY <1>1 DEF AccInit
  <2> QED
    BY <2>1, <2>2, <2>3 DEF AccInit, AccShapes
<1>4. TenantsHeld
  BY <1>2 DEF AccInit, TenantsHeld, Followed, ActsOn
<1> QED
  BY <1>2, <1>3, <1>4
     DEF AccInit, AccStrong, TasksAtWork, RangesUnique, HandedOver, SitesOwned

LEMMA AccEndTask ==
    ASSUME AccShapes, NEW i \in AccRequests, AccEnd(i)
    PROVE  /\ accTask' \in [AccRequests -> AccTaskRecord]
           /\ accTask'[i].pc = "off" /\ \A j \in AccRequests \ {i} : accTask'[j] = accTask[j]
  BY DEF AccShapes, AccEnd, AccTaskRecord, AccPc

LEMMA AccToTask ==
    ASSUME AccShapes, NEW i \in AccRequests, NEW pc \in AccPc, NEW range \in AccRanges \cup {None},
           AccTo(i, pc, range)
    PROVE  /\ accTask' \in [AccRequests -> AccTaskRecord]
           /\ accTask'[i].pc = pc /\ accTask'[i].range = range
           /\ accTask'[i].user = accTask[i].user /\ accTask'[i].kind = accTask[i].kind
           /\ \A j \in AccRequests \ {i} : accTask'[j] = accTask[j]
<1>1. accTask[i] \in AccTaskRecord
  BY DEF AccShapes
<1>2. [accTask[i] EXCEPT !.pc = pc, !.range = range] \in AccTaskRecord
  BY <1>1 DEF AccTaskRecord
<1> QED
  BY <1>1, <1>2 DEF AccShapes, AccTo, AccTaskRecord

LEMMA AccAcceptStrong ==
    ASSUME AccStrong, NEW i \in AccRequests, NEW u \in AccIds,
           NEW kind \in {"delete", "ensure", "remove"}, NEW pc \in AccPc \ {"off", "release"},
           NEW range \in AccRanges \cup {None}, NEW sites \in SUBSET AccSites,
           AccAccept(i, kind, u, pc, range, sites),
           kind = "delete" <=> pc = "commit",
           pc \in {"reserve", "provision"} => range \in AccRanges,
           pc = "provision" => range = accTenant[u],
           pc = "commit" => sites = SitesOf(u)
    PROVE  AccStrong'
<1> DEFINE r == [kind |-> kind, user |-> u, pc |-> pc, range |-> range, sites |-> sites]
<1>1. /\ accTask' = [accTask EXCEPT ![i] = r]
      /\ UNCHANGED <<accUser, accTenant, accHost, accMade, accOwner, accStranded, accMissed>>
  BY DEF AccAccept
<1>2. r \in AccTaskRecord
  BY DEF AccTaskRecord
<1>3. /\ accTask' \in [AccRequests -> AccTaskRecord] /\ accTask'[i] = r
      /\ \A j \in AccRequests \ {i} : accTask'[j] = accTask[j]
  BY <1>1, <1>2 DEF AccStrong, AccShapes
<1>4. AccShapes' /\ RangesUnique' /\ SitesOwned'
  BY <1>1, <1>3 DEF AccStrong, AccShapes, RangesUnique, SitesOwned
<1>5. TasksAtWork'
  BY <1>3 DEF AccStrong, TasksAtWork
<1>6. HandedOver'
  BY <1>1, <1>3 DEF AccStrong, HandedOver, SitesOf
<1>7. Followed' \subseteq Followed
  BY <1>1 DEF Followed, AccAccept
<1>8. u \in Followed' /\ pc # "commit" => \A j \in AccRequests : ~ActsOn(j, u)
  BY DEF AccStrong, TasksAtWork, AccAccept, Followed, AccAtWork, ActsOn
<1>9. ASSUME NEW w \in Followed'
      PROVE  \A j \in AccRequests : ActsOn(j, w)' => ActsOn(j, w) \/ (j = i /\ w = u /\ pc # "commit")
  BY <1>3 DEF ActsOn
<1>10. TenantsHeld'
  <2> SUFFICES ASSUME NEW w \in Followed'
               PROVE  /\ accHost[w] # None => accTenant[w] # None /\ accHost[w] \subseteq {accTenant[w]}
                      /\ \A j, k \in AccRequests : ActsOn(j, w)' /\ ActsOn(k, w)' => j = k
                      /\ \A j \in AccRequests : ActsOn(j, w)' =>
                           /\ accTask'[j].pc = "provision" => accTenant[w] = accTask'[j].range
                           /\ accTask'[j].pc = "release" => accHost[w] = None
    BY <1>1 DEF TenantsHeld
  <2>1. w \in Followed
    BY <1>7
  <2>2. CASE w = u /\ pc # "commit"
    BY <1>3, <1>8, <1>9, <2>1, <2>2 DEF AccStrong, TenantsHeld
  <2>3. CASE ~(w = u /\ pc # "commit")
    <3>1. \A j \in AccRequests : ActsOn(j, w)' => j # i /\ ActsOn(j, w)
      BY <1>3, <2>3 DEF ActsOn
    <3> QED
      BY <1>3, <2>1, <3>1 DEF AccStrong, TenantsHeld
  <2> QED
    BY <2>2, <2>3
<1> QED
  BY <1>4, <1>5, <1>6, <1>10 DEF AccStrong

LEMMA ReadForDeletionStrong ==
    ASSUME AccStrong, NEW i \in AccRequests, NEW u \in AccIds, ReadForDeletion(i, u)
    PROVE  AccStrong'
<1>1. SitesOf(u) \in SUBSET AccSites /\ "commit" \in AccPc \ {"off", "release"}
  BY DEF SitesOf, AccPc
<1> QED
  BY <1>1, AccAcceptStrong DEF ReadForDeletion

LEMMA EnsureTenantStrong ==
    ASSUME AccStrong, NEW i \in AccRequests, NEW u \in AccIds, EnsureTenant(i, u)
    PROVE  AccStrong'
<1>1. {"reserve", "provision"} \subseteq AccPc \ {"off", "release"} /\ {} \in SUBSET AccSites
  BY DEF AccPc
<1>2. CASE accTenant[u] = None
  BY <1>1, <1>2, AccAcceptStrong DEF EnsureTenant
<1>3. CASE accTenant[u] # None
  <2>1. accTenant[u] \in AccRanges
    BY <1>3 DEF AccStrong, AccShapes
  <2> QED
    BY <1>1, <1>3, <2>1, AccAcceptStrong DEF EnsureTenant
<1> QED
  BY <1>2, <1>3

LEMMA RemoveTenantStrong ==
    ASSUME AccStrong, NEW i \in AccRequests, NEW u \in AccIds, RemoveTenant(i, u)
    PROVE  AccStrong'
<1>1. "userdel" \in AccPc \ {"off", "release"} /\ {} \in SUBSET AccSites
  BY DEF AccPc
<1> QED
  BY <1>1, AccAcceptStrong DEF RemoveTenant

-----------------------------------------------------------------------------
(* Accounts and sites.                                                     *)

LEMMA RegisterStrong ==
    ASSUME AccStrong, Register
    PROVE  AccStrong'
<1>1. AccShapes'
  BY DEF AccStrong, AccShapes, Register, accHistory
<1> QED
  BY <1>1 DEF AccStrong, Register, accHistory, TasksAtWork, RangesUnique, TenantsHeld, Followed,
              ActsOn, HandedOver, SitesOf, SitesOwned

LEMMA CreateSiteStrong ==
    ASSUME AccStrong, NEW s \in AccSites, NEW u \in AccIds, CreateSite(s, u)
    PROVE  AccStrong'
<1>1. /\ UNCHANGED <<accUser, accTenant, accHost, accTask, accRaced, accStranded>>
      /\ accOwner' = [accOwner EXCEPT ![s] = u] /\ accMade' = accMade \cup {s}
      /\ accMissed \subseteq accMissed'
  BY DEF CreateSite
<1>2. AccShapes' /\ TasksAtWork' /\ RangesUnique' /\ TenantsHeld'
  BY <1>1 DEF AccStrong, AccShapes, TasksAtWork, RangesUnique, TenantsHeld, Followed, ActsOn
<1>3. HandedOver'
  <2> SUFFICES ASSUME NEW i \in AccRequests, accTask[i].pc = "commit",
                      NEW t \in AccSites, accOwner'[t] = accTask[i].user, t \notin accTask[i].sites
               PROVE  t \in accMissed'
    BY <1>1 DEF HandedOver, SitesOf
  <2>1. CASE t = s
    <3>1. u = accTask[i].user
      BY <1>1, <2>1 DEF AccStrong, AccShapes
    <3>2. i \in AccAtWork(u) /\ accTask[i].kind = "delete"
      BY <3>1 DEF AccAtWork, AccStrong, TasksAtWork
    <3> QED
      BY <2>1, <3>2 DEF CreateSite
  <2>2. CASE t # s
    BY <1>1, <2>2 DEF AccStrong, AccShapes, HandedOver, SitesOf
  <2> QED
    BY <2>1, <2>2
<1>4. SitesOwned'
  <2>1. u # None
    BY NoneAssumption DEF AccIds
  <2>2. \A t \in accMade' \ accMissed' : t = s \/ t \in accMade \ accMissed
    BY <1>1
  <2>3. accOwner'[s] = u /\ \A t \in AccSites \ {s} : accOwner'[t] = accOwner[t]
    BY <1>1 DEF AccStrong, AccShapes
  <2> QED
    BY <1>1, <2>1, <2>2, <2>3 DEF AccStrong, AccShapes, SitesOwned
<1> QED
  BY <1>2, <1>3, <1>4 DEF AccStrong

-----------------------------------------------------------------------------
(* The actions of the reconciler and the commit of a deletion.             *)

\* An action on a tenant touches the row and the Linux user of that one.
LEMMA ActionStrong ==
    ASSUME AccStrong, NEW i \in AccRequests, NEW u \in AccIds, ActsOn(i, u),
           accTask' \in [AccRequests -> AccTaskRecord],
           \A j \in AccRequests \ {i} : accTask'[j] = accTask[j],
           \/ accTask'[i].pc = "off"
           \/ /\ accTask'[i].pc \in {"provision", "release"}
              /\ accTask'[i].user = u /\ accTask'[i].kind = accTask[i].kind,
           accTask'[i].pc = "provision" =>
               accTask'[i].range \in AccRanges /\ accTenant'[u] = accTask'[i].range,
           accTask'[i].pc = "release" => accHost'[u] = None,
           accTenant' \in [AccIds -> AccRanges \cup {None}],
           accHost' \in [AccIds -> (SUBSET AccRanges) \cup {None}],
           \A v \in AccIds \ {u} : accTenant'[v] = accTenant[v] /\ accHost'[v] = accHost[v],
           \A v \in AccIds \ {u} : accTenant'[u] # None => accTenant'[u] # accTenant[v],
           u \in Followed /\ accHost'[u] # None =>
               accTenant'[u] # None /\ accHost'[u] \subseteq {accTenant'[u]},
           UNCHANGED <<accUser, accMade, accOwner, accRaced, accStranded, accMissed>>
    PROVE  AccStrong'
<1>1. AccShapes' /\ SitesOwned' /\ Followed' = Followed
  BY DEF AccStrong, AccShapes, SitesOwned, Followed
<1>2. TasksAtWork'
  <2>1. accTask[i].pc # "off" /\ accTask[i].user = u /\ accTask[i].kind # "delete"
    BY DEF ActsOn, AccStrong, TasksAtWork
  <2> QED
    BY <2>1 DEF AccStrong, TasksAtWork
<1>3. RangesUnique'
  BY DEF AccStrong, RangesUnique
<1>4. HandedOver'
  BY DEF AccStrong, HandedOver, SitesOf
<1>5. \A j \in AccRequests, w \in AccIds : ActsOn(j, w)' => ActsOn(j, w) /\ (j = i => w = u)
  BY DEF ActsOn
<1>6. TenantsHeld'
  <2> SUFFICES ASSUME NEW w \in Followed
               PROVE  /\ accHost'[w] # None => accTenant'[w] # None /\ accHost'[w] \subseteq {accTenant'[w]}
                      /\ \A j, k \in AccRequests : ActsOn(j, w)' /\ ActsOn(k, w)' => j = k
                      /\ \A j \in AccRequests : ActsOn(j, w)' =>
                           /\ accTask'[j].pc = "provision" => accTenant'[w] = accTask'[j].range
                           /\ accTask'[j].pc = "release" => accHost'[w] = None
    BY <1>1 DEF TenantsHeld
  <2>1. w \in AccIds
    BY DEF Followed
  <2>2. \A j, k \in AccRequests : ActsOn(j, w) /\ ActsOn(k, w) => j = k
    BY DEF AccStrong, TenantsHeld
  <2>3. CASE w = u
    <3>1. \A j \in AccRequests : ActsOn(j, w)' => j = i
      BY <1>5, <2>1, <2>2, <2>3
    <3> QED
      BY <2>3, <3>1
  <2>4. CASE w # u
    <3>1. \A j \in AccRequests : ActsOn(j, w)' => ActsOn(j, w) /\ accTask'[j] = accTask[j]
      BY <1>5, <2>1, <2>4
    <3> QED
      BY <2>1, <2>2, <2>4, <3>1 DEF AccStrong, TenantsHeld
  <2> QED
    BY <2>3, <2>4
<1> QED
  BY <1>1, <1>2, <1>3, <1>4, <1>6 DEF AccStrong

LEMMA ReserveStrong ==
    ASSUME AccStrong, NEW i \in AccRequests, Reserve(i)
    PROVE  AccStrong'
<1> DEFINE u == accTask[i].user
           range == accTask[i].range
<1>1. AccShapes /\ u \in AccIds /\ ActsOn(i, u) /\ range \in AccRanges
  BY DEF Reserve, AccStrong, TasksAtWork, ActsOn
<1>2. UNCHANGED <<accUser, accHost, accMade, accOwner, accRaced, accStranded, accMissed>>
  BY DEF Reserve, accHistory
<1>3. CASE /\ accTenant[u] = None /\ \A v \in AccIds : accTenant[v] # range
           /\ accTenant' = [accTenant EXCEPT ![u] = range] /\ AccTo(i, "provision", range)
  <2>1. accHost[u] = None \/ u \notin Followed
    BY <1>1, <1>3 DEF AccStrong, TenantsHeld
  <2>2. "provision" \in AccPc /\ accTenant'[u] = range
    BY <1>1, <1>3 DEF AccPc, AccShapes
  <2>3. accTenant' \in [AccIds -> AccRanges \cup {None}]
    BY <1>1, <1>3 DEF AccShapes
  <2>4. \A v \in AccIds \ {u} : accTenant'[v] = accTenant[v]
    BY <1>1, <1>3 DEF AccShapes
  <2> HIDE DEF u, range
  <2> QED
    BY <1>1, <1>2, <1>3, <2>1, <2>2, <2>3, <2>4, AccToTask, ActionStrong DEF AccShapes, u
<1>4. CASE AccEnd(i) /\ UNCHANGED accTenant
  BY <1>1, <1>2, <1>4, AccEndTask, ActionStrong DEF AccStrong, AccShapes, TenantsHeld, RangesUnique
<1> QED
  BY <1>3, <1>4 DEF Reserve

LEMMA ProvisionStrong ==
    ASSUME AccStrong, NEW i \in AccRequests, Provision(i)
    PROVE  AccStrong'
<1> DEFINE u == accTask[i].user
           range == accTask[i].range
<1>1. AccShapes /\ u \in AccIds /\ ActsOn(i, u) /\ range \in AccRanges
  BY DEF Provision, AccStrong, TasksAtWork, ActsOn
<1>2. /\ UNCHANGED <<accUser, accTenant, accMade, accOwner, accRaced, accStranded, accMissed>>
      /\ AccEnd(i)
      /\ accHost' = [accHost EXCEPT ![u] = (IF @ = None THEN {} ELSE @) \cup {range}]
  BY DEF Provision, accHistory
<1>3. u \in Followed => accTenant[u] = range /\ (accHost[u] # None => accHost[u] \subseteq {range})
  BY <1>1 DEF AccStrong, TenantsHeld, Provision
<1>4. range # None
  BY <1>1, NoneAssumption DEF AccRanges
<1> HIDE DEF u, range
<1>5. accHost[u] # None => accHost[u] \in SUBSET AccRanges
  BY <1>1 DEF AccShapes
<1>6. (IF accHost[u] = None THEN {} ELSE accHost[u]) \cup {range} \in SUBSET AccRanges
  BY <1>1, <1>5
<1>7. /\ accHost' \in [AccIds -> (SUBSET AccRanges) \cup {None}]
      /\ accHost'[u] = (IF accHost[u] = None THEN {} ELSE accHost[u]) \cup {range}
      /\ \A v \in AccIds \ {u} : accHost'[v] = accHost[v]
  BY <1>1, <1>2, <1>6 DEF AccShapes
<1>8. u \in Followed => accTenant[u] # None /\ accHost'[u] \subseteq {accTenant[u]}
  BY <1>3, <1>4, <1>7
<1> QED
  BY <1>1, <1>2, <1>7, <1>8, AccEndTask, ActionStrong DEF AccStrong, AccShapes, RangesUnique

LEMMA DeleteHostUserStrong ==
    ASSUME AccStrong, NEW i \in AccRequests, DeleteHostUser(i)
    PROVE  AccStrong'
<1> DEFINE u == accTask[i].user
<1>1. AccShapes /\ u \in AccIds /\ ActsOn(i, u)
  BY DEF DeleteHostUser, AccStrong, TasksAtWork, ActsOn
<1>2. /\ UNCHANGED <<accUser, accTenant, accMade, accOwner, accRaced, accStranded, accMissed>>
      /\ AccTo(i, "release", None) /\ accHost' = [accHost EXCEPT ![u] = None]
  BY DEF DeleteHostUser, accHistory
<1>3. "release" \in AccPc /\ accTask[i].user = u
  BY DEF AccPc
<1> HIDE DEF u
<1>4. /\ accHost' \in [AccIds -> (SUBSET AccRanges) \cup {None}] /\ accHost'[u] = None
      /\ \A v \in AccIds \ {u} : accHost'[v] = accHost[v]
  BY <1>1, <1>2 DEF AccShapes
<1> QED
  BY <1>1, <1>2, <1>3, <1>4, AccToTask, ActionStrong DEF AccStrong, AccShapes, RangesUnique

LEMMA ReleaseStrong ==
    ASSUME AccStrong, NEW i \in AccRequests, Release(i)
    PROVE  AccStrong'
<1> DEFINE u == accTask[i].user
<1>1. AccShapes /\ u \in AccIds /\ ActsOn(i, u) /\ (u \in Followed => accHost[u] = None)
  BY DEF Release, AccStrong, TasksAtWork, TenantsHeld, ActsOn
<1>2. /\ UNCHANGED <<accUser, accHost, accMade, accOwner, accRaced, accStranded, accMissed>>
      /\ AccEnd(i) /\ accTenant' = [accTenant EXCEPT ![u] = None]
  BY DEF Release, accHistory
<1> HIDE DEF u
<1>3. /\ accTenant' \in [AccIds -> AccRanges \cup {None}] /\ accTenant'[u] = None
      /\ \A v \in AccIds \ {u} : accTenant'[v] = accTenant[v]
  BY <1>1, <1>2 DEF AccShapes
<1> QED
  BY <1>1, <1>2, <1>3, AccEndTask, ActionStrong DEF AccShapes

LEMMA HostCommandFailsStrong ==
    ASSUME AccStrong, NEW i \in AccRequests, HostCommandFails(i)
    PROVE  AccStrong'
<1> DEFINE u == accTask[i].user
<1>1. AccShapes /\ u \in AccIds /\ ActsOn(i, u)
  BY DEF HostCommandFails, AccStrong, TasksAtWork, ActsOn
<1>2. /\ UNCHANGED <<accUser, accTenant, accMade, accOwner, accRaced, accStranded, accMissed>>
      /\ AccEnd(i)
  BY DEF HostCommandFails, CommandRaises, accHistory
<1>3. u \in Followed /\ accTask[i].pc = "provision" => accTenant[u] # None
  <2>1. accTask[i].pc = "provision" => accTask[i].range \in AccRanges /\ accTask[i].range # None
    BY NoneAssumption DEF AccStrong, TasksAtWork, AccRanges
  <2> QED
    BY <1>1, <2>1 DEF AccStrong, TenantsHeld
<1>4. CASE UNCHANGED accHost
  BY <1>1, <1>2, <1>4, AccEndTask, ActionStrong DEF AccStrong, AccShapes, TenantsHeld, RangesUnique
<1>5. CASE accTask[i].pc = "provision" /\ accHost' = [accHost EXCEPT ![u] = {}]
  <2>1. /\ accHost' \in [AccIds -> (SUBSET AccRanges) \cup {None}] /\ accHost'[u] = {}
        /\ \A v \in AccIds \ {u} : accHost'[v] = accHost[v]
    BY <1>1, <1>5 DEF AccShapes
  <2> HIDE DEF u
  <2> QED
    BY <1>1, <1>2, <1>3, <1>5, <2>1, AccEndTask, ActionStrong DEF AccStrong, AccShapes, RangesUnique
<1> QED
  BY <1>4, <1>5 DEF HostCommandFails

LEMMA CommitDeletionStrong ==
    ASSUME AccStrong, NEW i \in AccRequests, CommitDeletion(i)
    PROVE  AccStrong'
<1> DEFINE u == accTask[i].user
<1>1. AccShapes /\ u \in AccIds /\ UNCHANGED <<accMade, accHost, accRaced, accMissed>>
  BY DEF CommitDeletion, AccStrong, TasksAtWork
<1>2. /\ accTask' \in [AccRequests -> AccTaskRecord]
      /\ accTask'[i].pc = "off" /\ \A j \in AccRequests \ {i} : accTask'[j] = accTask[j]
  BY <1>1, AccEndTask DEF CommitDeletion
<1>3. TasksAtWork'
  BY <1>2 DEF AccStrong, TasksAtWork
<1>4. CASE UNCHANGED <<accUser, accTenant, accOwner, accStranded>>
  <2>1. \A j \in AccRequests, w \in AccIds :
          ActsOn(j, w)' => ActsOn(j, w) /\ accTask'[j] = accTask[j]
    BY <1>2 DEF ActsOn
  <2> QED
    BY <1>1, <1>2, <1>3, <1>4, <2>1
       DEF AccStrong, AccShapes, RangesUnique, TenantsHeld, Followed, HandedOver, SitesOf, SitesOwned
<1>5. CASE /\ accUser' = accUser \ {u}
           /\ accTenant' = [accTenant EXCEPT ![u] = None]
           /\ accOwner' = [s \in AccSites |->
                IF s \in accTask[i].sites THEN Admin ELSE IF s \in SitesOf(u) THEN None
                ELSE accOwner[s]]
           /\ accStranded' = IF accHost[u] = None /\ accTenant[u] = None THEN accStranded
                             ELSE accStranded \cup {u}
  <2>1. /\ accTenant' \in [AccIds -> AccRanges \cup {None}] /\ accTenant'[u] = None
        /\ \A v \in AccIds \ {u} : accTenant'[v] = accTenant[v]
    BY <1>1, <1>5 DEF AccShapes
  <2>2. accOwner' \in [AccSites -> AccIds \cup {Admin, None}]
    BY <1>1, <1>5 DEF AccShapes
  <2>3. AccShapes' /\ RangesUnique'
    BY <1>1, <1>2, <1>5, <2>1, <2>2 DEF AccStrong, AccShapes, RangesUnique
  <2>4. TenantsHeld'
    <3>1. Followed' \subseteq Followed
      BY <1>1, <1>5 DEF Followed
    <3>2. u \in Followed' => accHost[u] = None /\ accTenant[u] = None
      BY <1>5 DEF Followed
    <3>3. \A w \in Followed' : accTenant'[w] = accTenant[w] /\ w \in AccIds
      BY <1>1, <2>1, <3>1, <3>2 DEF Followed
    <3>4. \A j \in AccRequests, w \in AccIds :
            ActsOn(j, w)' => ActsOn(j, w) /\ accTask'[j] = accTask[j]
      BY <1>2 DEF ActsOn
    <3> QED
      BY <1>1, <3>1, <3>3, <3>4 DEF AccStrong, TenantsHeld
  <2>5. HandedOver'
    <3> SUFFICES ASSUME NEW j \in AccRequests, accTask'[j].pc = "commit",
                        NEW s \in AccSites, accOwner'[s] = accTask'[j].user,
                        s \notin accTask'[j].sites
                 PROVE  s \in accMissed
      BY <1>1 DEF HandedOver, SitesOf
    <3>1. j # i /\ accTask'[j] = accTask[j] /\ accTask[j].user \in AccIds
      BY <1>2, <1>3 DEF TasksAtWork
    <3>2. accTask[j].user \notin {Admin, None}
      BY <3>1, NoneAssumption DEF AccIds, Admin
    <3>3. accOwner[s] = accTask[j].user
      BY <1>5, <3>1, <3>2
    <3> QED
      BY <3>1, <3>3 DEF AccStrong, HandedOver, SitesOf
  <2>6. SitesOwned'
    <3> SUFFICES ASSUME NEW s \in accMade \ accMissed
                 PROVE  accOwner'[s] # None
      BY <1>1 DEF SitesOwned
    <3>1. s \in AccSites /\ accOwner[s] # None
      BY <1>1 DEF AccStrong, AccShapes, SitesOwned
    <3>2. s \in accTask[i].sites \/ s \notin SitesOf(u)
      BY DEF AccStrong, HandedOver, CommitDeletion
    <3> QED
      BY <1>5, <3>1, <3>2, NoneAssumption DEF Admin
  <2> QED
    BY <1>3, <2>3, <2>4, <2>5, <2>6 DEF AccStrong
<1> QED
  BY <1>4, <1>5 DEF CommitDeletion

LEMMA AccRestartStrong ==
    ASSUME AccStrong, AccRestart
    PROVE  AccStrong'
<1>1. /\ accTask' \in [AccRequests -> AccTaskRecord]
      /\ \A i \in AccRequests : accTask'[i].pc = "off"
  <2>1. accTask \in [AccRequests -> AccTaskRecord] /\ "off" \in AccPc
    BY DEF AccStrong, AccShapes, AccPc
  <2>2. accTask' = [i \in AccRequests |-> [accTask[i] EXCEPT !.pc = "off"]]
    BY DEF AccRestart
  <2>3. ASSUME NEW t \in AccTaskRecord
        PROVE  [t EXCEPT !.pc = "off"] \in AccTaskRecord /\ [t EXCEPT !.pc = "off"].pc = "off"
    BY <2>1 DEF AccTaskRecord
  <2> QED
    BY <2>1, <2>2, <2>3
<1>2. AccShapes'
  BY <1>1 DEF AccRestart, accHistory, AccStrong, AccShapes
<1>3. TasksAtWork' /\ HandedOver'
  BY <1>1 DEF AccRestart, accHistory, AccStrong, TasksAtWork, HandedOver
<1>4. RangesUnique' /\ SitesOwned'
  BY DEF AccRestart, accHistory, AccStrong, RangesUnique, SitesOwned
<1>5. TenantsHeld'
  BY <1>1 DEF AccRestart, accHistory, AccStrong, TenantsHeld, Followed, ActsOn
<1> QED
  BY <1>2, <1>3, <1>4, <1>5 DEF AccStrong

-----------------------------------------------------------------------------
LEMMA AccNextStrong == AccStrong /\ [AccNext]_accVars => AccStrong'
<1> SUFFICES ASSUME AccStrong, [AccNext]_accVars PROVE AccStrong'
  OBVIOUS
<1>1. CASE UNCHANGED accVars
  BY <1>1 DEF accVars, AccStrong, AccShapes, TasksAtWork, RangesUnique, TenantsHeld, Followed,
              ActsOn, HandedOver, SitesOf, SitesOwned
<1>2. CASE Register \/ AccRestart
  BY <1>2, RegisterStrong, AccRestartStrong
<1>3. CASE \E s \in AccSites, u \in AccIds : CreateSite(s, u)
  BY <1>3, CreateSiteStrong
<1>4. ASSUME NEW i \in AccRequests, NEW u \in AccIds,
             ReadForDeletion(i, u) \/ EnsureTenant(i, u) \/ RemoveTenant(i, u)
      PROVE  AccStrong'
  BY <1>4, ReadForDeletionStrong, EnsureTenantStrong, RemoveTenantStrong
<1>5. ASSUME NEW i \in AccRequests,
             \/ CommitDeletion(i) \/ Reserve(i) \/ Provision(i) \/ DeleteHostUser(i) \/ Release(i)
             \/ HostCommandFails(i)
      PROVE  AccStrong'
  BY <1>5, CommitDeletionStrong, ReserveStrong, ProvisionStrong, DeleteHostUserStrong,
     ReleaseStrong, HostCommandFailsStrong
<1> QED
  BY <1>1, <1>2, <1>3, <1>4, <1>5 DEF AccNext

LEMMA AccStrongImplies == AccStrong => AccTypeOK /\ TenantsAccounted
<1> SUFFICES ASSUME AccStrong PROVE AccTypeOK /\ TenantsAccounted
  OBVIOUS
<1>1. AccTypeOK
  BY DEF AccStrong, AccShapes, AccTypeOK, AccTaskRecord, AccPc
<1>2. \A u, v \in Followed : u # v /\ accHost[u] # None /\ accHost[v] # None =>
        accHost[u] \cap accHost[v] = {}
  BY DEF AccStrong, TenantsHeld, RangesUnique, Followed
<1>3. RangesReserved
  BY <1>2 DEF AccStrong, TenantsHeld, RangesReserved, Followed
<1> QED
  BY <1>1, <1>3 DEF AccStrong, TenantsAccounted

\* Accounts, rows and Linux users of the tenants keep their types, whichever
\* handler or action of the reconciler is cut off.
THEOREM TenantTypes == AccSpec => []AccTypeOK
<1>1. AccStrong /\ [AccNext]_accVars => AccStrong'
  BY AccNextStrong
<1> QED
  BY <1>1, AccInitStrong, AccStrongImplies, PTL DEF AccSpec

\* A range of subordinate ids that a Linux user has is reserved by the row of
\* its account and is no one else's, and the sites of a deleted account have
\* an owner: for any number of accounts, actions, failures and restarts
\* (_allocate_range(), ensure_tenant(), remove_tenant(), delete_user()).
THEOREM TenantsHaveRanges == AccSpec => []TenantsAccounted
<1>1. AccStrong /\ [AccNext]_accVars => AccStrong'
  BY AccNextStrong
<1> QED
  BY <1>1, AccInitStrong, AccStrongImplies, PTL DEF AccSpec

-----------------------------------------------------------------------------
(* Notices.                                                                *)

NoteShapes ==
    /\ noteBad \in [NoteKinds -> BOOLEAN] /\ noteOpen \in [NoteKinds -> Nat]
    /\ noteCount \in 0 .. NoteThreshold + 1
    /\ noteTask \in [Watchers -> [pc : {"off", "report", "emit", "insert", "resolve"}, saw : BOOLEAN]]
    /\ noteTold \in [NoteKinds -> BOOLEAN \cup {None}]
    /\ noteMet \subseteq NoteKinds /\ noteLost \in BOOLEAN

\* Who writes a notice has found trouble, who closes them has found none.
NoteTasksSound ==
    \A w \in Watchers : /\ noteTask[w].pc \in {"emit", "insert"} => noteTask[w].saw
                        /\ noteTask[w].pc = "resolve" => ~noteTask[w].saw

\* The notices of a kind, with those that a watcher is about to write.
Writes(w) == IF noteTask[w].pc = "insert" THEN 1 ELSE 0
DriftNotices == noteOpen["drift"] + Writes("loop") + Writes("images")
FewNotices ==
    /\ noteOpen["service"] + Writes("sweep") <= 1
    /\ DriftNotices <= 2
    /\ "drift" \notin noteMet => /\ DriftNotices <= 1
                                 /\ noteTask["loop"].pc = "off" \/ noteTask["images"].pc = "off"

\* Drift that has been told of is counted still, or about to be closed.
DriftCounted ==
    "drift" \notin noteMet =>
        /\ \A w \in {"loop", "images"} : noteTask[w].pc \in {"emit", "insert"} => noteCount > 0
        /\ ~noteLost /\ noteOpen["drift"] > 0 =>
             noteCount > 0 \/ \E w \in {"loop", "images"} : noteTask[w].pc = "resolve"

NoteStrong == NoteShapes /\ NoteTasksSound /\ FewNotices /\ DriftCounted /\ NoticesFollow

LEMMA WatchersAre ==
    /\ Watchers = {"sweep", "loop", "images"}
    /\ Watches["sweep"] = "service" /\ Watches["loop"] = "drift" /\ Watches["images"] = "drift"
    /\ \A w \in Watchers : Watches[w] \in NoteKinds
  BY DEF Watchers, Watches, NoteKinds

LEMMA NoteInitStrong == NoteInit => NoteStrong
<1> SUFFICES ASSUME NoteInit PROVE NoteStrong
  OBVIOUS
<1> USE DEF NoteInit, NoteIdle
<1>1. NoteShapes
  <2>1. noteTask \in [Watchers -> [pc : {"off", "report", "emit", "insert", "resolve"}, saw : BOOLEAN]]
    OBVIOUS
  <2>2. noteBad \in [NoteKinds -> BOOLEAN] /\ noteTold \in [NoteKinds -> BOOLEAN \cup {None}]
    OBVIOUS
  <2>3. noteOpen \in [NoteKinds -> Nat] /\ noteCount \in 0 .. NoteThreshold + 1
    BY NoteAssumption
  <2> QED
    BY <2>1, <2>2, <2>3 DEF NoteShapes
<1>2. NoteTasksSound /\ FewNotices /\ DriftCounted
  BY WatchersAre DEF NoteTasksSound, FewNotices, DriftCounted, DriftNotices, Writes, NoteKinds
<1>3. NoticesFollow
  BY DEF NoticesFollow
<1> QED
  BY <1>1, <1>2, <1>3 DEF NoteStrong

LEMMA NoteToTask ==
    ASSUME NoteShapes, NEW w \in Watchers,
           NEW pc \in {"off", "report", "emit", "insert", "resolve"}, NoteTo(w, pc)
    PROVE  /\ noteTask' \in [Watchers -> [pc : {"off", "report", "emit", "insert", "resolve"}, saw : BOOLEAN]]
           /\ noteTask'[w].pc = pc /\ noteTask'[w].saw = noteTask[w].saw
           /\ \A v \in Watchers \ {w} : noteTask'[v] = noteTask[v]
  BY DEF NoteShapes, NoteTo

LEMMA LookStrong ==
    ASSUME NoteStrong, NEW w \in Watchers, Look(w)
    PROVE  NoteStrong'
<1>1. /\ noteTask[w].pc = "off"
      /\ noteTask' = [noteTask EXCEPT ![w] = [pc |-> "report", saw |-> noteBad[Watches[w]]]]
      /\ UNCHANGED <<noteBad, noteOpen, noteCount, noteMoves, noteTold, noteLost>>
  BY DEF Look
<1>2. /\ noteTask' \in [Watchers -> [pc : {"off", "report", "emit", "insert", "resolve"}, saw : BOOLEAN]]
      /\ noteTask'[w].pc = "report"
      /\ \A v \in Watchers \ {w} : noteTask'[v] = noteTask[v]
  BY <1>1, WatchersAre DEF NoteStrong, NoteShapes
<1>3. /\ noteMet' \subseteq NoteKinds /\ noteMet \subseteq noteMet'
      /\ "drift" \notin noteMet' => noteTask'["loop"].pc = "off" \/ noteTask'["images"].pc = "off"
  <2>1. noteMet' = noteMet \cup {Watches[v] : v \in {u \in Watchers \ {w} :
                     Watches[u] = Watches[w] /\ noteTask[u].pc # "off"}}
    BY DEF Look
  <2>2. noteMet' \subseteq NoteKinds /\ noteMet \subseteq noteMet'
    BY <2>1, WatchersAre DEF NoteStrong, NoteShapes
  <2>3. CASE w = "loop"
    <3>1. noteTask["images"].pc # "off" => Watches["images"] \in noteMet'
      BY <2>1, <2>3, WatchersAre
    <3> QED
      BY <1>2, <2>2, <2>3, <3>1, WatchersAre
  <2>4. CASE w = "images"
    <3>1. noteTask["loop"].pc # "off" => Watches["loop"] \in noteMet'
      BY <2>1, <2>4, WatchersAre
    <3> QED
      BY <1>2, <2>2, <2>4, <3>1, WatchersAre
  <2>5. CASE w = "sweep"
    BY <1>2, <2>2, <2>5, WatchersAre DEF NoteStrong, FewNotices
  <2> QED
    BY <2>2, <2>3, <2>4, <2>5, WatchersAre
<1>4. NoteShapes'
  BY <1>1, <1>2, <1>3 DEF NoteStrong, NoteShapes
<1>5. NoteTasksSound'
  BY <1>2 DEF NoteStrong, NoteTasksSound
<1>6. Writes("sweep")' = Writes("sweep") /\ DriftNotices' = DriftNotices
  BY <1>1, <1>2, WatchersAre DEF Writes, DriftNotices
<1>7. FewNotices'
  BY <1>1, <1>3, <1>6 DEF NoteStrong, FewNotices
<1>8. DriftCounted'
  BY <1>1, <1>2, <1>3, WatchersAre DEF NoteStrong, DriftCounted
<1>9. NoticesFollow'
  BY <1>1, <1>3 DEF NoteStrong, NoticesFollow
<1> QED
  BY <1>4, <1>5, <1>7, <1>8, <1>9 DEF NoteStrong

LEMMA ReportStrong ==
    ASSUME NoteStrong, NEW w \in Watchers, Report(w)
    PROVE  NoteStrong'
<1> DEFINE pc == IF noteTask[w].saw THEN "emit" ELSE "resolve"
<1>1. w = "sweep" /\ noteTask[w].pc = "report"
  BY WatchersAre DEF Report
<1>2. NoteTo(w, pc) /\ pc \in {"emit", "resolve"} /\ (pc = "emit" <=> noteTask[w].saw)
      /\ UNCHANGED <<noteOpen, noteCount, noteTold, noteBad, noteMoves, noteMet, noteLost>>
  BY DEF Report, NoteQuiet
<1> HIDE DEF pc
<1>3. /\ noteTask' \in [Watchers -> [pc : {"off", "report", "emit", "insert", "resolve"}, saw : BOOLEAN]]
      /\ noteTask'[w].pc = pc /\ noteTask'[w].saw = noteTask[w].saw
      /\ \A v \in Watchers \ {w} : noteTask'[v] = noteTask[v]
  BY <1>2, NoteToTask DEF NoteStrong
<1>4. NoteShapes'
  BY <1>2, <1>3 DEF NoteStrong, NoteShapes
<1>5. NoteTasksSound'
  BY <1>2, <1>3 DEF NoteStrong, NoteTasksSound
<1>6. FewNotices' /\ DriftCounted'
  BY <1>1, <1>2, <1>3, WatchersAre DEF NoteStrong, FewNotices, DriftNotices, Writes, DriftCounted
<1>7. NoticesFollow'
  BY <1>2 DEF NoteStrong, NoticesFollow
<1> QED
  BY <1>4, <1>5, <1>6, <1>7 DEF NoteStrong

LEMMA TrackDriftStrong ==
    ASSUME NoteStrong, NEW w \in Watchers, TrackDrift(w)
    PROVE  NoteStrong'
<1>1. /\ w \in {"loop", "images"} /\ Watches[w] = "drift" /\ noteTask[w].pc = "report"
      /\ UNCHANGED <<noteOpen, noteBad, noteMoves, noteMet, noteLost>>
      /\ noteCount \in Nat /\ NoteThreshold \in Nat /\ NoteThreshold > 0
  BY WatchersAre, NoteAssumption DEF TrackDrift, NoteQuiet, NoteStrong, NoteShapes
<1>2. PICK pc \in {"off", "emit", "resolve"} :
        /\ NoteTo(w, pc)
        /\ pc = "emit" => noteTask[w].saw
        /\ pc = "resolve" => ~noteTask[w].saw
        /\ \/ noteCount' > 0 /\ pc # "resolve"
           \/ noteCount' = 0 /\ pc = "resolve"
           \/ noteCount' = 0 /\ noteCount = 0 /\ pc = "off"
        /\ noteCount' \in 0 .. NoteThreshold + 1
        /\ \/ noteTold' = noteTold
           \/ noteTold' = [noteTold EXCEPT !["drift"] = None]
           \/ noteTold' = [noteTold EXCEPT !["drift"] = FALSE] /\ noteCount = 0
  <2>1. CASE noteTask[w].saw
    <3> DEFINE count == noteCount + 1
    <3>1. noteCount' = (IF count > NoteThreshold THEN NoteThreshold + 1 ELSE count)
      BY <2>1 DEF TrackDrift
    <3>2. IF count >= NoteThreshold THEN NoteTo(w, "emit") /\ UNCHANGED noteTold
          ELSE NoteTo(w, "off") /\ noteTold' = [noteTold EXCEPT !["drift"] = None]
      BY <2>1 DEF TrackDrift
    <3>3. noteCount' \in 0 .. NoteThreshold + 1 /\ noteCount' > 0
      BY <1>1, <3>1
    <3>4. CASE count >= NoteThreshold
      BY <2>1, <3>2, <3>3, <3>4
    <3>5. CASE ~(count >= NoteThreshold)
      BY <2>1, <3>2, <3>3, <3>5
    <3> QED
      BY <3>4, <3>5
  <2>2. CASE ~noteTask[w].saw
    <3>1. noteCount' = 0 /\ 0 \in 0 .. NoteThreshold + 1
      BY <1>1, <2>2 DEF TrackDrift
    <3>2. CASE noteCount > 0
      <4>1. NoteTo(w, "resolve") /\ noteTold' = noteTold
        BY <2>2, <3>2 DEF TrackDrift, Resolves
      <4> QED
        BY <2>2, <3>1, <4>1
    <3>3. CASE ~(noteCount > 0)
      <4>1. NoteTo(w, "off") /\ noteTold' = [noteTold EXCEPT !["drift"] = noteTask[w].saw]
        BY <1>1, <2>2, <3>3 DEF TrackDrift, Resolves, NoteDone
      <4>2. noteTask[w].saw = FALSE
        BY <2>2 DEF NoteStrong, NoteShapes
      <4>3. noteCount = 0
        BY <1>1, <3>3
      <4> QED
        BY <3>1, <4>1, <4>2, <4>3
    <3> QED
      BY <3>2, <3>3
  <2> QED
    BY <2>1, <2>2
<1>3. /\ noteTask' \in [Watchers -> [pc : {"off", "report", "emit", "insert", "resolve"}, saw : BOOLEAN]]
      /\ noteTask'[w].pc = pc /\ noteTask'[w].saw = noteTask[w].saw
      /\ \A v \in Watchers \ {w} : noteTask'[v] = noteTask[v]
  BY <1>2, NoteToTask DEF NoteStrong
<1>4. noteTold' \in [NoteKinds -> BOOLEAN \cup {None}]
  BY <1>2 DEF NoteStrong, NoteShapes
<1>5. NoteShapes'
  BY <1>1, <1>2, <1>3, <1>4 DEF NoteStrong, NoteShapes
<1>6. NoteTasksSound'
  BY <1>2, <1>3 DEF NoteStrong, NoteTasksSound
<1>7. FewNotices'
  BY <1>1, <1>2, <1>3, WatchersAre DEF NoteStrong, FewNotices, DriftNotices, Writes
<1>8. "drift" \notin noteMet =>
         \A v \in {"loop", "images"} \ {w} : noteTask[v].pc = "off" /\ noteTask'[v].pc = "off"
  BY <1>1, <1>3, WatchersAre DEF NoteStrong, FewNotices
<1>9. "drift" \notin noteMet /\ ~noteLost /\ noteCount = 0 => ~(noteOpen["drift"] > 0)
  BY <1>1, <1>8 DEF NoteStrong, DriftCounted
<1>10. DriftCounted'
  <2> SUFFICES ASSUME "drift" \notin noteMet PROVE DriftCounted'
    BY <1>1 DEF DriftCounted
  <2>1. \A v \in {"loop", "images"} : noteTask'[v].pc \in {"emit", "insert"} => noteCount' > 0
    BY <1>1, <1>2, <1>3, <1>8
  <2>2. ~noteLost /\ noteOpen["drift"] > 0 => noteCount' > 0 \/ noteTask'[w].pc = "resolve"
    BY <1>2, <1>3, <1>9
  <2> QED
    BY <1>1, <2>1, <2>2 DEF DriftCounted
<1>11. NoticesFollow'
  <2>1. noteTold' = noteTold => NoticesFollow'
    BY <1>1 DEF NoteStrong, NoticesFollow
  <2>2. noteTold' = [noteTold EXCEPT !["drift"] = None] => NoticesFollow'
    BY <1>1 DEF NoteStrong, NoteShapes, NoticesFollow
  <2>3. noteTold' = [noteTold EXCEPT !["drift"] = FALSE] /\ noteCount = 0 => NoticesFollow'
    <3> SUFFICES ASSUME noteTold' = [noteTold EXCEPT !["drift"] = FALSE], noteCount = 0,
                        NEW k \in NoteKinds \ noteMet, noteTold'[k] # None
                 PROVE  /\ noteTold'[k] => noteOpen[k] > 0
                        /\ ~noteTold'[k] /\ (k = "drift" => ~noteLost) => noteOpen[k] = 0
      BY <1>1 DEF NoticesFollow
    <3>1. CASE k = "drift"
      <4>1. ~noteTold'[k] /\ noteOpen[k] \in Nat
        BY <3>1 DEF NoteStrong, NoteShapes
      <4> QED
        BY <1>9, <3>1, <4>1
    <3>2. CASE k # "drift"
      <4>1. noteTold'[k] = noteTold[k]
        BY <3>2 DEF NoteStrong, NoteShapes
      <4> QED
        BY <4>1 DEF NoteStrong, NoticesFollow
    <3> QED
      BY <3>1, <3>2
  <2> QED
    BY <1>2, <2>1, <2>2, <2>3
<1> QED
  BY <1>5, <1>6, <1>7, <1>10, <1>11 DEF NoteStrong

\* A check ends: what it found is told.
LEMMA NoteDoneFollows ==
    ASSUME NoteStrong, NEW w \in Watchers, NoteDone(w), UNCHANGED <<noteMet, noteLost>>,
           \A k \in NoteKinds \ {Watches[w]} : noteOpen'[k] = noteOpen[k],
           noteTask[w].saw => noteOpen'[Watches[w]] > 0,
           ~noteTask[w].saw => noteOpen'[Watches[w]] = 0
    PROVE  NoticesFollow' /\ noteTold' \in [NoteKinds -> BOOLEAN \cup {None}]
<1>1. noteTold' = [noteTold EXCEPT ![Watches[w]] = noteTask[w].saw]
  BY DEF NoteDone
<1>2. noteTask[w].saw \in BOOLEAN /\ Watches[w] \in NoteKinds
  BY WatchersAre DEF NoteStrong, NoteShapes
<1>3. noteTold' \in [NoteKinds -> BOOLEAN \cup {None}]
  BY <1>1, <1>2 DEF NoteStrong, NoteShapes
<1>4. ASSUME NEW k \in NoteKinds \ noteMet, noteTold'[k] # None
      PROVE  /\ noteTold'[k] => noteOpen'[k] > 0
             /\ ~noteTold'[k] /\ (k = "drift" => ~noteLost) => noteOpen'[k] = 0
  <2>1. CASE k = Watches[w]
    <3>1. noteTold'[k] = noteTask[w].saw
      BY <1>1, <1>2, <2>1 DEF NoteStrong, NoteShapes
    <3> QED
      BY <2>1, <3>1
  <2>2. CASE k # Watches[w]
    <3>1. noteTold'[k] = noteTold[k] /\ noteOpen'[k] = noteOpen[k]
      BY <1>1, <2>2 DEF NoteStrong, NoteShapes
    <3> QED
      BY <1>4, <3>1 DEF NoteStrong, NoticesFollow
  <2> QED
    BY <2>1, <2>2
<1> QED
  BY <1>3, <1>4 DEF NoticesFollow

LEMMA AskForOpenStrong ==
    ASSUME NoteStrong, NEW w \in Watchers, AskForOpen(w)
    PROVE  NoteStrong'
<1>1. /\ noteTask[w].pc = "emit" /\ noteTask[w].saw
      /\ UNCHANGED <<noteOpen, noteCount, noteBad, noteMoves, noteMet, noteLost>>
  BY DEF AskForOpen, NoteQuiet, NoteStrong, NoteTasksSound
<1>2. PICK pc \in {"off", "insert"} :
        /\ NoteTo(w, pc)
        /\ pc = "insert" => noteOpen[Watches[w]] = 0 /\ noteTold' = noteTold
        /\ pc = "off" => noteOpen[Watches[w]] # 0 /\ NoteDone(w)
  <2>1. CASE noteOpen[Watches[w]] = 0
    BY <2>1 DEF AskForOpen
  <2>2. CASE noteOpen[Watches[w]] # 0
    BY <2>2 DEF AskForOpen, NoteDone
  <2> QED
    BY <2>1, <2>2
<1>3. /\ noteTask' \in [Watchers -> [pc : {"off", "report", "emit", "insert", "resolve"}, saw : BOOLEAN]]
      /\ noteTask'[w].pc = pc /\ noteTask'[w].saw = noteTask[w].saw
      /\ \A v \in Watchers \ {w} : noteTask'[v] = noteTask[v]
  BY <1>2, NoteToTask DEF NoteStrong
<1>4. NoticesFollow' /\ noteTold' \in [NoteKinds -> BOOLEAN \cup {None}]
  <2>1. CASE pc = "insert"
    BY <1>1, <1>2, <2>1 DEF NoteStrong, NoteShapes, NoticesFollow
  <2>2. CASE pc = "off"
    <3>1. noteOpen[Watches[w]] > 0
      BY <1>2, <2>2, WatchersAre DEF NoteStrong, NoteShapes
    <3> QED
      BY <1>1, <1>2, <2>2, <3>1, NoteDoneFollows
  <2> QED
    BY <2>1, <2>2
<1>5. NoteShapes'
  BY <1>1, <1>3, <1>4 DEF NoteStrong, NoteShapes
<1>6. NoteTasksSound'
  BY <1>1, <1>2, <1>3 DEF NoteStrong, NoteTasksSound
<1>7. noteOpen["drift"] \in Nat /\ noteOpen["service"] \in Nat
  BY DEF NoteStrong, NoteShapes, NoteKinds
<1>8. FewNotices'
  BY <1>1, <1>2, <1>3, <1>7, WatchersAre DEF NoteStrong, FewNotices, DriftNotices, Writes
<1>9. DriftCounted'
  BY <1>1, <1>2, <1>3, WatchersAre DEF NoteStrong, DriftCounted
<1> QED
  BY <1>4, <1>5, <1>6, <1>8, <1>9 DEF NoteStrong

LEMMA InsertNoticeStrong ==
    ASSUME NoteStrong, NEW w \in Watchers, InsertNotice(w)
    PROVE  NoteStrong'
<1>1. /\ noteTask[w].pc = "insert" /\ noteTask[w].saw /\ NoteDone(w) /\ NoteTo(w, "off")
      /\ noteOpen' = [noteOpen EXCEPT ![Watches[w]] = @ + 1]
      /\ UNCHANGED <<noteCount, noteBad, noteMoves, noteMet, noteLost>>
  BY DEF InsertNotice, NoteDone, NoteQuiet, NoteStrong, NoteTasksSound
<1>2. /\ noteOpen' \in [NoteKinds -> Nat] /\ noteOpen'[Watches[w]] = noteOpen[Watches[w]] + 1
      /\ \A k \in NoteKinds \ {Watches[w]} : noteOpen'[k] = noteOpen[k]
      /\ noteOpen["drift"] \in Nat /\ noteOpen["service"] \in Nat
  BY <1>1, WatchersAre DEF NoteStrong, NoteShapes, NoteKinds
<1>3. /\ noteTask' \in [Watchers -> [pc : {"off", "report", "emit", "insert", "resolve"}, saw : BOOLEAN]]
      /\ noteTask'[w].pc = "off" /\ noteTask'[w].saw = noteTask[w].saw
      /\ \A v \in Watchers \ {w} : noteTask'[v] = noteTask[v]
  BY <1>1, NoteToTask DEF NoteStrong
<1>4. NoticesFollow' /\ noteTold' \in [NoteKinds -> BOOLEAN \cup {None}]
  <2>1. noteOpen'[Watches[w]] > 0
    BY <1>2, WatchersAre
  <2> QED
    BY <1>1, <1>2, <2>1, NoteDoneFollows
<1>5. NoteShapes'
  BY <1>1, <1>2, <1>3, <1>4 DEF NoteStrong, NoteShapes
<1>6. NoteTasksSound'
  BY <1>3 DEF NoteStrong, NoteTasksSound
<1>7. FewNotices'
  BY <1>1, <1>2, <1>3, WatchersAre DEF NoteStrong, FewNotices, DriftNotices, Writes, NoteKinds
<1>8. DriftCounted'
  BY <1>1, <1>2, <1>3, WatchersAre DEF NoteStrong, DriftCounted, NoteKinds
<1> QED
  BY <1>4, <1>5, <1>6, <1>7, <1>8 DEF NoteStrong

LEMMA ResolveNoticesStrong ==
    ASSUME NoteStrong, NEW w \in Watchers, ResolveNotices(w)
    PROVE  NoteStrong'
<1>1. /\ noteTask[w].pc = "resolve" /\ ~noteTask[w].saw /\ NoteDone(w) /\ NoteTo(w, "off")
      /\ noteOpen' = [noteOpen EXCEPT ![Watches[w]] = 0]
      /\ UNCHANGED <<noteCount, noteBad, noteMoves, noteMet, noteLost>>
  BY DEF ResolveNotices, NoteDone, NoteQuiet, NoteStrong, NoteTasksSound
<1>2. /\ noteOpen' \in [NoteKinds -> Nat] /\ noteOpen'[Watches[w]] = 0
      /\ \A k \in NoteKinds \ {Watches[w]} : noteOpen'[k] = noteOpen[k]
      /\ noteOpen["drift"] \in Nat /\ noteOpen["service"] \in Nat
  BY <1>1, WatchersAre DEF NoteStrong, NoteShapes, NoteKinds
<1>3. /\ noteTask' \in [Watchers -> [pc : {"off", "report", "emit", "insert", "resolve"}, saw : BOOLEAN]]
      /\ noteTask'[w].pc = "off" /\ noteTask'[w].saw = noteTask[w].saw
      /\ \A v \in Watchers \ {w} : noteTask'[v] = noteTask[v]
  BY <1>1, NoteToTask DEF NoteStrong
<1>4. NoticesFollow' /\ noteTold' \in [NoteKinds -> BOOLEAN \cup {None}]
  BY <1>1, <1>2, NoteDoneFollows
<1>5. NoteShapes'
  BY <1>1, <1>2, <1>3, <1>4 DEF NoteStrong, NoteShapes
<1>6. NoteTasksSound'
  BY <1>3 DEF NoteStrong, NoteTasksSound
<1>7. FewNotices'
  BY <1>1, <1>2, <1>3, WatchersAre DEF NoteStrong, FewNotices, DriftNotices, Writes, NoteKinds
<1>8. DriftCounted'
  BY <1>1, <1>2, <1>3, WatchersAre DEF NoteStrong, DriftCounted, NoteKinds
<1> QED
  BY <1>4, <1>5, <1>6, <1>7, <1>8 DEF NoteStrong

LEMMA DismissStrong ==
    ASSUME NoteStrong, NEW k \in NoteKinds, Dismiss(k)
    PROVE  NoteStrong'
<1>1. /\ noteOpen[k] > 0 /\ noteOpen' = [noteOpen EXCEPT ![k] = @ - 1]
      /\ noteTold' = [noteTold EXCEPT ![k] = None]
      /\ noteMet \subseteq noteMet' /\ noteMet' \subseteq NoteKinds
      /\ UNCHANGED <<noteBad, noteCount, noteTask, noteLost>>
  BY DEF Dismiss, NoteStrong, NoteShapes
<1>2. /\ noteOpen' \in [NoteKinds -> Nat] /\ \A l \in NoteKinds : noteOpen'[l] <= noteOpen[l]
      /\ \A l \in NoteKinds \ {k} : noteOpen'[l] = noteOpen[l] /\ noteTold'[l] = noteTold[l]
      /\ noteTold'[k] = None /\ noteTold' \in [NoteKinds -> BOOLEAN \cup {None}]
  BY <1>1 DEF NoteStrong, NoteShapes
<1>3. NoteShapes' /\ NoteTasksSound'
  BY <1>1, <1>2 DEF NoteStrong, NoteShapes, NoteTasksSound
<1>4. \A l \in NoteKinds : noteOpen[l] \in Nat /\ noteOpen'[l] \in Nat
  BY <1>2 DEF NoteStrong, NoteShapes
<1>5. FewNotices'
  BY <1>1, <1>2, <1>4 DEF NoteStrong, FewNotices, DriftNotices, Writes, NoteKinds
<1>6. DriftCounted'
  BY <1>1, <1>2, <1>4 DEF NoteStrong, DriftCounted, NoteKinds
<1>7. NoticesFollow'
  BY <1>1, <1>2 DEF NoteStrong, NoticesFollow
<1> QED
  BY <1>3, <1>5, <1>6, <1>7 DEF NoteStrong

LEMMA NoteRestartStrong ==
    ASSUME NoteStrong, NoteRestart
    PROVE  NoteStrong'
<1>1. /\ noteTask' = [w \in Watchers |-> NoteIdle] /\ noteCount' = 0
      /\ noteLost' = (\/ noteLost
                      \/ noteCount > 0
                      \/ \E w \in Watchers : Watches[w] = "drift" /\ noteTask[w].pc = "resolve")
      /\ UNCHANGED <<noteBad, noteOpen, noteTold, noteMet>>
  BY DEF NoteRestart
<1>2. \A w \in Watchers : noteTask'[w] = NoteIdle /\ noteTask'[w].pc = "off"
  BY <1>1 DEF NoteIdle
<1>3. noteTask' \in [Watchers -> [pc : {"off", "report", "emit", "insert", "resolve"}, saw : BOOLEAN]]
  BY <1>1 DEF NoteIdle
<1>4. noteLost' \in BOOLEAN
  BY <1>1
<1>5. NoteShapes'
  BY <1>1, <1>3, <1>4, NoteAssumption DEF NoteStrong, NoteShapes
<1>6. NoteTasksSound'
  BY <1>2 DEF NoteTasksSound
<1>7. \A l \in NoteKinds : noteOpen[l] \in Nat
  BY DEF NoteStrong, NoteShapes
<1>8. FewNotices'
  BY <1>1, <1>2, <1>7, WatchersAre DEF NoteStrong, FewNotices, DriftNotices, Writes, NoteKinds
<1>9. DriftCounted'
  <2>1. "drift" \notin noteMet /\ noteOpen["drift"] > 0 => noteLost'
    <3>1. noteCount > 0 => noteLost'
      BY <1>1
    <3>2. \A w \in {"loop", "images"} : noteTask[w].pc = "resolve" => noteLost'
      BY <1>1, WatchersAre
    <3>3. noteLost => noteLost'
      BY <1>1
    <3> QED
      BY <3>1, <3>2, <3>3 DEF NoteStrong, DriftCounted
  <2>2. \A w \in {"loop", "images"} : noteTask'[w].pc = "off"
    BY <1>2, WatchersAre
  <2> QED
    BY <1>1, <2>1, <2>2 DEF DriftCounted
<1>10. NoticesFollow'
  <2>1. noteLost => noteLost'
    BY <1>1
  <2> QED
    BY <1>1, <2>1 DEF NoteStrong, NoticesFollow
<1> QED
  BY <1>5, <1>6, <1>8, <1>9, <1>10 DEF NoteStrong

LEMMA NoteNextStrong == NoteStrong /\ [NoteNext]_noteVars => NoteStrong'
<1> SUFFICES ASSUME NoteStrong, [NoteNext]_noteVars PROVE NoteStrong'
  OBVIOUS
<1>1. ASSUME UNCHANGED <<noteOpen, noteCount, noteTask, noteTold, noteMet, noteLost>>,
             noteBad' \in [NoteKinds -> BOOLEAN]
      PROVE  NoteStrong'
  BY <1>1 DEF NoteStrong, NoteShapes, NoteTasksSound, FewNotices, DriftNotices, Writes, DriftCounted,
     NoticesFollow
<1>2. CASE UNCHANGED noteVars
  BY <1>1, <1>2 DEF noteVars, NoteStrong, NoteShapes
<1>3. ASSUME NEW k \in NoteKinds, Turn(k) PROVE NoteStrong'
  <2>1. noteBad' \in [NoteKinds -> BOOLEAN]
    BY <1>3 DEF Turn, NoteStrong, NoteShapes
  <2> QED
    BY <1>1, <1>3, <2>1 DEF Turn
<1>4. ASSUME NEW w \in Watchers,
             \/ Look(w) \/ Report(w) \/ TrackDrift(w) \/ AskForOpen(w) \/ InsertNotice(w)
             \/ ResolveNotices(w)
      PROVE  NoteStrong'
  BY <1>4, LookStrong, ReportStrong, TrackDriftStrong, AskForOpenStrong, InsertNoticeStrong,
     ResolveNoticesStrong
<1> QED
  BY <1>2, <1>3, <1>4, DismissStrong, NoteRestartStrong DEF NoteNext

LEMMA NoteStrongImplies == NoteStrong => NoteTypeOK /\ NoticesSound
<1> SUFFICES ASSUME NoteStrong PROVE NoteTypeOK /\ NoticesSound
  OBVIOUS
<1>1. NoteTypeOK
  BY DEF NoteStrong, NoteShapes, NoteTypeOK
<1>2. OneOpenNotice
  BY DEF NoteStrong, NoteShapes, FewNotices, DriftNotices, Writes, OneOpenNotice, NoteKinds
<1> QED
  BY <1>1, <1>2 DEF NoteStrong, NoticesSound

LEMMA NoteAlwaysStrong == NoteSpec => []NoteStrong
<1>1. NoteStrong /\ [NoteNext]_noteVars => NoteStrong'
  BY NoteNextStrong
<1> QED
  BY <1>1, NoteInitStrong, PTL DEF NoteSpec

\* Notices are not repeated and follow what the checks last found, for any
\* threshold of drift and any number of changes, dismissals and restarts.
THEOREM NoticesFollowChecks == NoteSpec => []NoticesSound
  BY NoteAlwaysStrong, NoteStrongImplies, PTL

-----------------------------------------------------------------------------
(* Zones.                                                                  *)

DnsSets == [DnsSlots -> SUBSET DnsContents]
DnsPc == {"off", "server", "owner", "point", "delete", "row", "undo", "list", "push", "patch"}
DnsTaskRecord == [kind : {None, "create", "auto", "delete", "push", "pull"}, pc : DnsPc,
                  user : DnsUsers \cup {None}, want : SUBSET DnsRecord,
                  seen : SUBSET (DnsRecords \X DnsRecord), left : SUBSET DnsRecord, clean : BOOLEAN]

DnsShapes ==
    /\ dnsZone \in DnsSets \cup {None} /\ dnsOwner \in DnsUsers \cup {None}
    /\ dnsCloud \in [DnsRecords -> DnsRecord \cup {None}] /\ dnsMade \in 0 .. DnsMaxRecords
    /\ dnsTask \in [DnsRequests -> DnsTaskRecord]
    /\ dnsAgreed \in {None, "pushed", "pulled"} /\ dnsCut \in BOOLEAN

\* A deletion or the making of a zone is between the server and the row.
ZoneDeleters == {i \in DnsRequests : dnsTask[i].pc = "row"}

RoleSound(task) == /\ task.pc = "point" => task.kind \in {"create", "auto"}
                   /\ task.kind = None => task.pc = "off"
                   /\ task.pc \in {"server", "owner", "point"} => task.user \in DnsUsers

OwnersInTime ==
    /\ \A i \in DnsRequests : RoleSound(dnsTask[i])
    /\ \/ dnsCut
       \/ /\ \A i, j \in ZoneMakers : i = j
          /\ \A i, j \in ZoneDeleters : i = j
          /\ ZoneMakers # {} => dnsZone # None /\ (dnsOwner # None <=> ZoneDeleters # {})
          /\ ZoneMakers = {} => /\ dnsOwner # None <=> dnsZone # None \/ ZoneDeleters # {}
                                /\ dnsZone = None \/ ZoneDeleters = {}

CloudListed == {<<r, dnsCloud[r]>> : r \in {q \in DnsRecords : dnsCloud[q] # None}}

\* What of a push is done.
PushInTime(task) ==
    /\ task.left \subseteq task.want /\ task.want \ task.left \subseteq CloudValues
    /\ \A x, y \in task.seen : x[1] = y[1] => x = y
    /\ \A x \in task.seen :
         \/ dnsCloud[x[1]] = x[2]
         \/ /\ dnsCloud[x[1]] \in task.want \ task.left
            /\ dnsCloud[x[1]][1] = x[2][1] /\ SingleValued(task, dnsCloud[x[1]])

\* A push or pull that nobody disturbed knows what there is.
TaskInTime(task) == task.clean =>
    /\ task.pc \in {"list", "push", "patch"} => dnsZone # None /\ task.want = Records(dnsZone)
    /\ task.pc = "patch" => task.seen = CloudListed
    /\ task.pc = "push" => PushInTime(task)

TwinsInTime ==
    /\ \A r \in DnsRecords : r > dnsMade => dnsCloud[r] = None
    /\ \A i \in DnsRequests : TaskInTime(dnsTask[i])
    /\ dnsAgreed # None => dnsZone # None

DnsStrong == DnsShapes /\ OwnersInTime /\ TwinsInTime /\ TwinsAgree

LEMMA DnsDefaults == Defaults \in DnsSets /\ Defaults # None
<1>1. Empty \in DnsSets /\ (CHOOSE c \in DnsContents : TRUE) \in DnsContents
  BY DnsAssumption DEF Empty, DnsSets
<1>2. Defaults \in DnsSets
  BY <1>1 DEF Defaults, DnsSets
<1> QED
  BY <1>2, DnsNoneAssumption DEF DnsSets

LEMMA DnsInitStrong == DnsInit => DnsStrong
<1> SUFFICES ASSUME DnsInit PROVE DnsStrong
  OBVIOUS
<1>1. DnsIdle \in DnsTaskRecord /\ DnsIdle.kind = None /\ DnsIdle.pc = "off"
  BY DEF DnsIdle, DnsTaskRecord, DnsPc
<1>2. Defaults \in DnsSets /\ Defaults # None
  BY DnsDefaults
<1>3. DnsShapes
  <2>1. dnsZone \in DnsSets \cup {None} /\ dnsOwner \in DnsUsers \cup {None} /\ dnsMade = 0
    BY <1>2 DEF DnsInit
  <2>2. /\ dnsCloud \in [DnsRecords -> DnsRecord \cup {None}] /\ dnsTask \in [DnsRequests -> DnsTaskRecord]
        /\ dnsAgreed = None /\ dnsCut = FALSE
    BY <1>1 DEF DnsInit
  <2>3. dnsMade \in 0 .. DnsMaxRecords
    BY <2>1, DnsAssumption
  <2> QED
    BY <2>1, <2>2, <2>3 DEF DnsShapes
<1>4. \A i \in DnsRequests : dnsTask[i].pc = "off"
  BY <1>1 DEF DnsInit
<1>5. ZoneMakers = {} /\ ZoneDeleters = {}
  BY <1>4 DEF ZoneMakers, ZoneDeleters
<1>6. dnsOwner # None <=> dnsZone # None
  BY <1>2, DnsAssumption DEF DnsInit
<1>7. OwnersInTime
  BY <1>4, <1>5, <1>6 DEF OwnersInTime, RoleSound
<1>8. TwinsInTime /\ TwinsAgree
  <2>1. dnsAgreed = None /\ \A r \in DnsRecords : dnsCloud[r] = None
    BY DEF DnsInit
  <2> QED
    BY <1>4, <2>1, DnsNoneAssumption DEF TwinsInTime, TaskInTime, TwinsAgree
<1> QED
  BY <1>3, <1>7, <1>8 DEF DnsStrong

\* A step of one handler leaves what the others hold; it disturbs them when it
\* changes a record.
DnsMoves(i) ==
    /\ dnsTask' \in [DnsRequests -> DnsTaskRecord]
    /\ \A j \in DnsRequests : j # i =>
         /\ dnsTask'[j].kind = dnsTask[j].kind /\ dnsTask'[j].pc = dnsTask[j].pc
         /\ dnsTask'[j].user = dnsTask[j].user
         /\ dnsTask'[j].want = dnsTask[j].want /\ dnsTask'[j].seen = dnsTask[j].seen
         /\ dnsTask'[j].left = dnsTask[j].left
         /\ dnsTask'[j].clean => dnsTask[j].clean /\ dnsZone' = dnsZone /\ dnsCloud' = dnsCloud

LEMMA DnsTwinsKept ==
    ASSUME DnsShapes, TwinsInTime, NEW i, DnsMoves(i),
           \A r \in DnsRecords : r > dnsMade' => dnsCloud'[r] = None,
           i \in DnsRequests => TaskInTime(dnsTask[i])',
           dnsAgreed' # None => dnsZone' # None
    PROVE  TwinsInTime'
<1>1. ASSUME NEW j \in DnsRequests, j # i PROVE TaskInTime(dnsTask[j])'
  <2> SUFFICES ASSUME dnsTask'[j].clean PROVE TaskInTime(dnsTask[j])'
    BY DEF TaskInTime
  <2>1. /\ dnsTask'[j].pc = dnsTask[j].pc
        /\ dnsTask'[j].want = dnsTask[j].want /\ dnsTask'[j].seen = dnsTask[j].seen
        /\ dnsTask'[j].left = dnsTask[j].left
        /\ dnsTask[j].clean /\ dnsZone' = dnsZone /\ dnsCloud' = dnsCloud
    BY <1>1 DEF DnsMoves
  <2>2. TaskInTime(dnsTask[j])
    BY DEF TwinsInTime
  <2>3. CloudValues' = CloudValues /\ CloudListed' = CloudListed
    BY <2>1 DEF CloudValues, CloudListed
  <2>4. PushInTime(dnsTask[j]) => PushInTime(dnsTask[j])'
    BY <2>1, <2>3 DEF PushInTime, SingleValued
  <2>5. Records(dnsZone') = Records(dnsZone)
    BY <2>1
  <2> QED
    BY <2>1, <2>2, <2>3, <2>4, <2>5 DEF TaskInTime
<1> QED
  BY <1>1 DEF TwinsInTime

LEMMA DnsAgreedKept ==
    ASSUME TwinsAgree, dnsAgreed' = None \/ UNCHANGED <<dnsAgreed, dnsZone, dnsCloud>>
    PROVE  TwinsAgree'
<1>1. CASE dnsAgreed' = None
  BY <1>1, DnsNoneAssumption DEF TwinsAgree
<1>2. CASE UNCHANGED <<dnsAgreed, dnsZone, dnsCloud>>
  BY <1>2 DEF TwinsAgree, CloudValues
<1> QED
  BY <1>1, <1>2

\* Which handlers make or delete a zone depends on their kinds and where they are.
LEMMA DnsRolesMove ==
    ASSUME NEW i, DnsMoves(i)
    PROVE  /\ \A j : j # i => (j \in ZoneMakers' <=> j \in ZoneMakers)
                             /\ (j \in ZoneDeleters' <=> j \in ZoneDeleters)
           /\ OwnersInTime => \A j \in DnsRequests : j # i => RoleSound(dnsTask[j])'
<1>1. ASSUME NEW j, j # i
      PROVE  (j \in ZoneMakers' <=> j \in ZoneMakers) /\ (j \in ZoneDeleters' <=> j \in ZoneDeleters)
  BY <1>1 DEF DnsMoves, ZoneMakers, ZoneDeleters
<1>2. OwnersInTime => \A j \in DnsRequests : j # i => RoleSound(dnsTask[j])'
  BY DEF DnsMoves, OwnersInTime, RoleSound
<1> QED
  BY <1>1, <1>2

\* A step that neither enters nor leaves, and keeps zone and owner.
LEMMA DnsOwnersKept ==
    ASSUME OwnersInTime, NEW i, DnsMoves(i), dnsOwner' = dnsOwner, dnsCut' = dnsCut,
           dnsZone' # None <=> dnsZone # None,
           i \in ZoneMakers' <=> i \in ZoneMakers, i \in ZoneDeleters' <=> i \in ZoneDeleters,
           i \in DnsRequests => RoleSound(dnsTask[i])'
    PROVE  OwnersInTime'
<1>1. ZoneMakers' = ZoneMakers /\ ZoneDeleters' = ZoneDeleters
  <2>1. \A j : (j \in ZoneMakers' <=> j \in ZoneMakers) /\ (j \in ZoneDeleters' <=> j \in ZoneDeleters)
    BY DnsRolesMove
  <2> QED
    BY <2>1
<1>2. \A j \in DnsRequests : RoleSound(dnsTask[j])'
  BY DnsRolesMove
<1> QED
  BY <1>1, <1>2 DEF OwnersInTime

\* A handler that is not at a row makes or deletes no zone.
LEMMA DnsNoRole ==
    \A i : dnsTask[i].pc \in {"off", "server", "delete", "list", "push", "patch"} =>
             i \notin ZoneMakers /\ i \notin ZoneDeleters
  BY DEF ZoneMakers, ZoneDeleters

\* A request comes.
LEMMA DnsAccepts ==
    ASSUME DnsStrong, NEW i \in DnsRequests, NEW kind \in {"create", "auto", "delete", "push", "pull"},
           NEW u \in DnsUsers \cup {None}, NEW pc \in {"server", "delete", "list"},
           NEW want \in SUBSET DnsRecord, DnsAccept(i, kind, u, pc, want),
           pc = "server" => u \in DnsUsers,
           pc = "list" => dnsZone # None /\ want = Records(dnsZone)
    PROVE  DnsStrong'
<1> DEFINE t == [DnsIdle EXCEPT !.kind = kind, !.pc = pc, !.user = u, !.want = want, !.clean = TRUE]
<1>1. /\ t \in DnsTaskRecord /\ t.kind = kind /\ t.pc = pc /\ t.want = want /\ t.user = u
  BY DEF DnsIdle, DnsTaskRecord, DnsPc
<1>2. /\ dnsTask' = [dnsTask EXCEPT ![i] = t]
      /\ UNCHANGED <<dnsZone, dnsOwner, dnsCloud, dnsMade, dnsAgreed, dnsCut>>
      /\ dnsTask[i].kind = None
  BY DEF DnsAccept
<1> HIDE DEF t
<1>3. dnsTask'[i] = t /\ DnsMoves(i)
  BY <1>1, <1>2 DEF DnsStrong, DnsShapes, DnsMoves
<1>4. DnsShapes'
  BY <1>2, <1>3 DEF DnsStrong, DnsShapes, DnsMoves
<1>5. dnsTask[i].pc = "off" /\ kind # None
  BY <1>2, DnsNoneAssumption DEF DnsStrong, OwnersInTime, RoleSound
<1>6. RoleSound(dnsTask[i])'
  BY <1>1, <1>3, <1>5 DEF RoleSound
<1>7. i \notin ZoneMakers /\ i \notin ZoneDeleters /\ i \notin ZoneMakers' /\ i \notin ZoneDeleters'
  BY <1>1, <1>3, <1>5 DEF ZoneMakers, ZoneDeleters
<1>8. OwnersInTime'
  BY <1>2, <1>3, <1>6, <1>7, DnsOwnersKept DEF DnsStrong
<1>9. TaskInTime(dnsTask[i])'
  <2>1. dnsTask'[i].pc \notin {"push", "patch"}
    BY <1>1, <1>3
  <2>2. dnsTask'[i].pc = "list" => dnsZone' # None /\ dnsTask'[i].want = Records(dnsZone')
    BY <1>1, <1>2, <1>3
  <2> QED
    BY <2>1, <2>2 DEF TaskInTime
<1>10. TwinsInTime'
  <2>1. \A r \in DnsRecords : r > dnsMade' => dnsCloud'[r] = None
    BY <1>2 DEF DnsStrong, TwinsInTime
  <2>2. dnsAgreed' # None => dnsZone' # None
    BY <1>2 DEF DnsStrong, TwinsInTime
  <2> QED
    BY <1>3, <1>9, <2>1, <2>2, DnsTwinsKept DEF DnsStrong
<1>11. TwinsAgree'
  BY <1>2, DnsAgreedKept DEF DnsStrong
<1> QED
  BY <1>4, <1>8, <1>10, <1>11 DEF DnsStrong

\* A handler goes on, where no push or pull is; if it touches the zone, every
\* other is disturbed.  What it does to zone and owner is what the lemmas of
\* the actions say.
LEMMA DnsGoesOn ==
    ASSUME DnsStrong, NEW i \in DnsRequests,
           NEW pc \in {"off", "owner", "point", "row", "undo"},
           NEW zone \in DnsSets \cup {None}, NEW owner \in DnsUsers \cup {None}, NEW cut \in BOOLEAN,
           \/ dnsTask' = [dnsTask EXCEPT ![i].pc = pc] /\ UNCHANGED <<dnsZone, dnsAgreed>>
           \/ dnsTask' = [Disturb(i) EXCEPT ![i].pc = pc] /\ dnsAgreed' = None,
           dnsZone' = zone, dnsOwner' = owner, dnsCut' = cut, UNCHANGED <<dnsCloud, dnsMade>>
    PROVE  /\ DnsShapes' /\ DnsMoves(i) /\ TwinsInTime' /\ TwinsAgree'
           /\ dnsTask'[i].pc = pc /\ dnsTask'[i].kind = dnsTask[i].kind
           /\ dnsTask'[i].user = dnsTask[i].user
<1>1. dnsTask \in [DnsRequests -> DnsTaskRecord] /\ Disturb(i) \in [DnsRequests -> DnsTaskRecord]
  <2>1. dnsTask \in [DnsRequests -> DnsTaskRecord]
    BY DEF DnsStrong, DnsShapes
  <2>2. \A r \in DnsTaskRecord : [r EXCEPT !.clean = FALSE] \in DnsTaskRecord
    BY DEF DnsTaskRecord
  <2> QED
    BY <2>1, <2>2 DEF Disturb
<1>2. /\ Disturb(i)[i] = dnsTask[i]
      /\ \A j \in DnsRequests \ {i} : Disturb(i)[j] = [dnsTask[j] EXCEPT !.clean = FALSE]
  BY DEF Disturb
<1>3. [dnsTask[i] EXCEPT !.pc = pc] \in DnsTaskRecord
  BY <1>1 DEF DnsTaskRecord, DnsPc
<1>4. dnsTask' \in [DnsRequests -> DnsTaskRecord] /\ dnsTask'[i] = [dnsTask[i] EXCEPT !.pc = pc]
  <2>1. CASE dnsTask' = [dnsTask EXCEPT ![i].pc = pc]
    BY <1>1, <1>3, <2>1
  <2>2. CASE dnsTask' = [Disturb(i) EXCEPT ![i].pc = pc]
    <3> DEFINE D == Disturb(i)
    <3>1. D \in [DnsRequests -> DnsTaskRecord] /\ D[i] = dnsTask[i] /\ dnsTask' = [D EXCEPT ![i].pc = pc]
      BY <1>1, <1>2, <2>2
    <3> HIDE DEF D
    <3> QED
      BY <1>3, <3>1
  <2> QED
    BY <2>1, <2>2
<1>5. DnsMoves(i)
  <2> SUFFICES ASSUME NEW j \in DnsRequests, j # i
               PROVE  /\ dnsTask'[j].kind = dnsTask[j].kind /\ dnsTask'[j].pc = dnsTask[j].pc
                      /\ dnsTask'[j].user = dnsTask[j].user
                      /\ dnsTask'[j].want = dnsTask[j].want /\ dnsTask'[j].seen = dnsTask[j].seen
                      /\ dnsTask'[j].left = dnsTask[j].left
                      /\ dnsTask'[j].clean => dnsTask[j].clean /\ dnsZone' = dnsZone /\ dnsCloud' = dnsCloud
    BY <1>4 DEF DnsMoves
  <2>1. dnsTask[j] \in DnsTaskRecord
    BY <1>1
  <2>2. CASE dnsTask' = [dnsTask EXCEPT ![i].pc = pc] /\ UNCHANGED <<dnsZone, dnsAgreed>>
    <3>1. dnsTask'[j] = dnsTask[j]
      BY <1>1, <2>2
    <3> QED
      BY <2>2, <3>1
  <2>3. CASE dnsTask' = [Disturb(i) EXCEPT ![i].pc = pc]
    <3>1. dnsTask'[j] = [dnsTask[j] EXCEPT !.clean = FALSE]
      BY <1>1, <1>2, <2>3
    <3> QED
      BY <2>1, <3>1 DEF DnsTaskRecord
  <2> QED
    BY <2>2, <2>3
<1>6. dnsAgreed' = None \/ UNCHANGED <<dnsAgreed, dnsZone, dnsCloud>>
  OBVIOUS
<1>7. DnsShapes'
  BY <1>4, <1>6 DEF DnsStrong, DnsShapes
<1>8. /\ dnsTask'[i].pc = pc /\ dnsTask'[i].kind = dnsTask[i].kind
      /\ dnsTask'[i].user = dnsTask[i].user
  BY <1>1, <1>4 DEF DnsTaskRecord
<1>9. TwinsInTime'
  <2>1. \A r \in DnsRecords : r > dnsMade' => dnsCloud'[r] = None
    BY DEF DnsStrong, TwinsInTime
  <2>2. dnsAgreed' # None => dnsZone' # None
    BY <1>6 DEF DnsStrong, TwinsInTime
  <2>3. TaskInTime(dnsTask[i])'
    BY <1>8 DEF TaskInTime
  <2> QED
    BY <1>5, <2>1, <2>2, <2>3, DnsTwinsKept DEF DnsStrong
<1>10. TwinsAgree'
  BY <1>6, DnsAgreedKept DEF DnsStrong
<1> QED
  BY <1>5, <1>7, <1>8, <1>9, <1>10

\* The steps of the makers and deleters of a zone.
LEMMA DnsServerCreates ==
    ASSUME DnsStrong, NEW i \in DnsRequests, ServerCreates(i)
    PROVE  DnsStrong'
<1>1. dnsTask[i].pc = "server" /\ UNCHANGED <<dnsOwner, dnsCloud, dnsMade, dnsCut>>
  BY DEF ServerCreates
<1>2. i \notin ZoneMakers /\ i \notin ZoneDeleters
  BY <1>1, DnsNoRole
<1>3. dnsOwner \in DnsUsers \cup {None} /\ dnsZone \in DnsSets \cup {None} /\ dnsCut \in BOOLEAN
      /\ OwnersInTime
  BY DEF DnsStrong, DnsShapes
<1>4. CASE dnsZone # None
  <2>1. dnsTask' = [dnsTask EXCEPT ![i].pc = "off"] /\ UNCHANGED <<dnsZone, dnsAgreed>>
    BY <1>4 DEF ServerCreates, DnsEnd, DnsTo
  <2>2. /\ DnsShapes' /\ DnsMoves(i) /\ TwinsInTime' /\ TwinsAgree' /\ dnsTask'[i].pc = "off"
    BY <1>1, <1>3, <2>1, DnsGoesOn
  <2>3. i \notin ZoneMakers' /\ i \notin ZoneDeleters' /\ RoleSound(dnsTask[i])'
    BY <2>2 DEF ZoneMakers, ZoneDeleters, RoleSound
  <2>4. OwnersInTime'
    BY <1>1, <1>2, <1>3, <2>1, <2>2, <2>3, DnsOwnersKept
  <2> QED
    BY <2>2, <2>4 DEF DnsStrong
<1>5. CASE dnsZone = None
  <2> DEFINE pc == IF dnsTask[i].kind = "auto" THEN "point" ELSE "owner"
  <2>1. dnsTask' = [Disturb(i) EXCEPT ![i].pc = pc] /\ dnsAgreed' = None /\ dnsZone' = Empty
    BY <1>5 DEF ServerCreates
  <2>2. Empty \in DnsSets /\ Empty # None /\ pc \in {"point", "owner"}
    BY DnsNoneAssumption DEF Empty, DnsSets
  <2> HIDE DEF pc
  <2>3. /\ DnsShapes' /\ DnsMoves(i) /\ TwinsInTime' /\ TwinsAgree' /\ dnsTask'[i].pc = pc
        /\ dnsTask'[i].kind = dnsTask[i].kind /\ dnsTask'[i].user = dnsTask[i].user
    BY <1>1, <1>3, <2>1, <2>2, DnsGoesOn
  <2>4. RoleSound(dnsTask[i])
    BY <1>3 DEF OwnersInTime
  <2>5. i \in ZoneMakers' /\ i \notin ZoneDeleters' /\ RoleSound(dnsTask[i])'
    BY <1>1, <2>2, <2>3, <2>4 DEF ZoneMakers, ZoneDeleters, RoleSound, pc
  <2>6. ZoneMakers' = ZoneMakers \cup {i} /\ ZoneDeleters' = ZoneDeleters
    BY <1>2, <2>3, <2>5, DnsRolesMove
  <2>7. \A j \in DnsRequests : RoleSound(dnsTask[j])'
    BY <1>3, <2>3, <2>5, DnsRolesMove
  <2>8. OwnersInTime'
    <3>1. CASE dnsCut
      BY <1>1, <2>7, <3>1 DEF OwnersInTime
    <3>2. CASE ~dnsCut
      <4>1. ZoneMakers = {} /\ (dnsOwner # None <=> ZoneDeleters # {})
            /\ \A k, l \in ZoneDeleters : k = l
        BY <1>3, <1>5, <3>2 DEF OwnersInTime
      <4> QED
        BY <1>1, <2>1, <2>2, <2>6, <2>7, <4>1 DEF OwnersInTime
    <3> QED
      BY <3>1, <3>2
  <2> QED
    BY <2>3, <2>8 DEF DnsStrong
<1> QED
  BY <1>4, <1>5

LEMMA DnsRecordsOwner ==
    ASSUME DnsStrong, NEW i \in DnsRequests, RecordOwner(i)
    PROVE  DnsStrong'
<1> DEFINE owner == IF dnsOwner = None THEN dnsTask[i].user ELSE dnsOwner
           cut == (dnsCut \/ dnsOwner # None)
<1>1. /\ dnsTask[i].pc = "owner" /\ UNCHANGED <<dnsZone, dnsCloud, dnsMade, dnsAgreed>>
      /\ dnsOwner' = owner /\ dnsCut' = cut
  BY DEF RecordOwner
<1>2. PICK pc \in {"point", "off"} : /\ pc = "point" => dnsTask[i].kind = "create"
                                     /\ dnsTask' = [dnsTask EXCEPT ![i].pc = pc]
  BY DEF RecordOwner, DnsTo
<1>3. dnsOwner \in DnsUsers \cup {None} /\ dnsZone \in DnsSets \cup {None} /\ cut \in BOOLEAN
      /\ OwnersInTime /\ dnsTask[i] \in DnsTaskRecord
  BY DEF DnsStrong, DnsShapes
<1>4. owner \in DnsUsers \cup {None}
  BY <1>3 DEF DnsTaskRecord
<1> HIDE DEF owner, cut
<1>5. /\ DnsShapes' /\ DnsMoves(i) /\ TwinsInTime' /\ TwinsAgree' /\ dnsTask'[i].pc = pc
      /\ dnsTask'[i].kind = dnsTask[i].kind /\ dnsTask'[i].user = dnsTask[i].user
  BY <1>1, <1>2, <1>3, <1>4, DnsGoesOn
<1>6. i \in ZoneMakers /\ i \notin ZoneDeleters
  BY <1>1 DEF ZoneMakers, ZoneDeleters
<1>7. i \notin ZoneMakers' /\ i \notin ZoneDeleters' /\ RoleSound(dnsTask[i])'
  <2>1. RoleSound(dnsTask[i])
    BY <1>3 DEF OwnersInTime
  <2> QED
    BY <1>1, <1>2, <1>5, <2>1 DEF ZoneMakers, ZoneDeleters, RoleSound
<1>8. ZoneMakers' = ZoneMakers \ {i} /\ ZoneDeleters' = ZoneDeleters
  BY <1>5, <1>6, <1>7, DnsRolesMove
<1>9. \A j \in DnsRequests : RoleSound(dnsTask[j])'
  BY <1>3, <1>5, <1>7, DnsRolesMove
<1>10. OwnersInTime'
  <2>1. CASE cut
    BY <1>1, <1>9, <2>1 DEF OwnersInTime
  <2>2. CASE ~cut
    <3>1. ~dnsCut /\ dnsOwner = None /\ owner = dnsTask[i].user
      BY <2>2 DEF cut, owner
    <3>2. ZoneMakers = {i} /\ dnsZone # None /\ ZoneDeleters = {}
      BY <1>3, <1>6, <3>1 DEF OwnersInTime
    <3>3. owner # None
      BY <1>1, <1>3, <3>1, DnsAssumption DEF OwnersInTime, RoleSound
    <3>4. ZoneMakers' = {} /\ ZoneDeleters' = {}
      BY <1>8, <3>2
    <3>5. dnsOwner' # None /\ dnsZone' # None
      BY <1>1, <3>2, <3>3
    <3> QED
      BY <1>9, <3>4, <3>5 DEF OwnersInTime
  <2> QED
    BY <2>1, <2>2
<1> QED
  BY <1>5, <1>10 DEF DnsStrong

LEMMA DnsPointsToServer ==
    ASSUME DnsStrong, NEW i \in DnsRequests, PointToServer(i)
    PROVE  DnsStrong'
<1> DEFINE zone == IF dnsZone = None THEN None ELSE Defaults
           pc == IF dnsTask[i].kind = "create" THEN "off"
                 ELSE IF dnsZone = None THEN "undo" ELSE "owner"
<1>1. /\ dnsTask[i].pc = "point" /\ UNCHANGED <<dnsOwner, dnsCloud, dnsMade, dnsCut>>
      /\ dnsZone' = zone /\ dnsAgreed' = None /\ dnsTask' = [Disturb(i) EXCEPT ![i].pc = pc]
  BY DEF PointToServer
<1>2. dnsOwner \in DnsUsers \cup {None} /\ dnsZone \in DnsSets \cup {None} /\ dnsCut \in BOOLEAN
      /\ OwnersInTime
  BY DEF DnsStrong, DnsShapes
<1>3. zone \in DnsSets \cup {None} /\ (zone # None <=> dnsZone # None) /\ pc \in {"off", "undo", "owner"}
  BY DnsDefaults
<1>4. RoleSound(dnsTask[i])
  BY <1>2 DEF OwnersInTime
<1>5. CASE dnsTask[i].kind = "create"
  <2>1. pc = "off"
    BY <1>5
  <2> HIDE DEF zone, pc
  <2>2. /\ DnsShapes' /\ DnsMoves(i) /\ TwinsInTime' /\ TwinsAgree' /\ dnsTask'[i].pc = "off"
    BY <1>1, <1>2, <1>3, <2>1, DnsGoesOn
  <2>3. /\ i \notin ZoneMakers' /\ i \notin ZoneDeleters' /\ RoleSound(dnsTask[i])'
        /\ i \notin ZoneMakers /\ i \notin ZoneDeleters
    BY <1>1, <1>5, <2>2 DEF ZoneMakers, ZoneDeleters, RoleSound
  <2>4. OwnersInTime'
    BY <1>1, <1>2, <1>3, <2>2, <2>3, DnsOwnersKept
  <2> QED
    BY <2>2, <2>4 DEF DnsStrong
<1>6. CASE dnsTask[i].kind # "create"
  <2>1. dnsTask[i].kind = "auto" /\ pc \in {"undo", "owner"}
    BY <1>1, <1>4, <1>6 DEF RoleSound
  <2> HIDE DEF zone, pc
  <2>2. /\ DnsShapes' /\ DnsMoves(i) /\ TwinsInTime' /\ TwinsAgree' /\ dnsTask'[i].pc = pc
        /\ dnsTask'[i].kind = dnsTask[i].kind /\ dnsTask'[i].user = dnsTask[i].user
    BY <1>1, <1>2, <1>3, <2>1, DnsGoesOn
  <2>3. /\ i \in ZoneMakers' /\ i \notin ZoneDeleters' /\ i \in ZoneMakers /\ i \notin ZoneDeleters
    BY <1>1, <2>1, <2>2 DEF ZoneMakers, ZoneDeleters
  <2>4. RoleSound(dnsTask[i])'
    BY <1>1, <1>4, <2>1, <2>2, DnsNoneAssumption DEF RoleSound
  <2>5. OwnersInTime'
    BY <1>1, <1>2, <1>3, <2>2, <2>3, <2>4, DnsOwnersKept
  <2> QED
    BY <2>2, <2>5 DEF DnsStrong
<1> QED
  BY <1>5, <1>6

LEMMA DnsUndoes ==
    ASSUME DnsStrong, NEW i \in DnsRequests, UndoZone(i)
    PROVE  DnsStrong'
<1>1. /\ dnsTask[i].pc = "undo" /\ UNCHANGED <<dnsOwner, dnsCloud, dnsMade, dnsCut>>
      /\ dnsZone' = None /\ dnsAgreed' = None /\ dnsTask' = [Disturb(i) EXCEPT ![i].pc = "off"]
  BY DEF UndoZone
<1>2. dnsOwner \in DnsUsers \cup {None} /\ dnsCut \in BOOLEAN /\ OwnersInTime
  BY DEF DnsStrong, DnsShapes
<1>3. /\ DnsShapes' /\ DnsMoves(i) /\ TwinsInTime' /\ TwinsAgree' /\ dnsTask'[i].pc = "off"
      /\ dnsTask'[i].kind = dnsTask[i].kind
  BY <1>1, <1>2, DnsGoesOn
<1>4. i \in ZoneMakers /\ i \notin ZoneDeleters /\ i \notin ZoneMakers' /\ i \notin ZoneDeleters'
  BY <1>1, <1>3 DEF ZoneMakers, ZoneDeleters
<1>5. RoleSound(dnsTask[i])'
  BY <1>3 DEF RoleSound
<1>6. ZoneMakers' = ZoneMakers \ {i} /\ ZoneDeleters' = ZoneDeleters
  BY <1>3, <1>4, DnsRolesMove
<1>7. \A j \in DnsRequests : RoleSound(dnsTask[j])'
  BY <1>2, <1>3, <1>5, DnsRolesMove
<1>8. OwnersInTime'
  <2>1. CASE dnsCut
    BY <1>1, <1>7, <2>1 DEF OwnersInTime
  <2>2. CASE ~dnsCut
    <3>1. ZoneMakers = {i} /\ (dnsOwner # None <=> ZoneDeleters # {})
          /\ \A k, l \in ZoneDeleters : k = l
      BY <1>2, <1>4, <2>2 DEF OwnersInTime
    <3>2. ZoneMakers' = {}
      BY <1>6, <3>1
    <3> QED
      BY <1>1, <1>6, <1>7, <3>1, <3>2 DEF OwnersInTime
  <2> QED
    BY <2>1, <2>2
<1> QED
  BY <1>3, <1>8 DEF DnsStrong

LEMMA DnsServerDeletes ==
    ASSUME DnsStrong, NEW i \in DnsRequests, ServerDeletes(i)
    PROVE  DnsStrong'
<1> DEFINE pc == IF dnsZone = None THEN "off" ELSE "row"
           cut == (dnsCut \/ (dnsZone # None /\ ZoneMakers # {}))
<1>1. /\ dnsTask[i].pc = "delete" /\ UNCHANGED <<dnsOwner, dnsCloud, dnsMade>> /\ dnsCut' = cut
      /\ dnsZone' = None /\ dnsAgreed' = None /\ dnsTask' = [Disturb(i) EXCEPT ![i].pc = pc]
  BY DEF ServerDeletes
<1>2. /\ dnsOwner \in DnsUsers \cup {None} /\ dnsCut \in BOOLEAN /\ OwnersInTime
      /\ pc \in {"off", "row"} /\ (pc = "row" <=> dnsZone # None)
  BY DEF DnsStrong, DnsShapes
<1>3. cut \in BOOLEAN
  BY <1>2
<1> HIDE DEF pc, cut
<1>4. /\ DnsShapes' /\ DnsMoves(i) /\ TwinsInTime' /\ TwinsAgree' /\ dnsTask'[i].pc = pc
      /\ dnsTask'[i].kind = dnsTask[i].kind
  BY <1>1, <1>2, <1>3, DnsGoesOn
<1>5. /\ i \notin ZoneMakers /\ i \notin ZoneDeleters /\ i \notin ZoneMakers'
      /\ i \in ZoneDeleters' <=> pc = "row"
  BY <1>1, <1>2, <1>4 DEF ZoneMakers, ZoneDeleters
<1>6. RoleSound(dnsTask[i])'
  <2>1. RoleSound(dnsTask[i])
    BY <1>2 DEF OwnersInTime
  <2> QED
    BY <1>1, <1>2, <1>4, <2>1 DEF RoleSound
<1>7. ZoneMakers' = ZoneMakers
      /\ ZoneDeleters' = IF dnsZone # None THEN ZoneDeleters \cup {i} ELSE ZoneDeleters
  <2>1. ZoneMakers' = ZoneMakers
    BY <1>4, <1>5, DnsRolesMove
  <2>2. CASE dnsZone # None
    BY <1>2, <1>4, <1>5, <2>1, <2>2, DnsRolesMove
  <2>3. CASE dnsZone = None
    BY <1>2, <1>4, <1>5, <2>1, <2>3, DnsRolesMove
  <2> QED
    BY <2>2, <2>3
<1>8. \A j \in DnsRequests : RoleSound(dnsTask[j])'
  BY <1>2, <1>4, <1>6, DnsRolesMove
<1>9. OwnersInTime'
  <2>1. CASE cut
    BY <1>1, <1>8, <2>1 DEF OwnersInTime
  <2>2. CASE ~cut /\ dnsZone # None
    <3>1. ~dnsCut /\ ZoneMakers = {}
      BY <2>2 DEF cut
    <3>2. dnsOwner # None /\ ZoneDeleters = {}
      BY <1>2, <2>2, <3>1 DEF OwnersInTime
    <3>3. ZoneDeleters' = {i} /\ ZoneMakers' = {}
      BY <1>7, <2>2, <3>1, <3>2
    <3> QED
      BY <1>1, <1>8, <3>2, <3>3 DEF OwnersInTime
  <2>3. CASE ~cut /\ dnsZone = None
    <3>1. ~dnsCut
      BY <2>3 DEF cut
    <3>2. ZoneMakers = {} /\ (dnsOwner # None <=> ZoneDeleters # {})
          /\ \A k, l \in ZoneDeleters : k = l
      BY <1>2, <2>3, <3>1 DEF OwnersInTime
    <3>3. ZoneDeleters' = ZoneDeleters /\ ZoneMakers' = {}
      BY <1>7, <2>3, <3>2
    <3> QED
      BY <1>1, <1>8, <3>2, <3>3 DEF OwnersInTime
  <2> QED
    BY <2>1, <2>2, <2>3
<1> QED
  BY <1>4, <1>9 DEF DnsStrong

LEMMA DnsDeletesOwner ==
    ASSUME DnsStrong, NEW i \in DnsRequests, DeleteOwner(i)
    PROVE  DnsStrong'
<1>1. /\ dnsTask[i].pc = "row" /\ UNCHANGED <<dnsZone, dnsCloud, dnsMade, dnsAgreed, dnsCut>>
      /\ dnsOwner' = None /\ dnsTask' = [dnsTask EXCEPT ![i].pc = "off"]
  BY DEF DeleteOwner, DnsEnd, DnsTo
<1>2. dnsZone \in DnsSets \cup {None} /\ dnsCut \in BOOLEAN /\ OwnersInTime
  BY DEF DnsStrong, DnsShapes
<1>3. /\ DnsShapes' /\ DnsMoves(i) /\ TwinsInTime' /\ TwinsAgree' /\ dnsTask'[i].pc = "off"
      /\ dnsTask'[i].kind = dnsTask[i].kind
  BY <1>1, <1>2, DnsGoesOn
<1>4. i \notin ZoneMakers /\ i \in ZoneDeleters /\ i \notin ZoneMakers' /\ i \notin ZoneDeleters'
  BY <1>1, <1>3 DEF ZoneMakers, ZoneDeleters
<1>5. RoleSound(dnsTask[i])'
  BY <1>3 DEF RoleSound
<1>6. ZoneMakers' = ZoneMakers /\ ZoneDeleters' = ZoneDeleters \ {i}
  BY <1>3, <1>4, DnsRolesMove
<1>7. \A j \in DnsRequests : RoleSound(dnsTask[j])'
  BY <1>2, <1>3, <1>5, DnsRolesMove
<1>8. OwnersInTime'
  <2>1. CASE dnsCut
    BY <1>1, <1>7, <2>1 DEF OwnersInTime
  <2>2. CASE ~dnsCut
    <3>1. /\ \A k, l \in ZoneDeleters : k = l
          /\ \A k, l \in ZoneMakers : k = l
          /\ ZoneMakers # {} <=> dnsZone # None
      BY <1>2, <1>4, <2>2 DEF OwnersInTime
    <3>2. ZoneDeleters' = {}
      BY <1>4, <1>6, <3>1
    <3> QED
      BY <1>1, <1>6, <1>7, <3>1, <3>2 DEF OwnersInTime
  <2> QED
    BY <2>1, <2>2
<1> QED
  BY <1>3, <1>8 DEF DnsStrong

\* A request to another service fails.
LEMMA DnsFails ==
    ASSUME DnsStrong, NEW i \in DnsRequests, RequestFails(i)
    PROVE  DnsStrong'
<1> DEFINE pc == IF dnsTask[i].kind = "auto" /\ dnsTask[i].pc = "point" THEN "undo" ELSE "off"
           cut == (dnsCut \/ dnsTask[i].pc \in {"owner", "row", "undo"})
<1>1. /\ UNCHANGED <<dnsZone, dnsOwner, dnsCloud, dnsMade, dnsAgreed>> /\ dnsCut' = cut
      /\ dnsTask' = [dnsTask EXCEPT ![i].pc = pc]
  BY DEF RequestFails, DnsTo
<1>2. /\ dnsZone \in DnsSets \cup {None} /\ dnsOwner \in DnsUsers \cup {None} /\ cut \in BOOLEAN
      /\ OwnersInTime /\ pc \in {"off", "undo"}
  BY DEF DnsStrong, DnsShapes
<1> HIDE DEF pc, cut
<1>3. /\ DnsShapes' /\ DnsMoves(i) /\ TwinsInTime' /\ TwinsAgree' /\ dnsTask'[i].pc = pc
      /\ dnsTask'[i].kind = dnsTask[i].kind
  BY <1>1, <1>2, DnsGoesOn
<1>4. RoleSound(dnsTask[i])
  BY <1>2 DEF OwnersInTime
<1>5. RoleSound(dnsTask[i])'
  <2>1. pc = "undo" => dnsTask[i].kind # None
    BY <1>4 DEF pc, RoleSound
  <2> QED
    BY <1>2, <1>3, <2>1 DEF RoleSound
<1>6. CASE cut
  <2>1. \A j \in DnsRequests : RoleSound(dnsTask[j])'
    BY <1>2, <1>3, <1>5, DnsRolesMove
  <2>2. OwnersInTime'
    BY <1>1, <1>6, <2>1 DEF OwnersInTime
  <2> QED
    BY <1>3, <2>2 DEF DnsStrong
<1>7. CASE ~cut
  <2>1. dnsTask[i].pc \notin {"owner", "row", "undo"} /\ dnsCut' = dnsCut
    BY <1>1, <1>2, <1>7 DEF cut, DnsStrong, DnsShapes
  <2>2. /\ i \in ZoneMakers' <=> i \in ZoneMakers
        /\ i \in ZoneDeleters' <=> i \in ZoneDeleters
    BY <1>3, <2>1 DEF ZoneMakers, ZoneDeleters, pc
  <2>3. OwnersInTime'
    BY <1>1, <1>2, <1>3, <1>5, <2>1, <2>2, DnsOwnersKept
  <2> QED
    BY <1>3, <2>3 DEF DnsStrong
<1> QED
  BY <1>6, <1>7

LEMMA DnsRestarts ==
    ASSUME DnsStrong, DnsRestart
    PROVE  DnsStrong'
<1>1. /\ dnsTask' = [i \in DnsRequests |-> [dnsTask[i] EXCEPT !.pc = "off"]] /\ dnsCut' = TRUE
      /\ UNCHANGED <<dnsZone, dnsOwner, dnsCloud, dnsMade, dnsAgreed>>
  BY DEF DnsRestart
<1>2. \A r \in DnsTaskRecord : /\ [r EXCEPT !.pc = "off"] \in DnsTaskRecord
                               /\ [r EXCEPT !.pc = "off"].pc = "off"
  BY DEF DnsTaskRecord, DnsPc
<1>3. dnsTask \in [DnsRequests -> DnsTaskRecord]
  BY DEF DnsStrong, DnsShapes
<1>4. dnsTask' \in [DnsRequests -> DnsTaskRecord] /\ \A i \in DnsRequests : dnsTask'[i].pc = "off"
  BY <1>1, <1>2, <1>3
<1>5. DnsShapes'
  BY <1>1, <1>4 DEF DnsStrong, DnsShapes
<1>6. OwnersInTime'
  BY <1>1, <1>4 DEF OwnersInTime, RoleSound
<1>7. TwinsInTime'
  BY <1>1, <1>4 DEF DnsStrong, TwinsInTime, TaskInTime
<1>8. TwinsAgree'
  BY <1>1, DnsAgreedKept DEF DnsStrong
<1> QED
  BY <1>5, <1>6, <1>7, <1>8 DEF DnsStrong

\* Disturbed handlers hold what they held.
Holds(d, t) == /\ d.kind = t.kind /\ d.pc = t.pc /\ d.user = t.user /\ d.want = t.want
               /\ d.seen = t.seen /\ d.left = t.left
LEMMA DnsDisturbs ==
    ASSUME dnsTask \in [DnsRequests -> DnsTaskRecord], NEW i
    PROVE  /\ Disturb(i) \in [DnsRequests -> DnsTaskRecord]
           /\ \A j \in DnsRequests : j # i => Holds(Disturb(i)[j], dnsTask[j]) /\ ~Disturb(i)[j].clean
<1>1. \A r \in DnsTaskRecord : [r EXCEPT !.clean = FALSE] \in DnsTaskRecord
  BY DEF DnsTaskRecord
<1>2. Disturb(i) \in [DnsRequests -> DnsTaskRecord]
  BY <1>1 DEF Disturb
<1>3. ASSUME NEW j \in DnsRequests, j # i
      PROVE  Holds(Disturb(i)[j], dnsTask[j]) /\ ~Disturb(i)[j].clean
  <2>1. Disturb(i)[j] = [dnsTask[j] EXCEPT !.clean = FALSE] /\ dnsTask[j] \in DnsTaskRecord
    BY <1>3 DEF Disturb
  <2> QED
    BY <2>1 DEF DnsTaskRecord, Holds
<1> QED
  BY <1>2, <1>3

\* Records change from outside: every push and pull is disturbed.
LEMMA DnsEdited ==
    ASSUME DnsStrong, NEW zone \in DnsSets \cup {None}, dnsZone' = zone, zone # None <=> dnsZone # None,
           dnsCloud' \in [DnsRecords -> DnsRecord \cup {None}], dnsMade' \in 0 .. DnsMaxRecords,
           \A r \in DnsRecords : r > dnsMade' => dnsCloud'[r] = None,
           dnsTask' = Disturb(0), dnsAgreed' = None, UNCHANGED <<dnsOwner, dnsCut>>
    PROVE  DnsStrong'
<1>1. dnsTask \in [DnsRequests -> DnsTaskRecord] /\ 0 \notin DnsRequests
  BY DEF DnsStrong, DnsShapes, DnsRequests
<1>4. dnsTask' \in [DnsRequests -> DnsTaskRecord]
  BY <1>1, DnsDisturbs
<1>5. DnsMoves(0)
  <2>1. \A j \in DnsRequests : j # 0 => Holds(dnsTask'[j], dnsTask[j]) /\ ~dnsTask'[j].clean
    BY <1>1, DnsDisturbs
  <2> QED
    BY <1>4, <2>1 DEF DnsMoves, Holds
<1>6. DnsShapes'
  BY <1>4 DEF DnsStrong, DnsShapes
<1>7. 0 \notin ZoneMakers /\ 0 \notin ZoneDeleters /\ 0 \notin ZoneMakers' /\ 0 \notin ZoneDeleters'
  BY <1>1 DEF ZoneMakers, ZoneDeleters
<1>8. OwnersInTime'
  BY <1>1, <1>5, <1>7, DnsOwnersKept DEF DnsStrong
<1>9. TwinsInTime'
  BY <1>1, <1>5, DnsTwinsKept DEF DnsStrong
<1>10. TwinsAgree'
  BY DnsAgreedKept DEF DnsStrong
<1> QED
  BY <1>6, <1>8, <1>9, <1>10 DEF DnsStrong

\* What a record made or written at Cloudflare does to the records there.
LEMMA DnsCloudWritten ==
    ASSUME DnsShapes, TwinsInTime, NEW rec \in DnsRecord \cup {None},
           \/ rec # None /\ CreateRecord(rec)
           \/ \E r \in DnsRecords : dnsCloud[r] # None /\ PutRecord(r, rec)
    PROVE  /\ dnsCloud' \in [DnsRecords -> DnsRecord \cup {None}] /\ dnsMade' \in 0 .. DnsMaxRecords
           /\ \A r \in DnsRecords : r > dnsMade' => dnsCloud'[r] = None
<1>1. /\ dnsCloud \in [DnsRecords -> DnsRecord \cup {None}] /\ dnsMade \in 0 .. DnsMaxRecords
      /\ \A r \in DnsRecords : r > dnsMade => dnsCloud[r] = None
  BY DEF DnsShapes, TwinsInTime
<1>2. CASE CreateRecord(rec)
  BY <1>1, <1>2, DnsAssumption DEF CreateRecord, DnsRecords
<1>3. CASE \E r \in DnsRecords : dnsCloud[r] # None /\ PutRecord(r, rec)
  BY <1>1, <1>3 DEF PutRecord
<1> QED
  BY <1>2, <1>3

LEMMA DnsEdits ==
    ASSUME DnsStrong,
           EditCloud \/ \E s \in DnsSlots, values \in SUBSET DnsContents : EditSet(s, values)
    PROVE  DnsStrong'
<1>1. ASSUME NEW s \in DnsSlots, NEW values \in SUBSET DnsContents, EditSet(s, values)
      PROVE  DnsStrong'
  <2>1. /\ dnsZone # None /\ dnsZone' = [dnsZone EXCEPT ![s] = values] /\ dnsTask' = Disturb(0)
        /\ dnsAgreed' = None /\ UNCHANGED <<dnsOwner, dnsCloud, dnsMade, dnsCut>>
    BY <1>1 DEF EditSet
  <2>2. dnsZone' \in DnsSets /\ dnsZone' # None
    BY <2>1, DnsNoneAssumption DEF DnsStrong, DnsShapes, DnsSets
  <2>3. /\ dnsCloud' \in [DnsRecords -> DnsRecord \cup {None}] /\ dnsMade' \in 0 .. DnsMaxRecords
        /\ \A r \in DnsRecords : r > dnsMade' => dnsCloud'[r] = None
    BY <2>1 DEF DnsStrong, DnsShapes, TwinsInTime
  <2> QED
    BY <2>1, <2>2, <2>3, DnsEdited
<1>2. ASSUME EditCloud PROVE DnsStrong'
  <2>1. /\ dnsTask' = Disturb(0) /\ dnsAgreed' = None /\ UNCHANGED <<dnsZone, dnsOwner, dnsCut>>
    BY <1>2 DEF EditCloud
  <2>2. /\ dnsCloud' \in [DnsRecords -> DnsRecord \cup {None}] /\ dnsMade' \in 0 .. DnsMaxRecords
        /\ \A r \in DnsRecords : r > dnsMade' => dnsCloud'[r] = None
    <3>1. DnsShapes /\ TwinsInTime /\ \A rec \in DnsRecord : rec # None
      BY DnsNoneAssumption DEF DnsStrong, DnsRecord
    <3>2. CASE \E rec \in DnsRecord : CreateRecord(rec)
      BY <3>1, <3>2, DnsCloudWritten
    <3>3. CASE \E r \in DnsRecords : dnsCloud[r] # None /\ \E rec \in DnsRecord \cup {None} : PutRecord(r, rec)
      BY <3>1, <3>3, DnsCloudWritten
    <3> QED
      BY <1>2, <3>2, <3>3 DEF EditCloud
  <2>3. dnsZone \in DnsSets \cup {None}
    BY DEF DnsStrong, DnsShapes
  <2> QED
    BY <2>1, <2>2, <2>3, DnsEdited
<1> QED
  BY <1>1, <1>2

\* A push or pull gets on: whatever it wrote has disturbed the others, and it
\* knows what there is or is disturbed itself.
LEMMA DnsTwinStep ==
    ASSUME DnsStrong, NEW i \in DnsRequests, DnsMoves(i), DnsShapes',
           dnsTask[i].pc \in {"list", "push", "patch"}, dnsTask'[i].pc \in {"off", "push", "patch"},
           dnsTask'[i].kind = dnsTask[i].kind, UNCHANGED <<dnsOwner, dnsCut>>,
           dnsZone' # None <=> dnsZone # None, \A r \in DnsRecords : r > dnsMade' => dnsCloud'[r] = None,
           TaskInTime(dnsTask[i])', TwinsAgree', dnsAgreed' # None => dnsZone' # None
    PROVE  DnsStrong'
<1>1. RoleSound(dnsTask[i])
  BY DEF DnsStrong, OwnersInTime
<1>2. RoleSound(dnsTask[i])'
  BY <1>1 DEF RoleSound
<1>3. i \notin ZoneMakers /\ i \notin ZoneDeleters /\ i \notin ZoneMakers' /\ i \notin ZoneDeleters'
  BY DEF ZoneMakers, ZoneDeleters
<1>4. OwnersInTime'
  BY <1>2, <1>3, DnsOwnersKept DEF DnsStrong
<1>5. TwinsInTime'
  BY DnsTwinsKept DEF DnsStrong
<1> QED
  BY <1>4, <1>5 DEF DnsStrong

\* A task that is replaced, the others as they are or disturbed.
LEMMA DnsReplaces ==
    ASSUME DnsShapes, NEW i \in DnsRequests, NEW t \in DnsTaskRecord,
           \/ dnsTask' = [dnsTask EXCEPT ![i] = t] /\ UNCHANGED <<dnsZone, dnsCloud>>
           \/ dnsTask' = [Disturb(i) EXCEPT ![i] = t]
    PROVE  DnsMoves(i) /\ dnsTask'[i] = t
<1>1. dnsTask \in [DnsRequests -> DnsTaskRecord]
  BY DEF DnsShapes
<1>3. CASE dnsTask' = [dnsTask EXCEPT ![i] = t] /\ UNCHANGED <<dnsZone, dnsCloud>>
  <2>1. /\ dnsTask' \in [DnsRequests -> DnsTaskRecord] /\ dnsTask'[i] = t
        /\ \A j \in DnsRequests : j # i => dnsTask'[j] = dnsTask[j]
    BY <1>1, <1>3
  <2> QED
    BY <1>3, <2>1 DEF DnsMoves
<1>4. CASE dnsTask' = [Disturb(i) EXCEPT ![i] = t]
  <2> DEFINE D == Disturb(i)
  <2>1. D \in [DnsRequests -> DnsTaskRecord] /\ dnsTask' = [D EXCEPT ![i] = t]
    BY <1>1, <1>4, DnsDisturbs
  <2>2. \A j \in DnsRequests : j # i => Holds(D[j], dnsTask[j]) /\ ~D[j].clean
    BY <1>1, DnsDisturbs
  <2> HIDE DEF D
  <2>3. /\ dnsTask' \in [DnsRequests -> DnsTaskRecord] /\ dnsTask'[i] = t
        /\ \A j \in DnsRequests : j # i => dnsTask'[j] = D[j]
    BY <2>1
  <2> QED
    BY <2>2, <2>3 DEF DnsMoves, Holds
<1> QED
  BY <1>3, <1>4

\* Record sets are the set of their records, and back.
LEMMA DnsSetsBack ==
    ASSUME NEW zone \in DnsSets PROVE Records(zone) \subseteq DnsRecord /\ Sets(Records(zone)) = zone
  BY DEF DnsSets, Records, Sets, DnsRecord

LEMMA DnsLists ==
    ASSUME DnsStrong, NEW i \in DnsRequests, ListRecords(i)
    PROVE  DnsStrong'
<1> DEFINE pc == IF dnsTask[i].kind = "pull" THEN "patch"
                 ELSE IF dnsTask[i].want = {} THEN "off" ELSE "push"
           t == [dnsTask[i] EXCEPT !.pc = pc, !.seen = CloudListed, !.left = dnsTask[i].want]
<1>1. /\ dnsTask[i].pc = "list" /\ dnsTask' = [dnsTask EXCEPT ![i] = t]
      /\ UNCHANGED <<dnsZone, dnsOwner, dnsCloud, dnsMade, dnsAgreed, dnsCut>>
  BY DEF ListRecords, CloudListed, DnsStrong, DnsShapes
<1>2. DnsShapes /\ dnsTask[i] \in DnsTaskRecord /\ TaskInTime(dnsTask[i])
  BY DEF DnsStrong, DnsShapes, TwinsInTime
<1>3. CloudListed \in SUBSET (DnsRecords \X DnsRecord)
  BY DEF CloudListed, DnsStrong, DnsShapes
<1>4. pc \in {"off", "push", "patch"}
  OBVIOUS
<1> HIDE DEF pc
<1>5. /\ t \in DnsTaskRecord /\ t.kind = dnsTask[i].kind /\ t.pc = pc /\ t.seen = CloudListed
      /\ t.want = dnsTask[i].want /\ t.left = dnsTask[i].want /\ t.clean = dnsTask[i].clean
  BY <1>2, <1>3, <1>4 DEF DnsTaskRecord, DnsPc
<1> HIDE DEF t
<1>6. DnsMoves(i) /\ dnsTask'[i] = t
  BY <1>1, <1>2, <1>5, DnsReplaces
<1>7. DnsShapes'
  BY <1>1, <1>2, <1>6 DEF DnsShapes, DnsMoves
<1>8. CloudListed' = CloudListed /\ CloudValues' = CloudValues
  BY <1>1 DEF CloudListed, CloudValues
<1>9. TaskInTime(dnsTask[i])'
  <2> SUFFICES ASSUME dnsTask'[i].clean PROVE TaskInTime(dnsTask[i])'
    BY DEF TaskInTime
  <2>1. dnsZone' # None /\ dnsTask'[i].want = Records(dnsZone') /\ dnsTask'[i].seen = CloudListed'
    BY <1>1, <1>2, <1>5, <1>6, <1>8 DEF TaskInTime
  <2>2. PushInTime(dnsTask[i])'
    <3>1. dnsTask'[i].left = dnsTask'[i].want
      BY <1>5, <1>6
    <3>2. \A x \in CloudListed' : dnsCloud'[x[1]] = x[2]
      BY DEF CloudListed
    <3>3. \A x, y \in CloudListed' : x[1] = y[1] => x = y
      BY DEF CloudListed
    <3> QED
      BY <2>1, <3>1, <3>2, <3>3 DEF PushInTime
  <2> QED
    BY <2>1, <2>2 DEF TaskInTime
<1>10. TwinsAgree'
  BY <1>1, DnsAgreedKept DEF DnsStrong
<1>11. /\ \A r \in DnsRecords : r > dnsMade' => dnsCloud'[r] = None
       /\ dnsAgreed' # None => dnsZone' # None
  BY <1>1 DEF DnsStrong, TwinsInTime
<1> QED
  BY <1>1, <1>4, <1>5, <1>6, <1>7, <1>9, <1>10, <1>11, DnsTwinStep

\* A push that knows what there is does one record more.
LEMMA DnsPushes ==
    ASSUME NEW task, NEW task2, NEW rec, PushInTime(task), rec \in task.left,
           dnsCloud \in [DnsRecords -> DnsRecord \cup {None}], task.seen \subseteq DnsRecords \X DnsRecord,
           task.want \subseteq DnsRecord,
           task2.want = task.want, task2.seen = task.seen, task2.left = task.left \ {rec},
           \/ /\ rec \in {x[2] : x \in Matches(task, rec)} /\ dnsCloud' = dnsCloud
           \/ /\ rec \notin {x[2] : x \in Matches(task, rec)} /\ SingleValued(task, rec)
              /\ \E x \in Matches(task, rec) : dnsCloud' = [dnsCloud EXCEPT ![x[1]] = rec]
           \/ \E r \in DnsRecords : dnsCloud[r] = None /\ dnsCloud' = [dnsCloud EXCEPT ![r] = rec]
    PROVE  PushInTime(task2)'
<1> DEFINE done == task.want \ task.left
<1>1. /\ rec \in task.want /\ task2.left \subseteq task2.want
      /\ task2.want \ task2.left = done \cup {rec} /\ rec \notin done
      /\ done \subseteq CloudValues /\ done \subseteq task.want
      /\ \A x, y \in task.seen : x[1] = y[1] => x = y
      /\ \A x \in task.seen :
           \/ dnsCloud[x[1]] = x[2]
           \/ /\ dnsCloud[x[1]] \in done
              /\ dnsCloud[x[1]][1] = x[2][1] /\ SingleValued(task, dnsCloud[x[1]])
  BY DEF PushInTime
<1>2. \A w : SingleValued(task2, w) <=> SingleValued(task, w)
  BY DEF SingleValued
<1>3. None \notin DnsRecord
  BY DnsNoneAssumption DEF DnsRecord
<1>4. \A x \in task.seen : x[1] \in DnsRecords /\ x[2] \in DnsRecord
  OBVIOUS
<1>5. \A v : v \in CloudValues <=> v # None /\ \E r \in DnsRecords : dnsCloud[r] = v
  BY DEF CloudValues
<1>6. \A v : v \in CloudValues' <=> v # None /\ \E r \in DnsRecords : dnsCloud'[r] = v
  BY DEF CloudValues
<1> HIDE DEF done
<1>7. SUFFICES /\ done \cup {rec} \subseteq CloudValues'
               /\ \A x \in task.seen :
                    \/ dnsCloud'[x[1]] = x[2]
                    \/ /\ dnsCloud'[x[1]] \in done \cup {rec}
                       /\ dnsCloud'[x[1]][1] = x[2][1] /\ SingleValued(task, dnsCloud'[x[1]])
  <2>1. \A x, y \in task2.seen : x[1] = y[1] => x = y
    BY <1>1
  <2> QED
    BY <1>1, <1>2, <1>7, <2>1 DEF PushInTime
<1>8. CASE rec \in {x[2] : x \in Matches(task, rec)} /\ dnsCloud' = dnsCloud
  <2>1. PICK x \in task.seen : x[2] = rec
    BY <1>8 DEF Matches
  <2>2. dnsCloud[x[1]] = rec
    <3> SUFFICES ASSUME dnsCloud[x[1]] # rec PROVE FALSE
      OBVIOUS
    <3> DEFINE w == dnsCloud[x[1]]
    <3>1. w \in done /\ w[1] = rec[1] /\ SingleValued(task, w)
      BY <1>1, <2>1
    <3>2. rec \in {v \in task.want : v[1] = w[1]}
      BY <1>1, <3>1
    <3> QED
      BY <3>1, <3>2 DEF SingleValued
  <2>3. CloudValues' = CloudValues
    BY <1>8 DEF CloudValues
  <2>4. rec \in CloudValues
    BY <1>1, <1>3, <1>4, <1>5, <2>1, <2>2
  <2> QED
    BY <1>1, <1>8, <2>3, <2>4
<1>9. ASSUME NEW x \in Matches(task, rec), dnsCloud' = [dnsCloud EXCEPT ![x[1]] = rec],
             SingleValued(task, rec), rec \notin {y[2] : y \in Matches(task, rec)}
      PROVE  /\ done \cup {rec} \subseteq CloudValues'
             /\ \A y \in task.seen :
                    \/ dnsCloud'[y[1]] = y[2]
                    \/ /\ dnsCloud'[y[1]] \in done \cup {rec}
                       /\ dnsCloud'[y[1]][1] = y[2][1] /\ SingleValued(task, dnsCloud'[y[1]])
  <2>1. /\ x \in task.seen /\ x[2][1] = rec[1] /\ x[1] \in DnsRecords /\ x[2] # rec
    BY <1>4, <1>9 DEF Matches
  <2>2. dnsCloud'[x[1]] = rec /\ \A r \in DnsRecords : r # x[1] => dnsCloud'[r] = dnsCloud[r]
    BY <1>9, <2>1
  <2>3. \A v \in done : dnsCloud[x[1]] # v
    <3> SUFFICES ASSUME NEW v \in done, dnsCloud[x[1]] = v PROVE FALSE
      OBVIOUS
    <3>1. v[1] = rec[1]
      BY <1>1, <2>1
    <3>2. v \in {w \in task.want : w[1] = rec[1]}
      BY <1>1, <3>1
    <3>3. v = rec
      BY <1>9, <3>2 DEF SingleValued
    <3> QED
      BY <1>1, <3>3
  <2>4. done \cup {rec} \subseteq CloudValues'
    <3>1. rec \in CloudValues'
      BY <1>1, <1>3, <1>6, <2>1, <2>2
    <3>2. ASSUME NEW v \in done PROVE v \in CloudValues'
      <4>1. PICK r \in DnsRecords : v # None /\ dnsCloud[r] = v
        BY <1>1, <1>5
      <4>2. r # x[1]
        BY <2>3, <4>1
      <4> QED
        BY <1>6, <2>2, <4>1, <4>2
    <3> QED
      BY <3>1, <3>2
  <2>5. ASSUME NEW y \in task.seen
        PROVE  \/ dnsCloud'[y[1]] = y[2]
               \/ /\ dnsCloud'[y[1]] \in done \cup {rec}
                  /\ dnsCloud'[y[1]][1] = y[2][1] /\ SingleValued(task, dnsCloud'[y[1]])
    <3>1. CASE y = x
      BY <1>9, <2>1, <2>2, <3>1
    <3>2. CASE y # x
      <4>1. y[1] # x[1] /\ y[1] \in DnsRecords
        BY <1>1, <1>4, <2>1, <3>2
      <4>2. dnsCloud'[y[1]] = dnsCloud[y[1]]
        BY <2>2, <4>1
      <4> QED
        BY <1>1, <4>2
    <3> QED
      BY <3>1, <3>2
  <2> QED
    BY <2>4, <2>5
<1>10. ASSUME NEW r \in DnsRecords, dnsCloud[r] = None, dnsCloud' = [dnsCloud EXCEPT ![r] = rec]
       PROVE  /\ done \cup {rec} \subseteq CloudValues'
              /\ \A y \in task.seen :
                    \/ dnsCloud'[y[1]] = y[2]
                    \/ /\ dnsCloud'[y[1]] \in done \cup {rec}
                       /\ dnsCloud'[y[1]][1] = y[2][1] /\ SingleValued(task, dnsCloud'[y[1]])
  <2>1. dnsCloud'[r] = rec /\ \A q \in DnsRecords : q # r => dnsCloud'[q] = dnsCloud[q]
    BY <1>10
  <2>2. done \cup {rec} \subseteq CloudValues'
    <3>1. rec \in CloudValues'
      BY <1>1, <1>3, <1>6, <2>1
    <3>2. ASSUME NEW v \in done PROVE v \in CloudValues'
      <4>1. PICK q \in DnsRecords : v # None /\ dnsCloud[q] = v
        BY <1>1, <1>5
      <4> QED
        BY <1>6, <1>10, <2>1, <4>1
    <3> QED
      BY <3>1, <3>2
  <2>3. ASSUME NEW y \in task.seen PROVE dnsCloud'[y[1]] = dnsCloud[y[1]]
    <3>1. dnsCloud[y[1]] # None
      BY <1>1, <1>3, <1>4
    <3> QED
      BY <1>4, <1>10, <2>1, <3>1
  <2> QED
    BY <1>1, <2>2, <2>3
<1> QED
  BY <1>8, <1>9, <1>10

LEMMA DnsPushesRecord ==
    ASSUME DnsStrong, NEW i \in DnsRequests, NEW rec \in DnsRecord, PushRecord(i, rec)
    PROVE  DnsStrong'
<1>1. PICK task \in DnsTaskRecord : task = dnsTask[i]
  BY DEF DnsStrong, DnsShapes
<1> DEFINE write == rec \notin {x[2] : x \in Matches(task, rec)}
           refused == write /\ (rec \in CloudValues \/ \E x \in Matches(task, rec) :
                                  UpdateInPlace(task, rec) /\ dnsCloud[x[1]] = None)
           D == IF write THEN Disturb(i) ELSE dnsTask
           left == task.left \ {rec}
<1>2. /\ task.pc = "push" /\ rec \in task.left /\ UNCHANGED <<dnsZone, dnsOwner, dnsCut>>
      /\ IF ~write \/ refused THEN UNCHANGED <<dnsCloud, dnsMade>>
         ELSE IF UpdateInPlace(task, rec)
         THEN \E x \in Matches(task, rec) : PutRecord(x[1], rec)
         ELSE CreateRecord(rec)
      /\ dnsTask' = [D EXCEPT ![i].left = left, ![i].clean = @ /\ ~refused,
                              ![i].pc = IF left = {} THEN "off" ELSE "push"]
      /\ dnsAgreed' = IF left = {} /\ task.clean /\ ~refused THEN "pushed"
                      ELSE IF write THEN None ELSE dnsAgreed
  BY <1>1 DEF PushRecord
<1>3. /\ DnsShapes /\ dnsTask \in [DnsRequests -> DnsTaskRecord] /\ TaskInTime(task) /\ TwinsInTime
      /\ dnsCloud \in [DnsRecords -> DnsRecord \cup {None}]
      /\ \A r \in DnsRecords : r > dnsMade => dnsCloud[r] = None
      /\ dnsMade \in 0 .. DnsMaxRecords
      /\ task.seen \subseteq DnsRecords \X DnsRecord /\ task.want \subseteq DnsRecord /\ rec # None
  BY <1>1, DnsNoneAssumption DEF DnsStrong, DnsShapes, TwinsInTime, DnsTaskRecord, DnsRecord
<1>5. PICK t \in DnsTaskRecord :
         /\ t = [task EXCEPT !.left = left, !.clean = (@ /\ ~refused),
                             !.pc = IF left = {} THEN "off" ELSE "push"]
         /\ t.kind = task.kind /\ t.pc = (IF left = {} THEN "off" ELSE "push") /\ t.left = left
         /\ t.want = task.want /\ t.seen = task.seen /\ (t.clean <=> task.clean /\ ~refused)
  <2> DEFINE q == [task EXCEPT !.left = left, !.clean = (@ /\ ~refused),
                               !.pc = IF left = {} THEN "off" ELSE "push"]
  <2>1. left \in SUBSET DnsRecord /\ (task.clean /\ ~refused) \in BOOLEAN
        /\ (IF left = {} THEN "off" ELSE "push") \in DnsPc
    BY DEF DnsTaskRecord, DnsPc
  <2> HIDE DEF left, refused
  <2>2. /\ q \in DnsTaskRecord /\ q.kind = task.kind
        /\ q.pc = (IF left = {} THEN "off" ELSE "push") /\ q.left = left
        /\ q.want = task.want /\ q.seen = task.seen /\ q.clean = (task.clean /\ ~refused)
    BY <2>1 DEF DnsTaskRecord
  <2> HIDE DEF q
  <2> QED
    BY <2>2 DEF q
<1>6. dnsTask' = [D EXCEPT ![i] = t]
  <2>1. D \in [DnsRequests -> DnsTaskRecord] /\ D[i] = task
    <3>1. Disturb(i)[i] = dnsTask[i]
      BY DEF Disturb
    <3> QED
      BY <1>1, <1>3, <3>1, DnsDisturbs
  <2> HIDE DEF D, left, refused
  <2> QED
    BY <1>2, <1>5, <2>1
<1>7. ~write \/ refused => UNCHANGED <<dnsCloud, dnsMade>>
  BY <1>2
<1>8. ~(~write \/ refused) =>
         \/ SingleValued(task, rec) /\ \E x \in Matches(task, rec) :
              x[1] \in DnsRecords /\ dnsCloud[x[1]] # None /\ PutRecord(x[1], rec)
         \/ CreateRecord(rec)
  <2> SUFFICES ASSUME write, ~refused PROVE
         \/ SingleValued(task, rec) /\ \E x \in Matches(task, rec) :
              x[1] \in DnsRecords /\ dnsCloud[x[1]] # None /\ PutRecord(x[1], rec)
         \/ CreateRecord(rec)
    OBVIOUS
  <2>1. \A x \in Matches(task, rec) : x[1] \in DnsRecords
    BY <1>3 DEF Matches
  <2>2. CASE UpdateInPlace(task, rec)
    <3>1. SingleValued(task, rec) /\ \A x \in Matches(task, rec) : dnsCloud[x[1]] # None
      BY <2>2 DEF UpdateInPlace
    <3>2. PICK x \in Matches(task, rec) : PutRecord(x[1], rec)
      BY <1>2, <2>2
    <3> QED
      BY <2>1, <3>1, <3>2
  <2>3. CASE ~UpdateInPlace(task, rec)
    BY <1>2, <2>3
  <2> QED
    BY <2>2, <2>3
<1>9. DnsMoves(i) /\ dnsTask'[i] = t
  <2>1. CASE write
    <3>1. dnsTask' = [Disturb(i) EXCEPT ![i] = t]
      BY <1>6, <2>1
    <3> QED
      BY <1>3, <3>1, DnsReplaces
  <2>2. CASE ~write
    <3>1. dnsTask' = [dnsTask EXCEPT ![i] = t] /\ UNCHANGED <<dnsZone, dnsCloud>>
      BY <1>2, <1>6, <1>7, <2>2
    <3> QED
      BY <1>3, <3>1, DnsReplaces
  <2> QED
    BY <2>1, <2>2
<1>10. /\ dnsCloud' \in [DnsRecords -> DnsRecord \cup {None}] /\ dnsMade' \in 0 .. DnsMaxRecords
       /\ \A r \in DnsRecords : r > dnsMade' => dnsCloud'[r] = None
  <2>1. CASE ~write \/ refused
    BY <1>3, <1>7, <2>1
  <2>2. CASE ~(~write \/ refused)
    <3>1. (\E r \in DnsRecords : dnsCloud[r] # None /\ PutRecord(r, rec)) \/ CreateRecord(rec)
      BY <1>8, <2>2
    <3> QED
      BY <1>3, <3>1, DnsCloudWritten
  <2> QED
    BY <2>1, <2>2
<1>11. dnsAgreed' \in {None, "pushed", "pulled"}
  BY <1>2 DEF DnsStrong, DnsShapes
<1>12. DnsShapes'
  BY <1>2, <1>9, <1>10, <1>11 DEF DnsStrong, DnsShapes, DnsMoves
<1>13. task.clean /\ ~refused => PushInTime(t)'
  <2> SUFFICES ASSUME task.clean, ~refused PROVE PushInTime(t)'
    OBVIOUS
  <2>1. PushInTime(task)
    BY <1>2, <1>3 DEF TaskInTime
  <2>2. \/ ~write /\ dnsCloud' = dnsCloud
        \/ /\ write /\ SingleValued(task, rec)
           /\ \E x \in Matches(task, rec) : dnsCloud' = [dnsCloud EXCEPT ![x[1]] = rec]
        \/ \E r \in DnsRecords : dnsCloud[r] = None /\ dnsCloud' = [dnsCloud EXCEPT ![r] = rec]
    <3>1. CASE ~write
      BY <1>7, <3>1
    <3>2. CASE write
      <4>1. CASE SingleValued(task, rec) /\ \E x \in Matches(task, rec) : PutRecord(x[1], rec)
        BY <3>2, <4>1 DEF PutRecord
      <4>2. CASE CreateRecord(rec)
        <5>1. dnsMade + 1 \in DnsRecords /\ dnsMade + 1 > dnsMade
              /\ dnsCloud' = [dnsCloud EXCEPT ![dnsMade + 1] = rec]
          BY <1>3, <4>2 DEF CreateRecord
        <5> QED
          BY <1>3, <5>1
      <4> QED
        BY <1>8, <3>2, <4>1, <4>2
    <3> QED
      BY <3>1, <3>2
  <2> QED
    BY <1>2, <1>3, <1>5, <2>1, <2>2, DnsPushes
<1>14. task.clean => dnsZone # None /\ task.want = Records(dnsZone)
  BY <1>2, <1>3 DEF TaskInTime
<1>15. TaskInTime(dnsTask[i])'
  <2>1. TaskInTime(t)'
    <3> SUFFICES ASSUME t.clean PROVE TaskInTime(t)'
      BY DEF TaskInTime
    <3>1. dnsZone' # None /\ t.want = Records(dnsZone') /\ PushInTime(t)'
      BY <1>2, <1>5, <1>13, <1>14
    <3>2. t.pc # "patch"
      BY <1>5
    <3> QED
      BY <3>1, <3>2 DEF TaskInTime
  <2> QED
    BY <1>9, <2>1 DEF TaskInTime, PushInTime, SingleValued
<1>16. TwinsAgree' /\ (dnsAgreed' # None => dnsZone' # None)
  <2>1. CASE left = {} /\ task.clean /\ ~refused
    <3>1. dnsAgreed' = "pushed" /\ dnsZone' # None /\ t.want = Records(dnsZone') /\ t.left = {}
      BY <1>2, <1>5, <1>14, <2>1
    <3>2. t.want \ t.left \subseteq CloudValues'
      BY <1>13, <2>1 DEF PushInTime
    <3> QED
      BY <3>1, <3>2 DEF TwinsAgree
  <2>2. CASE ~(left = {} /\ task.clean /\ ~refused)
    <3>1. dnsAgreed' = None \/ UNCHANGED <<dnsAgreed, dnsZone, dnsCloud>>
      BY <1>2, <1>7, <2>2
    <3>2. TwinsAgree'
      BY <3>1, DnsAgreedKept DEF DnsStrong
    <3>3. dnsAgreed' # None => dnsZone' # None
      BY <3>1 DEF DnsStrong, TwinsInTime
    <3> QED
      BY <3>2, <3>3
  <2> QED
    BY <2>1, <2>2
<1>17. dnsTask[i].pc \in {"list", "push", "patch"} /\ dnsTask'[i].pc \in {"off", "push", "patch"}
       /\ dnsTask'[i].kind = dnsTask[i].kind /\ (dnsZone' # None <=> dnsZone # None)
  BY <1>1, <1>2, <1>5, <1>9
<1> QED
  BY <1>2, <1>9, <1>10, <1>12, <1>15, <1>16, <1>17, DnsTwinStep

\* A record that fails leaves the push disturbed.
LEMMA DnsPushFails ==
    ASSUME DnsStrong, NEW i \in DnsRequests, NEW rec \in DnsRecord, PushRecordFails(i, rec)
    PROVE  DnsStrong'
<1>1. DnsShapes /\ dnsTask[i] \in DnsTaskRecord /\ dnsTask \in [DnsRequests -> DnsTaskRecord]
  BY DEF DnsStrong, DnsShapes
<1> DEFINE left == dnsTask[i].left \ {rec}
           pc == IF dnsTask[i].left = {rec} THEN "off" ELSE "push"
           t == [dnsTask[i] EXCEPT !.left = left, !.clean = FALSE, !.pc = pc]
<1>2. /\ dnsTask[i].pc = "push" /\ dnsTask' = [dnsTask EXCEPT ![i] = t]
      /\ UNCHANGED <<dnsZone, dnsOwner, dnsCloud, dnsMade, dnsAgreed, dnsCut>>
  BY <1>1 DEF PushRecordFails
<1>3. left \in SUBSET DnsRecord /\ pc \in {"off", "push"}
  BY <1>1 DEF DnsTaskRecord
<1> HIDE DEF left, pc
<1>4. /\ t \in DnsTaskRecord /\ t.kind = dnsTask[i].kind /\ t.pc = pc /\ ~t.clean
  BY <1>1, <1>3 DEF DnsTaskRecord, DnsPc
<1> HIDE DEF t
<1>5. DnsMoves(i) /\ dnsTask'[i] = t
  BY <1>1, <1>2, <1>4, DnsReplaces
<1>6. DnsShapes'
  BY <1>1, <1>2, <1>5 DEF DnsShapes, DnsMoves
<1>7. TaskInTime(dnsTask[i])'
  BY <1>4, <1>5 DEF TaskInTime
<1>8. TwinsAgree' /\ (dnsAgreed' # None => dnsZone' # None)
      /\ \A r \in DnsRecords : r > dnsMade' => dnsCloud'[r] = None
  BY <1>2, DnsAgreedKept DEF DnsStrong, TwinsInTime
<1> QED
  BY <1>2, <1>3, <1>4, <1>5, <1>6, <1>7, <1>8, DnsTwinStep

LEMMA DnsPatches ==
    ASSUME DnsStrong, NEW i \in DnsRequests, PatchZone(i)
    PROVE  DnsStrong'
<1>1. /\ DnsShapes /\ dnsTask[i] \in DnsTaskRecord /\ dnsTask \in [DnsRequests -> DnsTaskRecord]
      /\ TaskInTime(dnsTask[i]) /\ dnsZone \in DnsSets \cup {None}
  BY DEF DnsStrong, DnsShapes, TwinsInTime
<1> DEFINE task == dnsTask[i]
           patches == PullPatches(task)
           cloud == Sets({x[2] : x \in task.seen})
           t == [task EXCEPT !.pc = "off"]
<1>2. dnsTask[i].pc = "patch" /\ UNCHANGED <<dnsOwner, dnsCloud, dnsMade, dnsCut>>
  BY DEF PatchZone
<1>3. /\ t \in DnsTaskRecord /\ t.kind = task.kind /\ t.pc = "off"
  BY <1>1 DEF DnsTaskRecord, DnsPc
<1>4. cloud \in DnsSets
  BY DEF Sets, DnsSets
<1>5. \A s \in DnsSlots : s \in patches <=> cloud[s] # {} /\ cloud[s] # Sets(task.want)[s]
  BY DEF PullPatches
<1>6. task.clean => /\ dnsZone # None /\ Sets(task.want) = dnsZone /\ cloud = Sets(CloudValues)
  <2> SUFFICES ASSUME task.clean
               PROVE  dnsZone # None /\ Sets(task.want) = dnsZone /\ cloud = Sets(CloudValues)
    OBVIOUS
  <2>1. dnsZone # None /\ task.want = Records(dnsZone) /\ task.seen = CloudListed
    BY <1>1, <1>2 DEF TaskInTime
  <2>2. {x[2] : x \in CloudListed} = CloudValues
    <3>1. \A x \in CloudListed : \E r \in DnsRecords : dnsCloud[r] # None /\ x[2] = dnsCloud[r]
      BY DEF CloudListed
    <3>2. \A r \in DnsRecords : dnsCloud[r] # None => \E x \in CloudListed : x[2] = dnsCloud[r]
      <4> SUFFICES ASSUME NEW r \in DnsRecords, dnsCloud[r] # None
                   PROVE  \E x \in CloudListed : x[2] = dnsCloud[r]
        OBVIOUS
      <4>1. <<r, dnsCloud[r]>> \in CloudListed /\ <<r, dnsCloud[r]>>[2] = dnsCloud[r]
        BY DEF CloudListed
      <4> QED
        BY <4>1
    <3> QED
      BY <3>1, <3>2 DEF CloudValues
  <2>3. Sets(Records(dnsZone)) = dnsZone
    BY <1>1, <2>1, DnsSetsBack
  <2> QED
    BY <2>1, <2>2, <2>3
<1>7. CloudValues' = CloudValues
  BY <1>2 DEF CloudValues
<1>8. ASSUME DnsMoves(i), dnsTask'[i] = t, dnsZone' \in DnsSets \cup {None},
             dnsZone' # None <=> dnsZone # None, TwinsAgree', dnsAgreed' # None => dnsZone' # None,
             dnsAgreed' \in {None, "pushed", "pulled"}
      PROVE  DnsStrong'
  <2> HIDE DEF t
  <2>1. DnsShapes'
    BY <1>1, <1>2, <1>8 DEF DnsShapes, DnsMoves
  <2>2. TaskInTime(dnsTask[i])'
    BY <1>3, <1>8 DEF TaskInTime
  <2>3. \A r \in DnsRecords : r > dnsMade' => dnsCloud'[r] = None
    BY <1>2 DEF DnsStrong, TwinsInTime
  <2> QED
    BY <1>2, <1>3, <1>8, <2>1, <2>2, <2>3, DnsTwinStep
<1>9. CASE dnsZone = None \/ patches = {}
  <2>1. /\ dnsTask' = [dnsTask EXCEPT ![i] = t] /\ dnsZone' = dnsZone
        /\ dnsAgreed' = IF dnsZone # None /\ task.clean THEN "pulled" ELSE dnsAgreed
    BY <1>1, <1>9 DEF PatchZone, DnsEnd, DnsTo
  <2>2. ASSUME dnsZone # None, task.clean PROVE TwinsAgree'
    <3>1. dnsAgreed' = "pulled"
      BY <2>1, <2>2
    <3>2. \A s \in DnsSlots : Sets(CloudValues)[s] \in {{}, dnsZone[s]}
      BY <1>5, <1>6, <1>9, <2>2
    <3>3. \A s \in DnsSlots : Sets(CloudValues')[s] \in {{}, dnsZone'[s]}
      BY <3>2, <1>7, <2>1
    <3> QED
      BY <3>1, <3>3 DEF TwinsAgree, Sets
  <2>3. ASSUME ~(dnsZone # None /\ task.clean) PROVE TwinsAgree'
    <3>1. dnsAgreed' = dnsAgreed
      BY <2>1, <2>3
    <3> QED
      BY <2>1, <3>1, <1>2, DnsAgreedKept DEF DnsStrong, TwinsInTime
  <2>4. TwinsAgree'
    BY <2>2, <2>3
  <2>6. dnsAgreed' # None => dnsZone' # None
    BY <2>1 DEF DnsStrong, TwinsInTime
  <2>7. dnsAgreed' \in {None, "pushed", "pulled"}
    BY <1>1, <2>1 DEF DnsShapes
  <2> HIDE DEF t
  <2>5. DnsMoves(i) /\ dnsTask'[i] = t
    BY <1>1, <1>2, <1>3, <2>1, DnsReplaces
  <2> QED
    BY <1>1, <1>8, <2>1, <2>4, <2>5, <2>6, <2>7
<1>10. CASE ~(dnsZone = None \/ patches = {})
  <2> DEFINE zone == [s \in DnsSlots |-> IF s \in patches THEN cloud[s] ELSE dnsZone[s]]
  <2>1. /\ dnsTask' = [Disturb(i) EXCEPT ![i].pc = "off"] /\ dnsZone' = zone
        /\ dnsAgreed' = IF task.clean THEN "pulled" ELSE None
    BY <1>1, <1>10 DEF PatchZone
  <2>2. zone \in DnsSets
    BY <1>1, <1>4, <1>10 DEF DnsSets
  <2>3. zone # None
    BY <2>2, DnsNoneAssumption DEF DnsSets
  <2>4. dnsTask' = [Disturb(i) EXCEPT ![i] = t]
    <3>1. Disturb(i) \in [DnsRequests -> DnsTaskRecord] /\ Disturb(i)[i] = task
      BY <1>1, DnsDisturbs DEF Disturb
    <3> DEFINE D == Disturb(i)
    <3>2. D \in [DnsRequests -> DnsTaskRecord] /\ D[i] = task /\ dnsTask' = [D EXCEPT ![i].pc = "off"]
      BY <2>1, <3>1
    <3> HIDE DEF D
    <3>3. dnsTask' = [D EXCEPT ![i] = t]
      BY <3>2
    <3> QED
      BY <3>3 DEF D
  <2>5. TwinsAgree'
    <3>1. CASE task.clean
      <4>1. dnsAgreed' = "pulled"
        BY <2>1, <3>1
      <4>2. \A s \in DnsSlots : Sets(CloudValues')[s] \in {{}, dnsZone'[s]}
        BY <1>5, <1>6, <1>7, <2>1, <3>1
      <4> QED
        BY <4>1, <4>2 DEF TwinsAgree
    <3>2. CASE ~task.clean
      <4>1. dnsAgreed' = None
        BY <2>1, <3>2
      <4> QED
        BY <4>1, DnsAgreedKept DEF DnsStrong
    <3> QED
      BY <3>1, <3>2
  <2>6. dnsAgreed' \in {None, "pushed", "pulled"}
    BY <2>1
  <2> HIDE DEF t, zone
  <2>7. DnsMoves(i) /\ dnsTask'[i] = t
    BY <1>1, <1>3, <2>4, DnsReplaces
  <2>8. dnsZone' \in DnsSets \cup {None} /\ (dnsZone' # None <=> dnsZone # None)
    BY <1>10, <2>1, <2>2, <2>3
  <2> QED
    BY <1>8, <2>1, <2>3, <2>5, <2>6, <2>7, <2>8
<1> QED
  BY <1>9, <1>10

LEMMA DnsNextStrong == DnsStrong /\ [DnsNext]_dnsVars => DnsStrong'
<1> SUFFICES ASSUME DnsStrong, [DnsNext]_dnsVars PROVE DnsStrong'
  OBVIOUS
<1>1. CASE EditCloud \/ \E s \in DnsSlots, values \in SUBSET DnsContents : EditSet(s, values)
  BY <1>1, DnsEdits
<1>2. CASE DnsRestart
  BY <1>2, DnsRestarts
<1>3. ASSUME NEW i \in DnsRequests, NEW u \in DnsUsers,
             CreateZone(i, u) \/ AutoCreate(i, u) \/ DeleteZone(i, u)
      PROVE  DnsStrong'
  <2>1. PICK kind \in {"create", "auto", "delete"} : \E pc \in {"server", "delete"} :
          DnsAccept(i, kind, u, pc, {})
    BY <1>3 DEF CreateZone, AutoCreate, DeleteZone
  <2>2. PICK pc \in {"server", "delete"} : DnsAccept(i, kind, u, pc, {})
    BY <2>1
  <2> QED
    BY <2>2, DnsAccepts
<1>4. ASSUME NEW i \in DnsRequests, NEW kind \in {"push", "pull"}, ReadZone(i, kind)
      PROVE  DnsStrong'
  <2>1. PICK want \in SUBSET DnsRecord : want = Records(dnsZone)
    BY DEF Records
  <2>2. dnsZone # None /\ DnsAccept(i, kind, None, "list", want)
    BY <1>4, <2>1 DEF ReadZone
  <2> QED
    BY <2>1, <2>2, DnsAccepts
<1>5. ASSUME NEW i \in DnsRequests,
             \/ ServerCreates(i) \/ RecordOwner(i) \/ PointToServer(i) \/ UndoZone(i)
             \/ ServerDeletes(i) \/ DeleteOwner(i) \/ RequestFails(i)
      PROVE  DnsStrong'
  BY <1>5, DnsServerCreates, DnsRecordsOwner, DnsPointsToServer, DnsUndoes, DnsServerDeletes,
     DnsDeletesOwner, DnsFails
<1>6. ASSUME NEW i \in DnsRequests, ListRecords(i) \/ PatchZone(i) PROVE DnsStrong'
  BY <1>6, DnsLists, DnsPatches
<1>7. ASSUME NEW i \in DnsRequests, NEW rec \in DnsRecord, PushRecord(i, rec) \/ PushRecordFails(i, rec)
      PROVE  DnsStrong'
  BY <1>7, DnsPushesRecord, DnsPushFails
<1>8. CASE UNCHANGED dnsVars
  <2>1. /\ dnsZone' = dnsZone /\ dnsOwner' = dnsOwner /\ dnsCloud' = dnsCloud /\ dnsMade' = dnsMade
        /\ dnsTask' = dnsTask /\ dnsAgreed' = dnsAgreed /\ dnsCut' = dnsCut
    BY <1>8 DEF dnsVars
  <2>2. DnsMoves(0)
    BY <2>1 DEF DnsMoves, DnsStrong, DnsShapes
  <2>3. DnsShapes' /\ TwinsAgree' /\ 0 \notin DnsRequests
    BY <2>1, DnsAgreedKept DEF DnsStrong, DnsShapes, DnsRequests
  <2>4. TwinsInTime'
    BY <2>1, <2>2, <2>3, DnsTwinsKept DEF DnsStrong, TwinsInTime
  <2>5. OwnersInTime'
    BY <2>1, <2>2, <2>3, DnsOwnersKept DEF DnsStrong, ZoneMakers, ZoneDeleters
  <2> QED
    BY <2>3, <2>4, <2>5 DEF DnsStrong
<1> QED
  BY <1>1, <1>2, <1>3, <1>4, <1>5, <1>6, <1>7, <1>8 DEF DnsNext

LEMMA DnsStrongImplies == DnsStrong => DnsTypeOK /\ ZonesAgree
<1> SUFFICES ASSUME DnsStrong PROVE DnsTypeOK /\ ZonesAgree
  OBVIOUS
<1>1. DnsTypeOK
  BY DEF DnsStrong, DnsShapes, DnsTypeOK, DnsTaskRecord, DnsPc, DnsSets
<1>2. OwnersAgree
  BY DEF DnsStrong, OwnersInTime, OwnersAgree, ZoneMakers, ZoneDeleters
<1> QED
  BY <1>1, <1>2 DEF DnsStrong, ZonesAgree

\* A zone has an owner and an owner a zone, once handlers have settled and unless
\* they met in the middle; an undisturbed push or pull leaves the panel and
\* Cloudflare in agreement: whatever requests interleave.
THEOREM ZonesStayInAgreement == DnsSpec => []ZonesAgree
<1>1. DnsInit => DnsStrong
  BY DnsInitStrong
<1>2. DnsStrong /\ [DnsNext]_dnsVars => DnsStrong'
  BY DnsNextStrong
<1>3. DnsStrong => ZonesAgree
  BY DnsStrongImplies
<1> QED
  BY <1>1, <1>2, <1>3, PTL DEF DnsSpec

-----------------------------------------------------------------------------
(* Git sources.                                                            *)

LEMMA GsGreatestIn ==
    ASSUME NEW bound \in Nat, NEW T \in SUBSET (0 .. bound), T # {}
    PROVE  Greatest(T) \in T /\ \A n \in T : n <= Greatest(T)
<1>1. \E m \in T : \A n \in T : n <= m
  BY GreatestNat
<1> QED
  BY <1>1 DEF Greatest

GsAccounts == {owner[a] : owner \in GsOwners, a \in GsApps}
GsNumbers == Nat \cup {None}
GsRows == [owner : GsAccounts, app : GsApps, inst : GsNumbers]
GsHubRecord == [code : BOOLEAN, inst : GsNumbers]
GsTaskRecord == [kind : {"callback", "install", "refresh", None}, pc : {"off", "ask", "write"},
                 id : Nat, app : GsApps \cup {None}, inst : GsNumbers, rows : SUBSET Nat]

GsShapes ==
    /\ gsOwner \in GsOwners
    /\ gsHub \in [GsApps -> GsHubRecord]
    /\ \E last \in Nat : gsApp \in [1 .. last -> GsApps]
    /\ gsRow \in [GsIds -> GsRows \cup {None}]
    /\ gsTask \in [GsRequests -> GsTaskRecord]
    /\ gsRedirects \subseteq [inst : Nat, id : GsIds \cup {None}]
    /\ gsTold \subseteq Installations /\ gsReused \subseteq GsIds /\ gsStale \subseteq GsIds

\* GitHub and the panel agree on the app of an installation.
GsHubTrue ==
    \A a \in GsApps : InstalledAs(a) # None =>
        InstalledAs(a) \in Installations /\ gsApp[InstalledAs(a)] = a

\* An app gets a row once: its code is exchanged once, by one callback.
GsCalls(t, a) == t.pc # "off" /\ t.kind = "callback" /\ t.app = a
GsSpent(a) == ~gsHub[a].code /\ \A j \in GsRequests : ~GsCalls(gsTask[j], a)
GsOnce ==
    /\ \A i \in GsRegistered :
         /\ GsSpent(gsRow[i].app)
         /\ \A k \in GsRegistered : gsRow[i].app = gsRow[k].app => i = k
    /\ \A a \in GsApps, j, k \in GsRequests :
         GsCalls(gsTask[j], a) /\ GsCalls(gsTask[k], a) => j = k

\* Ids go up to the number of rows there have been.
GsIdsEnough == Greatest(GsRegistered) <= Cardinality({a \in GsApps : GsSpent(a)})

\* An app whose source has gone gets none again.
GsGone(a) == GsSpent(a) /\ \A i \in GsRegistered : gsRow[i].app # a

\* Who means the source of app a by id i means its row, or one that was given
\* the id afterwards.
GsMeans(a, i) ==
    /\ (i \in GsRegistered /\ gsRow[i].app = a) \/ GsGone(a)
    /\ i \in GsRegistered \ gsReused => gsRow[i].app = a

GsOfApp(n, a) == n \in Installations /\ gsApp[n] = a
GsTaskOk(t) ==
    t.pc # "off" =>
        /\ t.kind # None
        /\ t.kind = "callback" =>
             /\ t.app \in GsApps /\ ~gsHub[t.app].code
             /\ t.inst # None => GsOfApp(t.inst, t.app)
        /\ t.kind = "install" => t.pc = "ask" /\ t.inst \in Installations
        /\ t.kind = "refresh" =>
             /\ t.app \in GsApps /\ t.id \in GsIds /\ GsMeans(t.app, t.id)
             /\ t.pc = "write" => GsOfApp(t.inst, t.app)
GsTasksOk == \A j \in GsRequests : GsTaskOk(gsTask[j])

GsRedirectOk(r) ==
    r.inst \in Installations /\ (r.id # None => GsMeans(gsApp[r.inst], r.id))
GsRedirectsOk == \A r \in gsRedirects : GsRedirectOk(r)

\* A row holds an installation of another app only if that app has no row.
GsRowOk(i) ==
    /\ gsRow[i].inst # None =>
         /\ gsRow[i].inst \in Installations
         /\ gsApp[gsRow[i].inst] = gsRow[i].app
            \/ (i \in gsReused /\ GsGone(gsApp[gsRow[i].inst]))
    /\ i \notin gsStale /\ InstalledAs(gsRow[i].app) \in gsTold =>
         gsRow[i].inst = InstalledAs(gsRow[i].app)
GsRowsOk == \A i \in GsRegistered : GsRowOk(i)

GsToldOk == \A n \in gsTold : GsSpent(gsApp[n])

GsStrong ==
    GsShapes /\ GsHubTrue /\ GsOnce /\ GsIdsEnough /\ GsTasksOk /\ GsRedirectsOk /\ GsRowsOk /\ GsToldOk

-----------------------------------------------------------------------------
(* Git sources: what steps have in common.                                 *)

LEMMA GsNones ==
    /\ None \notin GsRows /\ None \notin GsApps /\ None \notin Nat
    /\ None \notin {"callback", "install", "refresh"}
  BY GsNoneAssumption, GsAssumption, NoneAssumption DEF GsRows, GsAccounts, GsNumbers

LEMMA GsFinite == IsFiniteSet(GsApps) /\ Cardinality(GsApps) \in Nat /\ GsApps # {}
  BY GsAssumption, FS_CardinalityType

LEMMA GsRowTyped ==
    ASSUME GsShapes, NEW i \in GsRegistered
    PROVE  /\ i \in GsIds /\ gsRow[i] \in GsRows /\ gsRow[i] # None
           /\ gsRow[i].app \in GsApps /\ gsRow[i].inst \in GsNumbers
<1>1. i \in GsIds /\ gsRow[i] # None /\ gsRow[i] \in GsRows
  BY DEF GsShapes, GsRegistered
<1> QED
  BY <1>1 DEF GsRows

LEMMA GsAppTyped ==
    ASSUME GsShapes
    PROVE  /\ \A n \in Installations : n \in Nat /\ n # 0 /\ gsApp[n] \in GsApps
           /\ \E last \in Nat : Installations = 1 .. last
<1>1. PICK last \in Nat : gsApp \in [1 .. last -> GsApps]
  BY DEF GsShapes
<1>2. Installations = 1 .. last
  BY <1>1 DEF Installations
<1> QED
  BY <1>1, <1>2

\* Apps that have been dealt with stay so, installations stay with their apps.
GsOnward ==
    /\ \A a \in GsApps : (GsSpent(a) => GsSpent(a)') /\ (GsGone(a) => GsGone(a)')
    /\ \A a \in GsApps : ~gsHub[a].code => ~gsHub'[a].code
    /\ \A n \in Installations : n \in Installations' /\ gsApp'[n] = gsApp[n]

\* The same apps have the same rows.
GsRowsSame ==
    /\ GsRegistered' = GsRegistered /\ gsReused' = gsReused
    /\ \A i \in GsRegistered : gsRow'[i].app = gsRow[i].app

LEMMA GsMeansKept ==
    ASSUME GsOnward, GsRowsSame, NEW a \in GsApps, NEW i, GsMeans(a, i)
    PROVE  GsMeans(a, i)'
  BY DEF GsOnward, GsRowsSame, GsMeans

LEMMA GsTaskKept ==
    ASSUME GsOnward, NEW t \in GsTaskRecord, GsTaskOk(t),
           t.pc # "off" /\ t.kind = "refresh" => GsMeans(t.app, t.id)'
    PROVE  GsTaskOk(t)'
<1>1. t.kind = "callback" /\ t.pc # "off" =>
        t.app \in GsApps /\ ~gsHub'[t.app].code /\ (t.inst # None => GsOfApp(t.inst, t.app)')
  BY DEF GsTaskOk, GsOnward, GsOfApp
<1>2. t.kind = "install" /\ t.pc # "off" => t.pc = "ask" /\ t.inst \in Installations'
  BY DEF GsTaskOk, GsOnward
<1>3. t.kind = "refresh" /\ t.pc # "off" =>
        t.app \in GsApps /\ t.id \in GsIds /\ (t.pc = "write" => GsOfApp(t.inst, t.app)')
  BY DEF GsTaskOk, GsOnward, GsOfApp
<1> QED
  BY <1>1, <1>2, <1>3 DEF GsTaskOk

LEMMA GsRedirectKept ==
    ASSUME GsOnward, NEW r, GsRedirectOk(r),
           r.id # None => GsMeans(gsApp[r.inst], r.id)'
    PROVE  GsRedirectOk(r)'
<1>1. r.inst \in Installations' /\ gsApp'[r.inst] = gsApp[r.inst]
  BY DEF GsRedirectOk, GsOnward
<1>2. PICK a : a = gsApp[r.inst]
  OBVIOUS
<1>3. r.id # None => GsMeans(a, r.id)'
  BY <1>1, <1>2 DEF GsMeans
<1> QED
  BY <1>1, <1>2, <1>3 DEF GsRedirectOk, GsMeans

\* The apps that have been dealt with are counted, and grow.
LEMMA GsCountGrows ==
    ASSUME GsOnward
    PROVE  /\ Cardinality({a \in GsApps : GsSpent(a)}) \in Nat
           /\ Cardinality({a \in GsApps : GsSpent(a)'}) \in Nat
           /\ Cardinality({a \in GsApps : GsSpent(a)}) <= Cardinality({a \in GsApps : GsSpent(a)'})
           /\ Cardinality({a \in GsApps : GsSpent(a)'}) <= Cardinality(GsApps)
<1>1. PICK before : before = {a \in GsApps : GsSpent(a)}
  OBVIOUS
<1>2. PICK after : after = {a \in GsApps : GsSpent(a)'}
  OBVIOUS
<1>3. before \subseteq after /\ after \subseteq GsApps
  BY <1>1, <1>2 DEF GsOnward
<1>4. IsFiniteSet(after) /\ IsFiniteSet(before)
  BY <1>3, GsFinite, FS_Subset
<1>5. /\ Cardinality(before) <= Cardinality(after) /\ Cardinality(after) <= Cardinality(GsApps)
      /\ Cardinality(before) \in Nat /\ Cardinality(after) \in Nat
  BY <1>3, <1>4, GsFinite, FS_Subset, FS_CardinalityType
<1> QED
  BY <1>1, <1>2, <1>5

\* Steps that leave the rows of apps alone.
LEMMA GsSameIds ==
    ASSUME GsStrong, GsOnward, GsRowsSame
    PROVE  GsIdsEnough'
<1>1. Greatest(GsRegistered) <= Cardinality({a \in GsApps : GsSpent(a)})
  BY DEF GsStrong, GsIdsEnough
<1>2. GsRegistered \in SUBSET (0 .. Cardinality(GsApps)) /\ Cardinality(GsApps) \in Nat
  BY GsFinite DEF GsRegistered, GsIds
<1>3. Greatest(GsRegistered) \in Nat
  <2>1. CASE GsRegistered = {}
    BY <2>1 DEF Greatest
  <2>2. CASE GsRegistered # {}
    <3>1. PICK bound \in Nat : bound = Cardinality(GsApps)
      BY <1>2
    <3>2. PICK T \in SUBSET (0 .. bound) : T = GsRegistered
      BY <1>2, <3>1
    <3>3. Greatest(T) \in T
      BY <2>2, <3>1, <3>2, GsGreatestIn
    <3>4. \A m \in T : m \in Nat
      OBVIOUS
    <3>5. PICK m \in T : m = Greatest(T)
      BY <3>3
    <3> QED
      BY <3>2, <3>4, <3>5
  <2> QED
    BY <2>1, <2>2
<1>4. PICK n \in Nat : n = Greatest(GsRegistered)
  BY <1>3
<1>5. n = Greatest(GsRegistered)'
  BY <1>4 DEF Greatest, GsRowsSame
<1>6. n <= Cardinality({a \in GsApps : GsSpent(a)'})
  BY <1>1, <1>4, GsCountGrows
<1> QED
  BY <1>5, <1>6 DEF GsIdsEnough

-----------------------------------------------------------------------------
(* Handlers that leave the rows alone.                                     *)

\* What handler j is at.
LEMMA GsTaskStep ==
    ASSUME GsStrong, UNCHANGED <<gsOwner, gsApp, gsRow, gsHistory>>,
           gsHub' \in [GsApps -> GsHubRecord],
           \A a \in GsApps : gsHub'[a].inst = gsHub[a].inst /\ (~gsHub[a].code => ~gsHub'[a].code),
           gsRedirects' \subseteq gsRedirects,
           NEW j \in GsRequests, NEW t \in GsTaskRecord, gsTask' = [gsTask EXCEPT ![j] = t],
           \A a \in GsApps : GsCalls(t, a) =>
               \/ GsCalls(gsTask[j], a)
               \/ gsHub[a].code /\ ~gsHub'[a].code,
           GsOnward => GsTaskOk(t)'
    PROVE  GsStrong'
<1>1. /\ GsShapes /\ GsHubTrue /\ GsOnce /\ GsIdsEnough /\ GsTasksOk /\ GsRedirectsOk /\ GsRowsOk
      /\ GsToldOk
  BY DEF GsStrong
<1>2. /\ gsTask'[j] = t /\ \A h \in GsRequests : h # j => gsTask'[h] = gsTask[h]
      /\ gsTask' \in [GsRequests -> GsTaskRecord]
  BY <1>1 DEF GsShapes
<1>3. GsRegistered' = GsRegistered /\ Installations' = Installations /\ gsRow' = gsRow /\ gsApp' = gsApp
      /\ gsTold' = gsTold /\ gsReused' = gsReused /\ gsStale' = gsStale /\ gsOwner' = gsOwner
  BY DEF GsRegistered, Installations, gsHistory
<1>4. ASSUME NEW a \in GsApps, GsSpent(a) PROVE GsSpent(a)'
  <2>1. ~gsHub'[a].code
    BY <1>4 DEF GsSpent
  <2>2. ASSUME NEW h \in GsRequests PROVE ~GsCalls(gsTask'[h], a)
    <3>1. ~GsCalls(gsTask[h], a)
      BY <1>4 DEF GsSpent
    <3>2. CASE h = j
      BY <1>2, <1>4, <3>1, <3>2 DEF GsSpent
    <3>3. CASE h # j
      BY <1>2, <3>1, <3>3
    <3> QED
      BY <3>2, <3>3
  <2>3. ASSUME NEW h \in GsRequests PROVE ~GsCalls(gsTask[h], a)'
    BY <2>2 DEF GsCalls
  <2> QED
    BY <2>1, <2>3 DEF GsSpent
<1>5. \A a \in GsApps : GsGone(a) => GsGone(a)'
  BY <1>3, <1>4 DEF GsGone
<1>6. GsOnward /\ GsRowsSame
  BY <1>3, <1>4, <1>5 DEF GsOnward, GsRowsSame
<1>7. GsShapes'
  BY <1>1, <1>2, <1>3 DEF GsShapes
<1>8. GsHubTrue'
  BY <1>1, <1>3 DEF GsHubTrue, InstalledAs
<1>9. GsOnce'
  <2>1. \A i \in GsRegistered : GsSpent(gsRow[i].app)
    BY <1>1 DEF GsOnce
  <2>2. \A i \in GsRegistered : gsRow[i].app \in GsApps
    BY <1>1, GsRowTyped
  <2>3. \A i \in GsRegistered' : GsSpent(gsRow[i].app)'
    BY <1>3, <1>4, <2>1, <2>2 DEF GsSpent
  <2>4. \A i, k \in GsRegistered' : gsRow'[i].app = gsRow'[k].app => i = k
    BY <1>1, <1>3 DEF GsOnce
  <2>5. ASSUME NEW a \in GsApps, NEW h \in GsRequests, NEW k \in GsRequests,
               GsCalls(gsTask'[h], a), GsCalls(gsTask'[k], a)
        PROVE  h = k
    <3>1. CASE GsCalls(gsTask[j], a) \/ ~GsCalls(t, a)
      <4>1. GsCalls(gsTask[h], a) /\ GsCalls(gsTask[k], a)
        BY <1>2, <2>5, <3>1
      <4> QED
        BY <1>1, <4>1 DEF GsOnce
    <3>2. CASE ~GsCalls(gsTask[j], a) /\ GsCalls(t, a)
      <4>1. gsHub[a].code
        BY <3>2
      <4>2. ASSUME NEW m \in GsRequests, m # j, GsCalls(gsTask'[m], a) PROVE FALSE
        <5>1. GsCalls(gsTask[m], a) /\ GsTaskOk(gsTask[m])
          BY <1>1, <1>2, <4>2 DEF GsTasksOk
        <5> QED
          BY <4>1, <5>1 DEF GsCalls, GsTaskOk
      <4> QED
        BY <2>5, <4>2
    <3> QED
      BY <3>1, <3>2
  <2>6. \A a \in GsApps, h, k \in GsRequests :
          GsCalls(gsTask[h], a)' /\ GsCalls(gsTask[k], a)' => h = k
    BY <2>5 DEF GsCalls
  <2> QED
    BY <2>3, <2>4, <2>6 DEF GsOnce
<1>10. GsIdsEnough'
  BY <1>6, GsSameIds
<1>11. GsTasksOk'
  <2>1. ASSUME NEW h \in GsRequests PROVE GsTaskOk(gsTask[h])'
    <3>1. CASE h = j
      BY <1>2, <1>6, <3>1 DEF GsTaskOk
    <3>2. CASE h # j
      <4>1. PICK u \in GsTaskRecord : u = gsTask[h] /\ u = gsTask'[h]
        BY <1>1, <1>2, <3>2 DEF GsShapes
      <4>2. GsTaskOk(u)
        BY <1>1, <4>1 DEF GsTasksOk
      <4>3. u.pc # "off" /\ u.kind = "refresh" => GsMeans(u.app, u.id)'
        BY <1>6, <4>2, GsMeansKept DEF GsTaskOk
      <4>4. GsTaskOk(u)'
        BY <1>6, <4>2, <4>3, GsTaskKept
      <4> QED
        BY <4>1, <4>4 DEF GsTaskOk
    <3> QED
      BY <3>1, <3>2
  <2> QED
    BY <2>1 DEF GsTasksOk
<1>12. GsRedirectsOk'
  <2>1. ASSUME NEW r \in gsRedirects' PROVE GsRedirectOk(r)'
    <3>1. GsRedirectOk(r)
      BY <1>1 DEF GsRedirectsOk
    <3>2. gsApp[r.inst] \in GsApps
      BY <1>1, <3>1, GsAppTyped DEF GsRedirectOk
    <3>3. r.id # None => GsMeans(gsApp[r.inst], r.id)'
      <4>1. PICK a \in GsApps : a = gsApp[r.inst]
        BY <3>2
      <4>2. r.id # None => GsMeans(a, r.id)'
        BY <1>6, <3>1, <4>1, GsMeansKept DEF GsRedirectOk
      <4> QED
        BY <1>3, <4>1, <4>2 DEF GsMeans
    <3> QED
      BY <1>3, <1>6, <3>1, <3>3, GsRedirectKept
  <2> QED
    BY <2>1 DEF GsRedirectsOk
<1>13. GsRowsOk'
  <2>1. ASSUME NEW i \in GsRegistered' PROVE GsRowOk(i)'
    <3>1. GsRowOk(i) /\ gsRow[i].app \in GsApps /\ gsRow' = gsRow
      BY <1>1, <1>3, GsRowTyped DEF GsRowsOk
    <3>2. gsRow[i].inst \in Installations => gsApp[gsRow[i].inst] \in GsApps
      BY <1>1, GsAppTyped
    <3>3. InstalledAs(gsRow[i].app)' = InstalledAs(gsRow[i].app)
      BY <3>1 DEF InstalledAs
    <3>4. gsRow[i].inst \in Installations /\ GsGone(gsApp[gsRow[i].inst]) => GsGone(gsApp[gsRow[i].inst])'
      BY <1>3, <1>5, <3>2 DEF GsGone, GsSpent
    <3> QED
      BY <1>3, <3>1, <3>3, <3>4 DEF GsRowOk
  <2> QED
    BY <2>1 DEF GsRowsOk
<1>14. GsToldOk'
  <2>1. ASSUME NEW n \in gsTold PROVE GsSpent(gsApp[n])'
    <3>1. gsApp[n] \in GsApps /\ GsSpent(gsApp[n])
      BY <1>1, GsAppTyped DEF GsShapes, GsToldOk
    <3>2. PICK a \in GsApps : a = gsApp[n]
      BY <3>1
    <3>3. GsSpent(a)'
      BY <1>4, <3>1, <3>2
    <3> QED
      BY <1>3, <3>2, <3>3 DEF GsSpent
  <2> QED
    BY <1>3, <2>1 DEF GsToldOk
<1> QED
  BY <1>7, <1>8, <1>9, <1>10, <1>11, <1>12, <1>13, <1>14 DEF GsStrong

LEMMA GsOffTask == GsOff \in GsTaskRecord
  BY GsNones DEF GsOff, GsTaskRecord, GsNumbers

LEMMA GsEndTask ==
    ASSUME GsShapes, NEW j \in GsRequests, GsEnd(j)
    PROVE  \E t \in GsTaskRecord : t.pc = "off" /\ gsTask' = [gsTask EXCEPT ![j] = t]
<1>1. gsTask[j] \in GsTaskRecord
  BY DEF GsShapes
<1>2. PICK kind \in {"callback", "install", "refresh", None} : kind = gsTask[j].kind
  BY <1>1 DEF GsTaskRecord
<1>3. PICK t : t = [GsOff EXCEPT !.kind = kind]
  OBVIOUS
<1>4. t \in GsTaskRecord /\ t.pc = "off"
  BY <1>2, <1>3 DEF GsOff, GsTaskRecord, GsNumbers
<1> QED
  BY <1>2, <1>3, <1>4 DEF GsEnd

LEMMA GsEndStep ==
    ASSUME GsStrong, NEW j \in GsRequests, GsEnd(j), UNCHANGED <<gsOwner, gsHub, gsApp, gsRow, gsHistory>>,
           gsRedirects' \subseteq gsRedirects
    PROVE  GsStrong'
<1>1. PICK t \in GsTaskRecord : t.pc = "off" /\ gsTask' = [gsTask EXCEPT ![j] = t]
  BY GsEndTask DEF GsStrong
<1>2. GsTaskOk(t)' /\ \A a \in GsApps : ~GsCalls(t, a)
  BY <1>1 DEF GsTaskOk, GsCalls
<1>3. gsHub' \in [GsApps -> GsHubRecord]
  BY DEF GsStrong, GsShapes
<1> QED
  BY <1>1, <1>2, <1>3, GsTaskStep

LEMMA GithubCallbackKeeps ==
    ASSUME GsStrong, NEW j \in GsRequests, NEW a \in GsApps, GithubCallback(j, a) PROVE GsStrong'
<1>1. PICK n \in {None, InstalledAs(a)} :
         GsStart(j, [GsOff EXCEPT !.kind = "callback", !.pc = IF n = None THEN "ask" ELSE "write",
                                  !.app = a, !.inst = n])
  BY DEF GithubCallback
<1>2. gsHub[a] \in GsHubRecord /\ gsHub[a].inst \in GsNumbers /\ n \in GsNumbers
  BY <1>1 DEF GsStrong, GsShapes, GsHubRecord, InstalledAs, GsNumbers
<1>3. PICK pc \in {"ask", "write"} : pc = IF n = None THEN "ask" ELSE "write"
  OBVIOUS
<1>4. PICK t : t = [GsOff EXCEPT !.kind = "callback", !.pc = pc, !.app = a, !.inst = n]
  OBVIOUS
<1>5. /\ t \in GsTaskRecord /\ t.kind = "callback" /\ t.pc = pc /\ t.app = a /\ t.inst = n
      /\ gsTask' = [gsTask EXCEPT ![j] = t]
  BY <1>1, <1>2, <1>3, <1>4 DEF GsOff, GsTaskRecord, GsNumbers, GsStart
<1>6. PICK hub : hub = [gsHub[a] EXCEPT !.code = FALSE]
  OBVIOUS
<1>7. hub \in GsHubRecord /\ hub.inst = gsHub[a].inst /\ ~hub.code /\ gsHub' = [gsHub EXCEPT ![a] = hub]
  BY <1>2, <1>6 DEF GithubCallback, GsHubRecord
<1>8. /\ gsHub' \in [GsApps -> GsHubRecord] /\ ~gsHub'[a].code
      /\ \A b \in GsApps : gsHub'[b].inst = gsHub[b].inst /\ (~gsHub[b].code => ~gsHub'[b].code)
  BY <1>7 DEF GsStrong, GsShapes
<1>9. gsHub[a].code
  BY DEF GithubCallback
<1>10. n # None => GsOfApp(n, a)
  BY <1>1 DEF GsStrong, GsHubTrue, GsOfApp
<1>11. UNCHANGED <<gsOwner, gsApp, gsRow, gsHistory>> /\ gsRedirects' \subseteq gsRedirects
  BY DEF GithubCallback
<1>12. GsTaskOk(t)'
  BY <1>5, <1>8, <1>10, <1>11, GsNones DEF GsTaskOk, GsOfApp, Installations
<1>13. \A b \in GsApps : GsCalls(t, b) => gsHub[b].code /\ ~gsHub'[b].code
  BY <1>5, <1>8, <1>9 DEF GsCalls
<1> QED
  BY <1>5, <1>8, <1>11, <1>12, <1>13, GsTaskStep

LEMMA AskInstallationsKeeps ==
    ASSUME GsStrong, NEW j \in GsRequests, AskInstallations(j) PROVE GsStrong'
<1>1. gsTask[j] \in GsTaskRecord /\ GsTaskOk(gsTask[j]) /\ gsTask[j].pc = "ask" /\ gsTask[j].kind = "callback"
  BY DEF AskInstallations, GsStrong, GsShapes, GsTasksOk
<1>2. PICK a \in GsApps : a = gsTask[j].app /\ ~gsHub[a].code
  BY <1>1 DEF GsTaskOk
<1>3. PICK n \in {None, InstalledAs(a)} : gsTask' = [gsTask EXCEPT ![j].pc = "write", ![j].inst = n]
  BY <1>2 DEF AskInstallations
<1>4. n \in GsNumbers
  BY <1>3 DEF GsStrong, GsShapes, GsHubRecord, InstalledAs, GsNumbers
<1>5. PICK t : t = [gsTask[j] EXCEPT !.pc = "write", !.inst = n]
  OBVIOUS
<1>6. /\ t \in GsTaskRecord /\ t.kind = "callback" /\ t.pc = "write" /\ t.app = a /\ t.inst = n
  BY <1>1, <1>2, <1>4, <1>5 DEF GsTaskRecord
<1>7. gsTask' = [gsTask EXCEPT ![j] = t]
  BY <1>1, <1>3, <1>5 DEF GsStrong, GsShapes, GsTaskRecord
<1>8. UNCHANGED <<gsOwner, gsHub, gsApp, gsRow, gsHistory>> /\ gsRedirects' \subseteq gsRedirects
  BY DEF AskInstallations
<1>9. n # None => GsOfApp(n, a)
  BY <1>3 DEF GsStrong, GsHubTrue, GsOfApp
<1>10. GsTaskOk(t)'
  BY <1>2, <1>6, <1>8, <1>9, GsNones DEF GsTaskOk, GsOfApp, Installations
<1>11. \A b \in GsApps : GsCalls(t, b) => GsCalls(gsTask[j], b)
  BY <1>1, <1>2, <1>6 DEF GsCalls
<1>12. gsHub' \in [GsApps -> GsHubRecord]
  BY <1>8 DEF GsStrong, GsShapes
<1> QED
  BY <1>6, <1>7, <1>8, <1>10, <1>11, <1>12, GsTaskStep

LEMMA InstallFallbackKeeps ==
    ASSUME GsStrong, NEW j \in GsRequests, NEW r \in gsRedirects, InstallFallback(j, r) PROVE GsStrong'
<1>1. r.inst \in Nat /\ r.inst \in Installations
  BY DEF GsStrong, GsShapes, GsRedirectsOk, GsRedirectOk
<1>2. PICK rows : rows = {i \in GsRegistered : gsRow[i].owner = gsOwner[gsApp[r.inst]]}
  OBVIOUS
<1>3. rows \in SUBSET Nat
  BY <1>2 DEF GsRegistered, GsIds
<1>4. PICK n \in Nat : n = r.inst
  BY <1>1
<1>5. PICK t : t = [GsOff EXCEPT !.kind = "install", !.pc = "ask", !.inst = n, !.rows = rows]
  OBVIOUS
<1>6. t \in GsTaskRecord /\ t.kind = "install" /\ t.pc = "ask" /\ t.inst = n
  BY <1>3, <1>5 DEF GsOff, GsTaskRecord, GsNumbers
<1>7. gsTask' = [gsTask EXCEPT ![j] = t]
  BY <1>2, <1>4, <1>5 DEF InstallFallback, GsStart
<1>8. UNCHANGED <<gsOwner, gsHub, gsApp, gsRow, gsHistory>> /\ gsRedirects' \subseteq gsRedirects
  BY DEF InstallFallback
<1>9. GsTaskOk(t)'
  BY <1>1, <1>4, <1>6, <1>8, GsNones DEF GsTaskOk, Installations
<1>10. \A b \in GsApps : ~GsCalls(t, b)
  BY <1>6 DEF GsCalls
<1>11. gsHub' \in [GsApps -> GsHubRecord]
  BY <1>8 DEF GsStrong, GsShapes
<1> QED
  BY <1>6, <1>7, <1>8, <1>9, <1>10, <1>11, GsTaskStep

LEMMA RefreshInstallationKeeps ==
    ASSUME GsStrong, NEW j \in GsRequests, NEW i \in GsIds, RefreshInstallation(j, i) PROVE GsStrong'
<1>1. i \in GsRegistered /\ i \in Nat
  BY DEF RefreshInstallation, GsIds
<1>2. PICK a \in GsApps : a = gsRow[i].app
  BY <1>1, GsRowTyped DEF GsStrong
<1>3. PICK t : t = [GsOff EXCEPT !.kind = "refresh", !.pc = "ask", !.id = i, !.app = a]
  OBVIOUS
<1>4. t \in GsTaskRecord /\ t.kind = "refresh" /\ t.pc = "ask" /\ t.id = i /\ t.app = a
  BY <1>1, <1>3 DEF GsOff, GsTaskRecord, GsNumbers
<1>5. gsTask' = [gsTask EXCEPT ![j] = t]
  BY <1>2, <1>3 DEF RefreshInstallation, GsStart
<1>6. UNCHANGED <<gsOwner, gsHub, gsApp, gsRow, gsHistory>> /\ gsRedirects' \subseteq gsRedirects
  BY DEF RefreshInstallation
<1>7. GsTaskOk(t)'
  BY <1>1, <1>2, <1>4, <1>6, GsNones DEF GsTaskOk, GsMeans, GsRegistered
<1>8. \A b \in GsApps : ~GsCalls(t, b)
  BY <1>4 DEF GsCalls
<1>9. gsHub' \in [GsApps -> GsHubRecord]
  BY <1>6 DEF GsStrong, GsShapes
<1> QED
  BY <1>4, <1>5, <1>6, <1>7, <1>8, <1>9, GsTaskStep

LEMMA RefreshAnsweredKeeps ==
    ASSUME GsStrong, NEW j \in GsRequests, RefreshAnswered(j) PROVE GsStrong'
<1>1. gsTask[j] \in GsTaskRecord /\ GsTaskOk(gsTask[j]) /\ gsTask[j].pc = "ask" /\ gsTask[j].kind = "refresh"
  BY DEF RefreshAnswered, GsStrong, GsShapes, GsTasksOk
<1>2. PICK a \in GsApps : a = gsTask[j].app
  BY <1>1 DEF GsTaskOk
<1>3. UNCHANGED <<gsOwner, gsHub, gsApp, gsRow, gsHistory>> /\ gsRedirects' \subseteq gsRedirects
  BY DEF RefreshAnswered
<1>4. CASE InstalledAs(a) = None
  BY <1>2, <1>3, <1>4, GsEndStep DEF RefreshAnswered
<1>5. CASE InstalledAs(a) # None
  <2>1. PICK n \in GsNumbers : n = InstalledAs(a) /\ GsOfApp(n, a)
    BY <1>5 DEF GsStrong, GsShapes, GsHubRecord, InstalledAs, GsNumbers, GsHubTrue, GsOfApp
  <2>2. PICK t : t = [gsTask[j] EXCEPT !.pc = "write", !.inst = n]
    OBVIOUS
  <2>3. /\ t \in GsTaskRecord /\ t.kind = "refresh" /\ t.pc = "write" /\ t.app = a /\ t.inst = n
        /\ t.id = gsTask[j].id
    BY <1>1, <1>2, <2>1, <2>2 DEF GsTaskRecord
  <2>4. gsTask' = [gsTask EXCEPT ![j] = t]
    BY <1>1, <1>2, <1>5, <2>1, <2>2 DEF RefreshAnswered, GsStrong, GsShapes, GsTaskRecord
  <2>5. GsOnward => GsTaskOk(t)'
    <3>1. ASSUME GsOnward PROVE GsTaskOk(t)'
      <4>1. GsRowsSame
        BY <1>3 DEF GsRowsSame, GsRegistered, gsHistory
      <4>2. t.id \in GsIds /\ GsMeans(a, t.id)
        BY <1>1, <1>2, <2>3 DEF GsTaskOk
      <4>3. GsMeans(a, t.id)'
        BY <3>1, <4>1, <4>2, GsMeansKept
      <4>4. GsOfApp(n, a)'
        BY <1>3, <2>1 DEF GsOfApp, Installations
      <4> QED
        BY <2>3, <4>2, <4>3, <4>4, GsNones DEF GsTaskOk
    <3> QED
      BY <3>1
  <2>6. \A b \in GsApps : ~GsCalls(t, b)
    BY <2>3 DEF GsCalls
  <2>7. gsHub' \in [GsApps -> GsHubRecord]
    BY <1>3 DEF GsStrong, GsShapes
  <2> QED
    BY <1>3, <2>3, <2>4, <2>5, <2>6, <2>7, GsTaskStep
<1> QED
  BY <1>4, <1>5

-----------------------------------------------------------------------------
(* Git sources: steps that write rows, or at GitHub.                       *)

\* Handlers end, and none starts.
GsTasksLess ==
    /\ gsTask' \in [GsRequests -> GsTaskRecord]
    /\ \A h \in GsRequests : gsTask'[h] = gsTask[h] \/ gsTask'[h].pc = "off"

\* What somebody means, he still means.
GsMeansStays == \A a \in GsApps, i \in GsIds : GsMeans(a, i) /\ Meant(i) => GsMeans(a, i)'

LEMMA GsEndLess ==
    ASSUME GsShapes, NEW j \in GsRequests, GsEnd(j) PROVE GsTasksLess
<1>1. PICK t \in GsTaskRecord : t.pc = "off" /\ gsTask' = [gsTask EXCEPT ![j] = t]
  BY GsEndTask
<1> QED
  BY <1>1 DEF GsShapes, GsTasksLess

LEMMA GsSameLess ==
    ASSUME GsShapes, UNCHANGED gsTask PROVE GsTasksLess
  BY DEF GsShapes, GsTasksLess

LEMMA GsCallsLess ==
    ASSUME GsTasksLess, NEW h \in GsRequests, NEW a, GsCalls(gsTask'[h], a)
    PROVE  gsTask'[h] = gsTask[h] /\ GsCalls(gsTask[h], a)
  BY DEF GsTasksLess, GsCalls

LEMMA GsSpentStays ==
    ASSUME GsTasksLess, NEW a \in GsApps, GsSpent(a), gsHub'[a].code = gsHub[a].code
    PROVE  GsSpent(a)'
<1>1. ASSUME NEW h \in GsRequests PROVE ~GsCalls(gsTask[h], a)'
  <2>1. ~GsCalls(gsTask'[h], a)
    BY GsCallsLess DEF GsSpent
  <2> QED
    BY <2>1 DEF GsCalls
<1> QED
  BY <1>1 DEF GsSpent

LEMMA GsTasksKept ==
    ASSUME GsStrong, GsOnward, GsTasksLess, GsMeansStays PROVE GsTasksOk'
<1>1. ASSUME NEW h \in GsRequests PROVE GsTaskOk(gsTask[h])'
  <2>1. CASE gsTask'[h].pc = "off"
    BY <2>1 DEF GsTaskOk
  <2>2. CASE gsTask'[h] = gsTask[h]
    <3>1. PICK t \in GsTaskRecord : t = gsTask[h] /\ t = gsTask'[h]
      BY <2>2 DEF GsTasksLess
    <3>2. GsTaskOk(t)
      BY <3>1 DEF GsStrong, GsTasksOk
    <3>3. ASSUME t.pc # "off", t.kind = "refresh" PROVE GsMeans(t.app, t.id)'
      <4>1. t.app \in GsApps /\ t.id \in GsIds /\ GsMeans(t.app, t.id)
        BY <3>2, <3>3 DEF GsTaskOk
      <4>2. Meant(t.id)
        BY <3>1, <3>3 DEF Meant
      <4>3. PICK a \in GsApps, i \in GsIds : a = t.app /\ i = t.id
        BY <4>1
      <4>4. GsMeans(a, i)'
        BY <4>1, <4>2, <4>3 DEF GsMeansStays
      <4> QED
        BY <4>3, <4>4
    <3>4. GsTaskOk(t)'
      BY <3>2, <3>3, GsTaskKept
    <3> QED
      BY <3>1, <3>4 DEF GsTaskOk
  <2> QED
    BY <2>1, <2>2 DEF GsTasksLess
<1> QED
  BY <1>1 DEF GsTasksOk

LEMMA GsRedirectStays ==
    ASSUME GsStrong, GsOnward, GsMeansStays, NEW r \in gsRedirects PROVE GsRedirectOk(r)'
<1>1. GsRedirectOk(r) /\ r.inst \in Installations /\ r.id \in GsIds \cup {None}
  BY DEF GsStrong, GsShapes, GsRedirectsOk, GsRedirectOk
<1>2. PICK a \in GsApps : a = gsApp[r.inst] /\ a = gsApp'[r.inst]
  BY <1>1, GsAppTyped DEF GsStrong, GsOnward
<1>3. ASSUME r.id # None PROVE GsMeans(a, r.id)'
  <2>1. PICK i \in GsIds : i = r.id
    BY <1>1, <1>3
  <2>2. GsMeans(a, i) /\ Meant(i)
    BY <1>1, <1>2, <1>3, <2>1 DEF GsRedirectOk, Meant
  <2>3. GsMeans(a, i)'
    BY <2>2 DEF GsMeansStays
  <2> QED
    BY <2>1, <2>3
<1>4. r.inst \in Installations'
  BY <1>1 DEF GsOnward
<1> QED
  BY <1>2, <1>3, <1>4 DEF GsRedirectOk, GsMeans

LEMMA GsRedirectsKept ==
    ASSUME GsStrong, GsOnward, GsMeansStays, gsRedirects' \subseteq gsRedirects PROVE GsRedirectsOk'
<1>1. \A r \in gsRedirects' : GsRedirectOk(r)'
  BY GsRedirectStays
<1> QED
  BY <1>1 DEF GsRedirectsOk

LEMMA GsOnceKept ==
    ASSUME GsStrong, GsOnward, GsTasksLess,
           \A i \in GsRegistered' : i \in GsRegistered /\ gsRow'[i].app = gsRow[i].app
    PROVE  GsOnce'
<1>1. ASSUME NEW i \in GsRegistered' PROVE GsSpent(gsRow[i].app)'
  <2>1. PICK a \in GsApps : a = gsRow[i].app /\ a = gsRow'[i].app
    BY GsRowTyped DEF GsStrong
  <2>2. GsSpent(a)'
    BY <2>1 DEF GsStrong, GsOnce, GsOnward
  <2> QED
    BY <2>1, <2>2 DEF GsSpent
<1>2. \A i, k \in GsRegistered' : gsRow'[i].app = gsRow'[k].app => i = k
  BY DEF GsStrong, GsOnce
<1>3. \A a \in GsApps, h, k \in GsRequests :
        GsCalls(gsTask'[h], a) /\ GsCalls(gsTask'[k], a) => h = k
  BY GsCallsLess DEF GsStrong, GsOnce
<1>4. \A a \in GsApps, h, k \in GsRequests :
        GsCalls(gsTask[h], a)' /\ GsCalls(gsTask[k], a)' => h = k
  BY <1>3 DEF GsCalls
<1> QED
  BY <1>1, <1>2, <1>4 DEF GsOnce

LEMMA GsToldKept ==
    ASSUME GsStrong, GsOnward, NEW n \in gsTold PROVE GsSpent(gsApp[n])'
<1>1. n \in Installations /\ gsApp[n] \in GsApps /\ GsSpent(gsApp[n])
  BY GsAppTyped DEF GsStrong, GsShapes, GsToldOk
<1>2. PICK a \in GsApps : a = gsApp[n] /\ a = gsApp'[n]
  BY <1>1 DEF GsOnward
<1>3. GsSpent(a)'
  BY <1>1, <1>2 DEF GsOnward
<1> QED
  BY <1>2, <1>3 DEF GsSpent

\* A row that is not written.
LEMMA GsRowKept ==
    ASSUME GsStrong, GsOnward, NEW i \in GsRegistered, gsRow'[i] = gsRow[i],
           i \in gsReused => i \in gsReused',
           i \notin gsStale' /\ gsHub'[gsRow[i].app].inst \in gsTold' =>
               /\ gsHub'[gsRow[i].app].inst = gsHub[gsRow[i].app].inst
               /\ i \notin gsStale /\ gsHub[gsRow[i].app].inst \in gsTold
    PROVE  GsRowOk(i)'
<1>1. GsRowOk(i) /\ gsRow[i].app \in GsApps
  BY GsRowTyped DEF GsStrong, GsRowsOk
<1>2. i \notin gsStale' /\ InstalledAs(gsRow[i].app)' \in gsTold' =>
        gsRow'[i].inst = InstalledAs(gsRow[i].app)'
  BY <1>1 DEF GsRowOk, InstalledAs
<1>3. ASSUME gsRow[i].inst # None
      PROVE  /\ gsRow'[i].inst \in Installations'
             /\ gsApp'[gsRow'[i].inst] = gsRow'[i].app
                \/ (i \in gsReused' /\ GsGone(gsApp[gsRow[i].inst])')
  <2>1. PICK n \in Installations : n = gsRow[i].inst
    BY <1>1, <1>3 DEF GsRowOk
  <2>2. n \in Installations' /\ gsApp'[n] = gsApp[n] /\ gsApp[n] \in GsApps
    BY <2>1, GsAppTyped DEF GsOnward, GsStrong
  <2>3. PICK a \in GsApps : a = gsApp[n] /\ a = gsApp'[n]
    BY <2>2
  <2>4. GsGone(a) => GsGone(a)'
    BY DEF GsOnward
  <2>5. n = gsRow'[i].inst
    BY <2>1
  <2>6. GsGone(a)' => GsGone(gsApp[gsRow[i].inst])'
    BY <2>3, <2>5
  <2> QED
    BY <1>1, <1>3, <2>1, <2>2, <2>3, <2>4, <2>5, <2>6 DEF GsRowOk
<1>4. gsRow'[i].inst # None => gsRow[i].inst # None
  OBVIOUS
<1> QED
  BY <1>2, <1>3, <1>4 DEF GsRowOk

LEMMA RecordKeeps ==
    ASSUME GsStrong, UNCHANGED <<gsOwner, gsHub, gsApp>>, GsTasksLess, gsRedirects' \subseteq gsRedirects,
           NEW i \in GsRegistered, NEW n \in Installations, Record(i, n),
           gsApp[n] = gsRow[i].app \/ (i \in gsReused /\ GsGone(gsApp[n]))
    PROVE  GsStrong'
<1>1. /\ gsRow[i] \in GsRows /\ i \in GsIds /\ gsRow[i].app \in GsApps
      /\ n \in Nat /\ gsApp[n] \in GsApps
  BY GsRowTyped, GsAppTyped DEF GsStrong
<1>2. PICK row : row = [gsRow[i] EXCEPT !.inst = n]
  OBVIOUS
<1>3. row \in GsRows /\ row.app = gsRow[i].app /\ row.inst = n /\ row # None
  BY <1>1, <1>2, GsNones DEF GsRows, GsNumbers
<1>4. gsRow' = [gsRow EXCEPT ![i] = row]
  BY <1>1, <1>2 DEF Record, GsStrong, GsShapes
<1>5. /\ gsRow' \in [GsIds -> GsRows \cup {None}] /\ gsRow'[i] = row
      /\ \A k \in GsIds : k # i => gsRow'[k] = gsRow[k]
  BY <1>1, <1>3, <1>4 DEF GsStrong, GsShapes
<1>6. GsRegistered' = GsRegistered /\ \A k \in GsRegistered : gsRow'[k].app = gsRow[k].app
  BY <1>1, <1>3, <1>5 DEF GsRegistered
<1>7. /\ gsTold' = gsTold \cup {n} /\ gsReused' = gsReused /\ gsStale' \subseteq gsStale \cup {i}
      /\ \A k \in GsIds : k # i => (k \in gsStale' <=> k \in gsStale)
      /\ i \notin gsStale' => n = InstalledAs(gsRow[i].app)
  BY DEF Record
<1>8. Installations' = Installations /\ gsHub' = gsHub /\ gsApp' = gsApp
  BY DEF Installations
<1>9. \A a \in GsApps : GsSpent(a) => GsSpent(a)'
  BY GsSpentStays
<1>10. \A a \in GsApps : GsGone(a) => GsGone(a)'
  BY <1>6, <1>9 DEF GsGone
<1>11. GsOnward /\ GsRowsSame
  BY <1>6, <1>7, <1>8, <1>9, <1>10 DEF GsOnward, GsRowsSame
<1>12. GsMeansStays
  BY <1>11, GsMeansKept DEF GsMeansStays
<1>13. GsShapes'
  BY <1>1, <1>5, <1>7, <1>8 DEF GsStrong, GsShapes, GsTasksLess
<1>14. GsHubTrue'
  BY <1>8 DEF GsStrong, GsHubTrue, InstalledAs
<1>15. GsOnce'
  BY <1>6, <1>11, GsOnceKept
<1>16. GsIdsEnough'
  BY <1>11, GsSameIds
<1>17. GsTasksOk' /\ GsRedirectsOk'
  BY <1>11, <1>12, GsTasksKept, GsRedirectsKept
<1>18. \A k \in GsRegistered : InstalledAs(gsRow[k].app) = n => k = i
  <2>1. ASSUME NEW k \in GsRegistered, InstalledAs(gsRow[k].app) = n PROVE k = i
    <3>1. gsApp[n] = gsRow[k].app
      BY <1>1, <2>1, GsNones, GsRowTyped DEF GsStrong, GsHubTrue
    <3> QED
      BY <3>1 DEF GsGone, GsStrong, GsOnce
  <2> QED
    BY <2>1
<1>19. GsRowsOk'
  <2>1. ASSUME NEW k \in GsRegistered PROVE GsRowOk(k)'
    <3>1. CASE k # i
      <4>1. gsHub[gsRow[k].app].inst # n
        BY <1>18, <3>1 DEF InstalledAs
      <4>2. k \in GsIds
        BY DEF GsRegistered
      <4> QED
        BY <1>5, <1>7, <1>8, <1>11, <3>1, <4>1, <4>2, GsRowKept
    <3>2. CASE k = i
      <4>1. gsRow'[k].inst \in Installations'
        BY <1>3, <1>5, <1>8, <3>2
      <4>2. PICK a \in GsApps : a = gsApp[n]
        BY <1>1
      <4>3. gsApp'[gsRow'[k].inst] = a
        BY <1>3, <1>5, <1>8, <3>2, <4>2
      <4>4. gsApp'[gsRow'[k].inst] = gsRow'[k].app
              \/ (k \in gsReused' /\ GsGone(a)')
        BY <1>3, <1>5, <1>7, <1>10, <3>2, <4>2, <4>3
      <4>5. GsGone(a)' => GsGone(gsApp[gsRow[k].inst])'
        BY <4>3
      <4>6. k \notin gsStale' => gsRow'[k].inst = InstalledAs(gsRow[k].app)'
        BY <1>3, <1>5, <1>7, <1>8, <3>2 DEF InstalledAs
      <4> QED
        BY <4>1, <4>4, <4>5, <4>6 DEF GsRowOk
    <3> QED
      BY <3>1, <3>2
  <2> QED
    BY <1>6, <2>1 DEF GsRowsOk
<1>20. GsToldOk'
  <2>1. ASSUME NEW m \in gsTold' PROVE GsSpent(gsApp[m])'
    <3>1. CASE m \in gsTold
      BY <1>11, <3>1, GsToldKept
    <3>2. CASE m = n
      <4>1. PICK a \in GsApps : a = gsApp[n] /\ GsSpent(a)
        BY <1>1 DEF GsStrong, GsOnce, GsGone
      <4>2. GsSpent(a)'
        BY <1>9, <4>1
      <4> QED
        BY <1>8, <3>2, <4>1, <4>2 DEF GsSpent
    <3> QED
      BY <1>7, <2>1, <3>1, <3>2
  <2> QED
    BY <2>1 DEF GsToldOk
<1> QED
  BY <1>13, <1>14, <1>15, <1>16, <1>17, <1>19, <1>20 DEF GsStrong

LEMMA InstallSignedKeeps ==
    ASSUME GsStrong, NEW r \in gsRedirects, InstallSigned(r) PROVE GsStrong'
<1>1. PICK i \in SignedFor(r) : Record(i, r.inst)
  BY DEF InstallSigned
<1>2. i \in GsRegistered /\ i = r.id /\ i # None /\ i \in GsIds
  BY GsNones DEF SignedFor, GsRegistered, GsIds
<1>3. r.inst \in Installations /\ GsMeans(gsApp[r.inst], i)
  BY <1>2 DEF GsStrong, GsRedirectsOk, GsRedirectOk
<1>4. gsApp[r.inst] = gsRow[i].app \/ (i \in gsReused /\ GsGone(gsApp[r.inst]))
  BY <1>2, <1>3 DEF GsMeans
<1>5. GsTasksLess
  BY GsSameLess DEF InstallSigned, GsStrong
<1>6. UNCHANGED <<gsOwner, gsHub, gsApp>> /\ gsRedirects' \subseteq gsRedirects
  BY DEF InstallSigned
<1> QED
  BY <1>1, <1>2, <1>3, <1>4, <1>5, <1>6, RecordKeeps

LEMMA MatchSourceKeeps ==
    ASSUME GsStrong, NEW j \in GsRequests, MatchSource(j) PROVE GsStrong'
<1>1. /\ GsEnd(j) /\ UNCHANGED <<gsOwner, gsHub, gsApp>> /\ gsRedirects' \subseteq gsRedirects
      /\ GsTaskOk(gsTask[j]) /\ gsTask[j].pc = "ask" /\ gsTask[j].kind = "install"
  BY DEF MatchSource, GsStrong, GsTasksOk
<1>2. GsTasksLess
  BY <1>1, GsEndLess DEF GsStrong
<1>3. CASE UNCHANGED <<gsRow, gsHistory>>
  BY <1>1, <1>3, GsEndStep
<1>4. ASSUME NEW i \in GsRegistered, AnswersFor(gsRow[i].app, gsTask[j].inst), Record(i, gsTask[j].inst)
      PROVE  GsStrong'
  <2>1. PICK n \in Installations : n = gsTask[j].inst
    BY <1>1 DEF GsTaskOk
  <2>2. n # None /\ InstalledAs(gsRow[i].app) = n /\ gsRow[i].app \in GsApps
    BY <1>4, <2>1, GsNones, GsAppTyped, GsRowTyped DEF AnswersFor, GsStrong
  <2>3. gsApp[n] = gsRow[i].app
    BY <2>2 DEF GsStrong, GsHubTrue
  <2> QED
    BY <1>1, <1>2, <1>4, <2>1, <2>3, RecordKeeps
<1> QED
  BY <1>3, <1>4 DEF MatchSource

LEMMA RefreshWritesKeeps ==
    ASSUME GsStrong, NEW j \in GsRequests, RefreshWrites(j) PROVE GsStrong'
<1>1. /\ GsEnd(j) /\ UNCHANGED <<gsOwner, gsHub, gsApp>> /\ gsRedirects' \subseteq gsRedirects
      /\ GsTaskOk(gsTask[j]) /\ gsTask[j].pc = "write" /\ gsTask[j].kind = "refresh"
  BY DEF RefreshWrites, GsStrong, GsTasksOk
<1>2. GsTasksLess
  BY <1>1, GsEndLess DEF GsStrong
<1>3. CASE gsTask[j].id \notin GsRegistered
  BY <1>1, <1>3, GsEndStep DEF RefreshWrites
<1>4. CASE gsTask[j].id \in GsRegistered
  <2>1. PICK i \in GsRegistered : i = gsTask[j].id
    BY <1>4
  <2> PICK n : n = gsTask[j].inst
    OBVIOUS
  <2>2. Record(i, n)
    BY <1>4, <2>1 DEF RefreshWrites
  <2>3. PICK a \in GsApps : a = gsTask[j].app /\ GsMeans(a, i) /\ GsOfApp(n, a)
    BY <1>1, <2>1 DEF GsTaskOk
  <2>4. n \in Installations /\ (gsApp[n] = gsRow[i].app \/ (i \in gsReused /\ GsGone(gsApp[n])))
    BY <2>3 DEF GsMeans, GsOfApp
  <2> QED
    BY <1>1, <1>2, <2>2, <2>4, RecordKeeps
<1> QED
  BY <1>3, <1>4

LEMMA SourceRefusedKeeps ==
    ASSUME GsStrong, NEW j \in GsRequests, SourceRefused(j) PROVE GsStrong'
<1>1. /\ GsEnd(j) /\ UNCHANGED <<gsOwner, gsHub, gsApp, gsRow, gsHistory>>
      /\ gsRedirects' \subseteq gsRedirects
  BY DEF SourceRefused
<1> QED
  BY <1>1, GsEndStep

\* Steps at GitHub, on redirects, and deletions: no handler moves.
LEMMA GsQuietKeeps ==
    ASSUME GsStrong, UNCHANGED <<gsOwner, gsTask, gsTold, gsReused, gsStale>>,
           gsHub' \in [GsApps -> GsHubRecord], \A a \in GsApps : gsHub'[a].code = gsHub[a].code,
           \A a \in GsApps : gsHub'[a].inst # gsHub[a].inst => gsHub'[a].inst \notin gsTold,
           GsHubTrue',
           \E last \in Nat : gsApp' \in [1 .. last -> GsApps],
           \A n \in Installations : n \in Installations' /\ gsApp'[n] = gsApp[n],
           gsRow' \in [GsIds -> GsRows \cup {None}],
           \A i \in GsRegistered' : i \in GsRegistered /\ gsRow'[i] = gsRow[i],
           Greatest(GsRegistered)' <= Greatest(GsRegistered),
           Greatest(GsRegistered) \in Nat, Greatest(GsRegistered)' \in Nat,
           gsRedirects' \subseteq [inst : Nat, id : GsIds \cup {None}],
           \A r \in gsRedirects' \ gsRedirects :
             GsOnward /\ GsMeansStays => GsRedirectOk(r)'
    PROVE  GsStrong'
<1>1. GsTasksLess
  BY GsSameLess DEF GsStrong
<1>2. \A a \in GsApps : GsSpent(a) => GsSpent(a)'
  BY <1>1, GsSpentStays
<1>3. \A i \in GsRegistered' : i \in GsRegistered /\ gsRow'[i].app = gsRow[i].app
  OBVIOUS
<1>4. \A a \in GsApps : GsGone(a) => GsGone(a)'
  BY <1>2, <1>3 DEF GsGone
<1>5. GsOnward
  BY <1>2, <1>4 DEF GsOnward
<1>6. GsMeansStays
  <2>1. ASSUME NEW a \in GsApps, NEW i \in GsIds, GsMeans(a, i) PROVE GsMeans(a, i)'
    <3>1. i \in GsRegistered' \ gsReused' => gsRow'[i].app = a
      BY <1>3, <2>1 DEF GsMeans
    <3>2. CASE GsGone(a)
      BY <1>4, <3>1, <3>2 DEF GsMeans
    <3>3. CASE i \in GsRegistered /\ gsRow[i].app = a
      <4>1. CASE i \in GsRegistered'
        BY <1>3, <3>1, <3>3, <4>1 DEF GsMeans
      <4>2. CASE i \notin GsRegistered'
        <5>1. GsSpent(a)'
          BY <1>2, <3>3 DEF GsStrong, GsOnce
        <5>2. \A k \in GsRegistered' : gsRow'[k].app # a
          BY <1>3, <3>3, <4>2 DEF GsStrong, GsOnce
        <5>3. GsGone(a)'
          BY <5>1, <5>2 DEF GsGone
        <5> QED
          BY <3>1, <5>3 DEF GsMeans
      <4> QED
        BY <4>1, <4>2
    <3> QED
      BY <2>1, <3>2, <3>3 DEF GsMeans
  <2> QED
    BY <2>1 DEF GsMeansStays
<1>7. GsShapes'
  <2>1. gsTold \subseteq Installations'
    BY DEF GsStrong, GsShapes
  <2> QED
    BY <2>1 DEF GsStrong, GsShapes
<1>8. GsOnce'
  BY <1>1, <1>3, <1>5, GsOnceKept
<1>9. GsIdsEnough'
  <2>1. PICK m \in Nat, n \in Nat : m = Greatest(GsRegistered) /\ n = Greatest(GsRegistered)'
    OBVIOUS
  <2>2. n <= m /\ m <= Cardinality({a \in GsApps : GsSpent(a)})
    BY <2>1 DEF GsStrong, GsIdsEnough
  <2>3. n <= Cardinality({a \in GsApps : GsSpent(a)'})
    BY <1>5, <2>2, GsCountGrows
  <2> QED
    BY <2>1, <2>3 DEF GsIdsEnough
<1>10. GsTasksOk'
  BY <1>1, <1>5, <1>6, GsTasksKept
<1>11. GsRedirectsOk'
  <2>1. ASSUME NEW r \in gsRedirects' PROVE GsRedirectOk(r)'
    BY <1>5, <1>6, GsRedirectStays
  <2> QED
    BY <2>1 DEF GsRedirectsOk
<1>12. GsRowsOk'
  <2>1. ASSUME NEW i \in GsRegistered' PROVE GsRowOk(i)'
    <3>1. gsRow[i].app \in GsApps
      BY GsRowTyped DEF GsStrong
    <3> QED
      BY <1>5, <3>1, GsRowKept
  <2> QED
    BY <2>1 DEF GsRowsOk
<1>13. GsToldOk'
  <2>1. ASSUME NEW n \in gsTold' PROVE GsSpent(gsApp[n])'
    BY <1>5, GsToldKept
  <2> QED
    BY <2>1 DEF GsToldOk
<1> QED
  BY <1>7, <1>8, <1>9, <1>10, <1>11, <1>12, <1>13 DEF GsStrong

LEMMA GsGreatestTyped ==
    ASSUME NEW T \in SUBSET GsIds
    PROVE  /\ Greatest(T) \in Nat /\ \A i \in T : i <= Greatest(T)
           /\ T # {} => Greatest(T) \in T
<1>1. PICK bound \in Nat : bound = Cardinality(GsApps)
  BY GsFinite
<1>2. T \in SUBSET (0 .. bound)
  BY <1>1 DEF GsIds
<1>3. CASE T = {}
  BY <1>3 DEF Greatest
<1>4. CASE T # {}
  <2>1. Greatest(T) \in T /\ \A i \in T : i <= Greatest(T)
    BY <1>2, <1>4, GsGreatestIn
  <2>2. \A i \in T : i \in Nat
    BY <1>2
  <2> QED
    BY <2>1, <2>2
<1> QED
  BY <1>3, <1>4

LEMMA GsRegisteredTyped == GsRegistered \in SUBSET GsIds /\ GsRegistered' \in SUBSET GsIds
  BY DEF GsRegistered, GsIds

LEMMA GsGreatestPrimed ==
    /\ Greatest(GsRegistered) \in Nat /\ Greatest(GsRegistered)' \in Nat
    /\ \A i \in GsRegistered : i <= Greatest(GsRegistered)
    /\ GsRegistered' # {} => Greatest(GsRegistered)' \in GsRegistered'
<1>1. PICK T \in SUBSET GsIds : T = GsRegistered'
  BY GsRegisteredTyped
<1>2. Greatest(T) = Greatest(GsRegistered)'
  BY <1>1 DEF Greatest
<1> QED
  BY <1>1, <1>2, GsRegisteredTyped, GsGreatestTyped

LEMMA GsGreatestShrinks ==
    ASSUME GsRegistered' \subseteq GsRegistered
    PROVE  Greatest(GsRegistered)' <= Greatest(GsRegistered)
<1>1. CASE GsRegistered' = {}
  <2>1. Greatest(GsRegistered)' = 0
    BY <1>1 DEF Greatest
  <2> QED
    BY <2>1, GsGreatestPrimed
<1>2. CASE GsRegistered' # {}
  BY <1>2, GsGreatestPrimed
<1> QED
  BY <1>1, <1>2

LEMMA GsHubStays ==
    ASSUME GsShapes, gsHub' = gsHub, gsApp' = gsApp, GsHubTrue
    PROVE  /\ GsHubTrue' /\ gsHub' \in [GsApps -> GsHubRecord]
           /\ \A a \in GsApps : gsHub'[a].code = gsHub[a].code /\ gsHub'[a].inst = gsHub[a].inst
           /\ \E last \in Nat : gsApp' \in [1 .. last -> GsApps]
           /\ \A n \in Installations : n \in Installations' /\ gsApp'[n] = gsApp[n]
<1>1. GsHubTrue'
  BY DEF GsHubTrue, InstalledAs, Installations
<1> QED
  BY <1>1 DEF GsShapes, Installations

LEMMA GsRowsStay ==
    ASSUME GsShapes, gsRow' = gsRow
    PROVE  /\ gsRow' \in [GsIds -> GsRows \cup {None}]
           /\ \A i \in GsRegistered' : i \in GsRegistered /\ gsRow'[i] = gsRow[i]
           /\ Greatest(GsRegistered)' <= Greatest(GsRegistered)
<1>1. GsRegistered' = GsRegistered
  BY DEF GsRegistered
<1> QED
  BY <1>1, GsGreatestShrinks DEF GsShapes

LEMMA RedirectLostKeeps ==
    ASSUME GsStrong, NEW r \in gsRedirects, RedirectLost(r) PROVE GsStrong'
<1>1. /\ UNCHANGED <<gsOwner, gsTask, gsTold, gsReused, gsStale>> /\ gsHub' = gsHub /\ gsApp' = gsApp
      /\ gsRow' = gsRow /\ gsRedirects' \subseteq gsRedirects
  BY DEF RedirectLost, gsHistory
<1>2. gsRedirects' \subseteq [inst : Nat, id : GsIds \cup {None}]
  BY <1>1 DEF GsStrong, GsShapes
<1>3. GsShapes /\ GsHubTrue
  BY DEF GsStrong
<1> QED
  BY <1>1, <1>2, <1>3, GsHubStays, GsRowsStay, GsGreatestPrimed, GsQuietKeeps

LEMMA DeleteSourceKeeps ==
    ASSUME GsStrong, NEW i \in GsIds, DeleteSource(i) PROVE GsStrong'
<1>1. /\ UNCHANGED <<gsOwner, gsTask, gsTold, gsReused, gsStale>> /\ gsHub' = gsHub /\ gsApp' = gsApp
      /\ gsRow' = [gsRow EXCEPT ![i] = None] /\ gsRedirects' = gsRedirects
  BY DEF DeleteSource, gsHistory
<1>2. gsRedirects' \subseteq [inst : Nat, id : GsIds \cup {None}]
  BY <1>1 DEF GsStrong, GsShapes
<1>3. GsShapes /\ GsHubTrue
  BY DEF GsStrong
<1>4. gsRow' \in [GsIds -> GsRows \cup {None}]
  BY <1>1, <1>3 DEF GsShapes
<1>5. \A k \in GsRegistered' : k \in GsRegistered /\ gsRow'[k] = gsRow[k]
  BY <1>1, <1>3 DEF GsShapes, GsRegistered
<1>6. Greatest(GsRegistered)' <= Greatest(GsRegistered)
  BY <1>5, GsGreatestShrinks
<1> QED
  BY <1>1, <1>2, <1>3, <1>4, <1>5, <1>6, GsHubStays, GsGreatestPrimed, GsQuietKeeps

LEMMA HubUninstallsKeeps ==
    ASSUME GsStrong, NEW a \in GsApps, HubUninstalls(a) PROVE GsStrong'
<1>1. /\ UNCHANGED <<gsOwner, gsTask, gsTold, gsReused, gsStale>> /\ gsApp' = gsApp
      /\ gsRow' = gsRow /\ gsRedirects' = gsRedirects
      /\ gsHub' = [gsHub EXCEPT ![a].inst = None]
  BY DEF HubUninstalls, gsHistory
<1>2. gsRedirects' \subseteq [inst : Nat, id : GsIds \cup {None}]
  BY <1>1 DEF GsStrong, GsShapes
<1>3. GsShapes /\ GsHubTrue
  BY DEF GsStrong
<1>4. PICK hub : hub = [gsHub[a] EXCEPT !.inst = None]
  OBVIOUS
<1>5. hub \in GsHubRecord /\ hub.inst = None /\ hub.code = gsHub[a].code
      /\ gsHub' = [gsHub EXCEPT ![a] = hub]
  BY <1>1, <1>3, <1>4 DEF GsShapes, GsHubRecord, GsNumbers
<1>6. /\ gsHub' \in [GsApps -> GsHubRecord] /\ gsHub'[a] = hub
      /\ \A b \in GsApps : b # a => gsHub'[b] = gsHub[b]
  BY <1>3, <1>5 DEF GsShapes
<1>7. None \notin gsTold
  BY <1>3, GsNones, GsAppTyped DEF GsShapes
<1>8. /\ \A b \in GsApps : gsHub'[b].code = gsHub[b].code
      /\ \A b \in GsApps : gsHub'[b].inst # gsHub[b].inst => gsHub'[b].inst \notin gsTold
  BY <1>5, <1>6, <1>7
<1>9. GsHubTrue'
  BY <1>1, <1>3, <1>5, <1>6 DEF GsHubTrue, InstalledAs, Installations
<1>10. /\ \E last \in Nat : gsApp' \in [1 .. last -> GsApps]
       /\ \A n \in Installations : n \in Installations' /\ gsApp'[n] = gsApp[n]
  BY <1>1, <1>3 DEF GsShapes, Installations
<1> QED
  BY <1>1, <1>2, <1>3, <1>6, <1>8, <1>9, <1>10, GsRowsStay, GsGreatestPrimed, GsQuietKeeps

LEMMA GreatestUpTo ==
    ASSUME NEW last \in Nat PROVE Greatest(1 .. last) = last
<1>1. CASE last = 0
  BY <1>1 DEF Greatest
<1>2. CASE last # 0
  <2>1. 1 .. last \in SUBSET (0 .. last) /\ last \in 1 .. last
    BY <1>2
  <2>2. Greatest(1 .. last) \in 1 .. last /\ \A n \in 1 .. last : n <= Greatest(1 .. last)
    BY <2>1, GsGreatestIn
  <2>3. PICK m \in 1 .. last : m = Greatest(1 .. last)
    BY <2>2
  <2> QED
    BY <2>1, <2>2, <2>3
<1> QED
  BY <1>1, <1>2

LEMMA HubInstallsKeeps ==
    ASSUME GsStrong, NEW a \in GsApps, HubInstalls(a) PROVE GsStrong'
<1>1. GsShapes /\ GsHubTrue
  BY DEF GsStrong
<1>2. PICK last \in Nat : gsApp \in [1 .. last -> GsApps] /\ Installations = 1 .. last
  BY <1>1 DEF GsShapes, Installations
<1>3. PICK n \in Nat : n = 1 + last /\ n = 1 + Greatest(Installations)
  BY <1>2, GreatestUpTo
<1>4. /\ UNCHANGED <<gsOwner, gsTask, gsTold, gsReused, gsStale>> /\ gsRow' = gsRow
      /\ gsHub' = [gsHub EXCEPT ![a].inst = n]
      /\ gsApp' = [m \in 1 .. n |-> IF m = n THEN a ELSE gsApp[m]]
      /\ \E i \in {None} \cup {m \in GsRegistered : gsRow[m].app = a} :
           gsRedirects' = gsRedirects \cup {[inst |-> n, id |-> i]}
  BY <1>3 DEF HubInstalls, gsHistory
<1>5. PICK hub : hub = [gsHub[a] EXCEPT !.inst = n]
  OBVIOUS
<1>6. hub \in GsHubRecord /\ hub.inst = n /\ hub.code = gsHub[a].code
      /\ gsHub' = [gsHub EXCEPT ![a] = hub]
  BY <1>1, <1>4, <1>5 DEF GsShapes, GsHubRecord, GsNumbers
<1>7. /\ gsHub' \in [GsApps -> GsHubRecord] /\ gsHub'[a] = hub
      /\ \A b \in GsApps : b # a => gsHub'[b] = gsHub[b]
  BY <1>1, <1>6 DEF GsShapes
<1>8. n \notin gsTold
  BY <1>1, <1>2, <1>3 DEF GsShapes
<1>9. /\ \A b \in GsApps : gsHub'[b].code = gsHub[b].code
      /\ \A b \in GsApps : gsHub'[b].inst # gsHub[b].inst => gsHub'[b].inst \notin gsTold
  BY <1>6, <1>7, <1>8
<1>10. gsApp' \in [1 .. n -> GsApps] /\ Installations' = 1 .. n /\ gsApp'[n] = a
  BY <1>2, <1>3, <1>4 DEF Installations
<1>11. \A m \in Installations : m \in Installations' /\ gsApp'[m] = gsApp[m]
  BY <1>2, <1>3, <1>4, <1>10
<1>12. n \in Installations'
  BY <1>3, <1>10
<1>13. GsHubTrue'
  BY <1>1, <1>6, <1>7, <1>10, <1>11, <1>12 DEF GsHubTrue, InstalledAs
<1>14. PICK i \in {None} \cup {m \in GsRegistered : gsRow[m].app = a} :
          gsRedirects' = gsRedirects \cup {[inst |-> n, id |-> i]}
  BY <1>4
<1>15. i \in GsIds \cup {None}
  BY DEF GsRegistered
<1>16. PICK r : r = [inst |-> n, id |-> i]
  OBVIOUS
<1>17. r \in [inst : Nat, id : GsIds \cup {None}] /\ r.inst = n /\ r.id = i
  BY <1>15, <1>16
<1>18. gsRedirects' = gsRedirects \cup {r}
  BY <1>14, <1>16
<1>19. gsRedirects' \subseteq [inst : Nat, id : GsIds \cup {None}]
  BY <1>1, <1>17, <1>18 DEF GsShapes
<1>20. i # None => i \in GsRegistered' /\ gsRow'[i].app = a
  BY <1>4, <1>14 DEF GsRegistered
<1>21. i # None => GsMeans(a, i)'
  BY <1>20 DEF GsMeans
<1>22. GsRedirectOk(r)'
  BY <1>10, <1>12, <1>17, <1>21 DEF GsRedirectOk, GsMeans
<1>23. \A x \in gsRedirects' \ gsRedirects : GsRedirectOk(x)'
  BY <1>18, <1>22
<1>24. \E m \in Nat : gsApp' \in [1 .. m -> GsApps]
  BY <1>10
<1> QED
  BY <1>1, <1>4, <1>7, <1>9, <1>11, <1>13, <1>19, <1>23, <1>24, GsRowsStay, GsGreatestPrimed,
     GsQuietKeeps

\* The callback registers its app: the app has had no row, and no number.
LEMMA AddSourceKeeps ==
    ASSUME GsStrong, NEW j \in GsRequests, AddSource(j) PROVE GsStrong'
<1>1. /\ GsShapes /\ GsHubTrue /\ GsOnce /\ GsToldOk /\ gsTask[j] \in GsTaskRecord
      /\ GsTaskOk(gsTask[j]) /\ gsTask[j].pc = "write" /\ gsTask[j].kind = "callback" /\ GsEnd(j)
  BY DEF AddSource, GsStrong, GsShapes, GsTasksOk
<1>2. PICK a \in GsApps : a = gsTask[j].app /\ ~gsHub[a].code
  BY <1>1 DEF GsTaskOk
<1>3. PICK n \in GsNumbers : n = gsTask[j].inst /\ (n # None => GsOfApp(n, a))
  BY <1>1, <1>2 DEF GsTaskOk, GsTaskRecord
<1>4. GsCalls(gsTask[j], a)
  BY <1>1, <1>2 DEF GsCalls
<1>5. ~GsSpent(a)
  BY <1>4 DEF GsSpent
<1>6. PICK top \in Nat : top = Greatest(GsRegistered)
  BY GsGreatestPrimed
<1>7. PICK i \in Nat : i = 1 + top
  BY <1>6
<1>8. PICK row : row = [owner |-> gsOwner[a], app |-> a, inst |-> n]
  OBVIOUS
<1>9. row \in GsRows /\ row.app = a /\ row.inst = n /\ row # None
  <2>1. gsOwner[a] \in GsAccounts
    BY <1>1 DEF GsShapes, GsAccounts
  <2>2. row \in GsRows
    BY <1>8, <2>1 DEF GsRows
  <2>3. row.app = a /\ row.inst = n
    BY <1>8
  <2> QED
    BY <2>2, <2>3, GsNones
<1>10. /\ UNCHANGED <<gsOwner, gsHub, gsApp, gsRedirects>>
       /\ gsRow' = [gsRow EXCEPT ![i] = row]
       /\ gsTold' = gsTold \cup ({n} \ {None})
       /\ gsStale' = IF n \in {None, InstalledAs(a)} THEN gsStale \ {i} ELSE gsStale \cup {i}
       /\ gsReused' = IF Meant(i) THEN gsReused \cup {i} ELSE gsReused
  BY <1>2, <1>3, <1>6, <1>7, <1>8 DEF AddSource
<1>11. GsTasksLess
  BY <1>1, GsEndLess
<1>12. \A b \in GsApps : GsSpent(b) => GsSpent(b)' /\ b # a
  BY <1>5, <1>10, <1>11, GsSpentStays
<1>13. GsSpent(a)'
  <2>1. gsTask'[j].pc = "off"
    <3>1. PICK t \in GsTaskRecord : t.pc = "off" /\ gsTask' = [gsTask EXCEPT ![j] = t]
      BY <1>1, GsEndTask
    <3> QED
      BY <1>1, <3>1 DEF GsShapes
  <2>2. ASSUME NEW h \in GsRequests PROVE ~GsCalls(gsTask'[h], a)
    <3>1. CASE h = j
      BY <2>1, <3>1 DEF GsCalls
    <3>2. CASE h # j
      BY <1>1, <1>4, <1>11, <3>2, GsCallsLess DEF GsOnce
    <3> QED
      BY <3>1, <3>2
  <2>3. \A h \in GsRequests : ~GsCalls(gsTask[h], a)'
    BY <2>2 DEF GsCalls
  <2> QED
    BY <1>2, <1>10, <2>3 DEF GsSpent
<1>14. i <= Cardinality({b \in GsApps : GsSpent(b)'}) /\ i \in GsIds
  <2>1. PICK before : before = {b \in GsApps : GsSpent(b)}
    OBVIOUS
  <2>2. PICK after : after = {b \in GsApps : GsSpent(b)'}
    OBVIOUS
  <2>3. before \cup {a} \subseteq after /\ after \subseteq GsApps /\ a \notin before
    BY <1>5, <1>12, <1>13, <2>1, <2>2
  <2>4. before \in SUBSET GsApps /\ before \cup {a} \in SUBSET GsApps
    BY <2>3
  <2>5. IsFiniteSet(before) /\ IsFiniteSet(after) /\ IsFiniteSet(GsApps)
    BY <2>3, <2>4, GsFinite, FS_Subset
  <2>6. Cardinality(before \cup {a}) = Cardinality(before) + 1 /\ Cardinality(before) \in Nat
    BY <2>3, <2>5, FS_AddElement, FS_CardinalityType
  <2>7. /\ Cardinality(before \cup {a}) <= Cardinality(after)
        /\ Cardinality(after) <= Cardinality(GsApps)
        /\ Cardinality(after) \in Nat /\ Cardinality(GsApps) \in Nat
    BY <2>3, <2>5, FS_Subset, FS_CardinalityType
  <2>8. top <= Cardinality(before)
    BY <1>6, <2>1 DEF GsStrong, GsIdsEnough
  <2>9. i <= Cardinality(after) /\ i <= Cardinality(GsApps)
    BY <1>7, <2>6, <2>7, <2>8
  <2> QED
    BY <1>7, <2>2, <2>7, <2>9 DEF GsIds
<1>15. i \notin GsRegistered
  <2>1. \A k \in GsRegistered : k <= top /\ k \in Nat
    BY <1>6, GsGreatestPrimed DEF GsRegistered, GsIds
  <2> QED
    BY <1>7, <2>1
<1>16. /\ gsRow' \in [GsIds -> GsRows \cup {None}] /\ gsRow'[i] = row
       /\ \A k \in GsIds : k # i => gsRow'[k] = gsRow[k]
  BY <1>1, <1>9, <1>10, <1>14 DEF GsShapes
<1>17. GsRegistered' = GsRegistered \cup {i} /\ \A k \in GsRegistered : k # i /\ gsRow'[k] = gsRow[k]
  BY <1>9, <1>14, <1>15, <1>16 DEF GsRegistered
<1>18. \A b \in GsApps : GsGone(b) => GsGone(b)'
  <2>1. ASSUME NEW b \in GsApps, GsGone(b) PROVE GsGone(b)'
    <3>1. GsSpent(b)' /\ b # a
      BY <1>12, <2>1 DEF GsGone
    <3>2. \A k \in GsRegistered' : gsRow'[k].app # b
      BY <1>9, <1>16, <1>17, <2>1, <3>1 DEF GsGone
    <3> QED
      BY <3>1, <3>2 DEF GsGone
  <2> QED
    BY <2>1
<1>19. Installations' = Installations
  BY <1>10 DEF Installations
<1>20. GsOnward
  BY <1>10, <1>12, <1>18, <1>19 DEF GsOnward
<1>21. gsReused \subseteq gsReused' /\ gsReused' \subseteq gsReused \cup {i} /\ (Meant(i) => i \in gsReused')
  BY <1>10
<1>22. GsMeansStays
  <2>1. ASSUME NEW b \in GsApps, NEW k \in GsIds, GsMeans(b, k), Meant(k) PROVE GsMeans(b, k)'
    <3>1. (k \in GsRegistered' /\ gsRow'[k].app = b) \/ GsGone(b)'
      BY <1>17, <1>18, <2>1 DEF GsMeans
    <3>2. k \in GsRegistered' \ gsReused' => gsRow'[k].app = b
      BY <1>17, <1>21, <2>1 DEF GsMeans
    <3> QED
      BY <3>1, <3>2 DEF GsMeans
  <2> QED
    BY <2>1 DEF GsMeansStays
<1>23. n # None => n \in Installations /\ gsApp[n] = a /\ n \in Nat
  BY <1>1, <1>3, GsAppTyped DEF GsOfApp
<1>24. GsShapes'
  <2>1. gsTold' \subseteq Installations' /\ gsReused' \subseteq GsIds /\ gsStale' \subseteq GsIds
    BY <1>1, <1>10, <1>14, <1>19, <1>21, <1>23 DEF GsShapes
  <2> QED
    BY <1>1, <1>10, <1>11, <1>16, <2>1 DEF GsShapes, GsTasksLess
<1>25. GsHubTrue'
  BY <1>1, <1>10, <1>19 DEF GsHubTrue, InstalledAs
<1>26. GsOnce'
  <2>1. ASSUME NEW k \in GsRegistered' PROVE GsSpent(gsRow[k].app)'
    <3>1. CASE k = i
      <4>1. gsRow'[k].app = a
        BY <1>9, <1>16, <3>1
      <4> QED
        BY <1>13, <4>1 DEF GsSpent
    <3>2. CASE k # i
      <4>1. PICK b \in GsApps : b = gsRow[k].app /\ b = gsRow'[k].app /\ GsSpent(b)
        BY <1>1, <1>17, <3>2, GsRowTyped DEF GsOnce
      <4>2. GsSpent(b)'
        BY <1>12, <4>1
      <4> QED
        BY <4>1, <4>2 DEF GsSpent
    <3> QED
      BY <3>1, <3>2
  <2>2. \A k \in GsRegistered : GsSpent(gsRow[k].app) /\ gsRow[k].app # a
    BY <1>1, <1>5 DEF GsOnce
  <2>3. ASSUME NEW k \in GsRegistered', NEW m \in GsRegistered', gsRow'[k].app = gsRow'[m].app
        PROVE  k = m
    <3>1. CASE k \in GsRegistered /\ m \in GsRegistered
      BY <1>1, <1>17, <2>3, <3>1 DEF GsOnce
    <3>2. CASE k \notin GsRegistered \/ m \notin GsRegistered
      BY <1>9, <1>16, <1>17, <2>2, <2>3, <3>2
    <3> QED
      BY <3>1, <3>2
  <2>4. \A b \in GsApps, h, k \in GsRequests :
          GsCalls(gsTask'[h], b) /\ GsCalls(gsTask'[k], b) => h = k
    BY <1>1, <1>11, GsCallsLess DEF GsOnce
  <2>5. \A b \in GsApps, h, k \in GsRequests :
          GsCalls(gsTask[h], b)' /\ GsCalls(gsTask[k], b)' => h = k
    BY <2>4 DEF GsCalls
  <2> QED
    BY <2>1, <2>3, <2>5 DEF GsOnce
<1>27. GsIdsEnough'
  <2>1. \A k \in GsRegistered' : k \in Nat /\ k <= i
    <3>1. \A k \in GsRegistered : k <= top /\ k \in Nat
      BY <1>6, GsGreatestPrimed DEF GsRegistered, GsIds
    <3>2. \A k \in GsRegistered : k \in Nat /\ k <= i
      BY <1>7, <3>1
    <3> QED
      BY <1>17, <3>2
  <2>2. PICK g \in GsRegistered' : g = Greatest(GsRegistered)'
    BY <1>17, GsGreatestPrimed
  <2>3. g <= i /\ g \in Nat /\ Cardinality({b \in GsApps : GsSpent(b)'}) \in Nat
    BY <1>20, <2>1, <2>2, GsCountGrows
  <2>4. g <= Cardinality({b \in GsApps : GsSpent(b)'})
    BY <1>14, <2>3
  <2> QED
    BY <2>2, <2>4 DEF GsIdsEnough
<1>28. GsTasksOk' /\ GsRedirectsOk'
  BY <1>10, <1>11, <1>20, <1>22, GsTasksKept, GsRedirectsKept
<1>29. GsRowsOk'
  <2>1. ASSUME NEW k \in GsRegistered PROVE GsRowOk(k)'
    <3>1. PICK b \in GsApps : b = gsRow[k].app /\ b # a
      BY <1>1, <1>5, GsRowTyped DEF GsOnce
    <3>2. gsHub[b].inst = n => n = None
      BY <1>1, <1>23, <3>1 DEF GsHubTrue, InstalledAs
    <3>3. gsHub[b].inst \in gsTold' => gsHub[b].inst \in gsTold
      BY <1>10, <3>2
    <3>4. k # i /\ k \in GsIds /\ gsHub'[b].inst = gsHub[b].inst
      BY <1>10, <1>17, <2>1 DEF GsRegistered
    <3>5. k \notin gsStale' => k \notin gsStale
      BY <1>10, <3>4
    <3> QED
      BY <1>17, <1>20, <1>21, <3>1, <3>3, <3>4, <3>5, GsRowKept
  <2>2. GsRowOk(i)'
    <3>1. gsRow'[i].inst = n /\ gsRow'[i].app = a
      BY <1>9, <1>16
    <3>2. n # None => n \in Installations' /\ gsApp'[n] = a
      BY <1>10, <1>19, <1>23
    <3>3. ASSUME i \notin gsStale', gsHub'[a].inst \in gsTold' PROVE n = gsHub'[a].inst
      <4>1. n \in {None, gsHub[a].inst} /\ gsHub'[a].inst = gsHub[a].inst
        BY <1>10, <3>3 DEF InstalledAs
      <4>2. CASE n = None
        <5>1. gsHub[a].inst \in gsTold
          BY <1>10, <3>3, <4>1, <4>2
        <5>2. gsHub[a].inst # None /\ gsApp[gsHub[a].inst] = a
          BY <1>1, <5>1, GsNones, GsAppTyped DEF GsShapes, GsHubTrue, InstalledAs
        <5> QED
          BY <1>1, <1>5, <5>1, <5>2 DEF GsToldOk
      <4> QED
        BY <4>1, <4>2
    <3>4. InstalledAs(gsRow[i].app)' = gsHub'[a].inst
      BY <3>1 DEF InstalledAs
    <3> QED
      BY <3>1, <3>2, <3>3, <3>4 DEF GsRowOk
  <2> QED
    BY <1>17, <2>1, <2>2 DEF GsRowsOk
<1>30. GsToldOk'
  <2>1. ASSUME NEW m \in gsTold' PROVE GsSpent(gsApp[m])'
    <3>1. CASE m \in gsTold
      BY <1>20, <3>1, GsToldKept
    <3>2. CASE m = n /\ n # None
      BY <1>10, <1>13, <1>23, <3>2 DEF GsSpent
    <3> QED
      BY <1>10, <2>1, <3>1, <3>2
  <2> QED
    BY <2>1 DEF GsToldOk
<1> QED
  BY <1>24, <1>25, <1>26, <1>27, <1>28, <1>29, <1>30 DEF GsStrong

-----------------------------------------------------------------------------
(* Git sources: every step, and what follows.                              *)

LEMMA GsStutters == ASSUME GsStrong, UNCHANGED gsVars PROVE GsStrong'
<1>1. /\ UNCHANGED <<gsOwner, gsTask, gsTold, gsReused, gsStale>> /\ gsHub' = gsHub /\ gsApp' = gsApp
      /\ gsRow' = gsRow /\ gsRedirects' = gsRedirects
  BY DEF gsVars, gsHistory
<1>2. gsRedirects' \subseteq [inst : Nat, id : GsIds \cup {None}]
  BY <1>1 DEF GsStrong, GsShapes
<1>3. GsShapes /\ GsHubTrue
  BY DEF GsStrong
<1> QED
  BY <1>1, <1>2, <1>3, GsHubStays, GsRowsStay, GsGreatestPrimed, GsQuietKeeps

LEMMA GsInitStrong == GsInit => GsStrong
<1> SUFFICES ASSUME GsInit PROVE GsStrong
  OBVIOUS
<1>1. PICK old \in {None, CHOOSE a \in GsApps : TRUE} :
         /\ gsHub = [a \in GsApps |-> [code |-> a # old, inst |-> IF a = old THEN 1 ELSE None]]
         /\ gsApp = [n \in {m \in {1} : old # None} |-> old]
         /\ gsRow = [i \in GsIds |->
                IF i = 1 /\ old # None THEN [owner |-> gsOwner[old], app |-> old, inst |-> 1]
                ELSE None]
         /\ gsTold = {m \in {1} : old # None}
  BY DEF GsInit
<1>2. /\ gsTask = [j \in GsRequests |-> GsOff] /\ gsRedirects = {}
      /\ gsReused = {} /\ gsStale = {} /\ gsOwner \in GsOwners
  BY DEF GsInit
<1>3. gsTask \in [GsRequests -> GsTaskRecord] /\ \A j \in GsRequests : gsTask[j].pc = "off"
  BY <1>2, GsOffTask DEF GsOff
<1>4. \A j \in GsRequests : \A a : ~GsCalls(gsTask[j], a)
  BY <1>3 DEF GsCalls
<1>5. old \in GsApps \cup {None}
  BY GsFinite
<1>6. PICK last \in {0, 1} : last = IF old # None THEN 1 ELSE 0
  OBVIOUS
<1>7. 1 .. last = {m \in {1} : old # None}
  BY <1>6
<1>8. gsApp \in [1 .. last -> GsApps] /\ Installations = 1 .. last
  BY <1>1, <1>5, <1>7 DEF Installations
<1>9. Cardinality(GsApps) \in Nat /\ (old # None => Cardinality(GsApps) # 0)
  BY GsFinite, FS_EmptySet
<1>10. old # None => GsRegistered = {1} /\ gsRow[1] = [owner |-> gsOwner[old], app |-> old, inst |-> 1]
  <2>1. ASSUME old # None
        PROVE  GsRegistered = {1} /\ gsRow[1] = [owner |-> gsOwner[old], app |-> old, inst |-> 1]
    <3>1. 1 \in GsIds
      BY <1>9, <2>1 DEF GsIds
    <3>2. PICK row : row = [owner |-> gsOwner[old], app |-> old, inst |-> 1]
      OBVIOUS
    <3>3. row.app = old /\ old \in GsApps /\ gsOwner[old] \in GsAccounts
      BY <1>2, <1>5, <2>1, <3>2 DEF GsAccounts
    <3>4. row \in GsRows
      BY <3>2, <3>3 DEF GsRows, GsNumbers
    <3>5. row # None
      BY <3>4, GsNones
    <3>6. \A i \in GsIds : gsRow[i] = IF i = 1 THEN row ELSE None
      BY <1>1, <2>1, <3>2
    <3> QED
      BY <3>1, <3>2, <3>5, <3>6 DEF GsRegistered
  <2> QED
    BY <2>1
<1>11. old = None => GsRegistered = {}
  BY <1>1 DEF GsRegistered
<1>12. gsRow \in [GsIds -> GsRows \cup {None}]
  <2>1. CASE old = None
    BY <1>1, <2>1
  <2>2. CASE old # None
    <3>1. PICK row : row = [owner |-> gsOwner[old], app |-> old, inst |-> 1]
      OBVIOUS
    <3>2. row \in GsRows
      BY <1>2, <1>5, <2>2, <3>1 DEF GsRows, GsAccounts, GsNumbers
    <3>3. gsRow = [i \in GsIds |-> IF i = 1 THEN row ELSE None]
      BY <1>1, <2>2, <3>1
    <3> QED
      BY <3>2, <3>3
  <2> QED
    BY <2>1, <2>2
<1>13. /\ gsHub \in [GsApps -> GsHubRecord]
       /\ \A a \in GsApps : gsHub[a].code = (a # old) /\ gsHub[a].inst = IF a = old THEN 1 ELSE None
  BY <1>1 DEF GsHubRecord, GsNumbers
<1>14. gsTold = Installations
  BY <1>1, <1>7, <1>8
<1>15. GsShapes
  BY <1>2, <1>3, <1>6, <1>8, <1>12, <1>13, <1>14 DEF GsShapes
<1>16. GsHubTrue
  <2>1. ASSUME NEW a \in GsApps, InstalledAs(a) # None
        PROVE InstalledAs(a) \in Installations /\ gsApp[InstalledAs(a)] = a
    <3>1. a = old /\ InstalledAs(a) = 1 /\ old # None
      BY <1>13, <2>1, GsNones DEF InstalledAs
    <3> QED
      BY <1>1, <1>7, <1>8, <3>1
  <2> QED
    BY <2>1 DEF GsHubTrue
<1>17. old # None => GsSpent(old)
  BY <1>4, <1>5, <1>13 DEF GsSpent
<1>18. GsOnce
  <2>1. ASSUME NEW i \in GsRegistered PROVE i = 1 /\ old # None /\ gsRow[i].app = old /\ gsRow[i].inst = 1
    BY <1>10, <1>11
  <2> QED
    BY <1>4, <1>17, <2>1 DEF GsOnce
<1>19. GsIdsEnough
  <2>1. PICK done : done = {a \in GsApps : GsSpent(a)}
    OBVIOUS
  <2>2. IsFiniteSet(done) /\ Cardinality(done) \in Nat
    BY <2>1, GsFinite, FS_Subset, FS_CardinalityType
  <2>3. CASE old = None
    <3>1. Greatest(GsRegistered) = 0
      BY <1>11, <2>3 DEF Greatest
    <3> QED
      BY <2>1, <2>2, <3>1 DEF GsIdsEnough
  <2>4. CASE old # None
    <3>1. old \in done
      BY <1>5, <1>17, <2>1, <2>4
    <3>2. Cardinality(done) # 0
      BY <2>2, <3>1, FS_EmptySet
    <3>3. Greatest(GsRegistered) = 1
      <4>1. GsRegistered = 1 .. 1
        BY <1>10, <2>4
      <4> QED
        BY <4>1, GreatestUpTo
    <3> QED
      BY <2>1, <2>2, <3>2, <3>3 DEF GsIdsEnough
  <2> QED
    BY <2>3, <2>4
<1>20. GsTasksOk /\ GsRedirectsOk
  BY <1>2, <1>3 DEF GsTasksOk, GsTaskOk, GsRedirectsOk
<1>21. GsRowsOk
  <2>1. ASSUME NEW i \in GsRegistered PROVE GsRowOk(i)
    <3>1. old # None /\ gsRow[i].app = old /\ gsRow[i].inst = 1
      BY <1>10, <1>11
    <3>2. 1 \in Installations /\ gsApp[1] = old /\ InstalledAs(old) = 1
      BY <1>1, <1>5, <1>7, <1>8, <1>13, <3>1 DEF InstalledAs
    <3> QED
      BY <3>1, <3>2 DEF GsRowOk
  <2> QED
    BY <2>1 DEF GsRowsOk
<1>22. GsToldOk
  <2>1. ASSUME NEW n \in gsTold PROVE GsSpent(gsApp[n])
    <3>1. old # None /\ gsApp[n] = old
      BY <1>1
    <3> QED
      BY <1>17, <3>1
  <2> QED
    BY <2>1 DEF GsToldOk
<1> QED
  BY <1>15, <1>16, <1>18, <1>19, <1>20, <1>21, <1>22 DEF GsStrong

LEMMA GsNextStrong == ASSUME GsStrong, [GsNext]_gsVars PROVE GsStrong'
<1>1. ASSUME NEW j \in GsRequests, NEW a \in GsApps, GithubCallback(j, a) PROVE GsStrong'
  BY <1>1, GithubCallbackKeeps
<1>2. ASSUME NEW j \in GsRequests, NEW r \in gsRedirects, InstallFallback(j, r) PROVE GsStrong'
  BY <1>2, InstallFallbackKeeps
<1>3. ASSUME NEW j \in GsRequests, NEW i \in GsIds, RefreshInstallation(j, i) PROVE GsStrong'
  BY <1>3, RefreshInstallationKeeps
<1>4. ASSUME NEW j \in GsRequests,
             AskInstallations(j) \/ AddSource(j) \/ SourceRefused(j) \/ MatchSource(j)
      PROVE  GsStrong'
  BY <1>4, AskInstallationsKeeps, AddSourceKeeps, SourceRefusedKeeps, MatchSourceKeeps
<1>5. ASSUME NEW j \in GsRequests, RefreshAnswered(j) \/ RefreshWrites(j) PROVE GsStrong'
  BY <1>5, RefreshAnsweredKeeps, RefreshWritesKeeps
<1>6. ASSUME NEW r \in gsRedirects, RedirectLost(r) \/ InstallSigned(r) PROVE GsStrong'
  BY <1>6, RedirectLostKeeps, InstallSignedKeeps
<1>7. ASSUME NEW a \in GsApps, HubInstalls(a) \/ HubUninstalls(a) PROVE GsStrong'
  BY <1>7, HubInstallsKeeps, HubUninstallsKeeps
<1>8. ASSUME NEW i \in GsIds, DeleteSource(i) PROVE GsStrong'
  BY <1>8, DeleteSourceKeeps
<1>9. CASE UNCHANGED gsVars
  BY <1>9, GsStutters
<1> QED
  BY <1>1, <1>2, <1>3, <1>4, <1>5, <1>6, <1>7, <1>8, <1>9 DEF GsNext

LEMMA GsStrongImplies == GsStrong => GsTypeOK /\ SourcesSound
<1> SUFFICES ASSUME GsStrong PROVE GsTypeOK /\ SourcesSound
  OBVIOUS
<1>1. GsShapes /\ GsHubTrue /\ GsOnce /\ GsRowsOk /\ GsToldOk
  BY DEF GsStrong
<1>2. \A a \in GsApps : gsHub[a].code \in BOOLEAN /\ InstalledAs(a) \in Installations \cup {None}
  BY <1>1 DEF GsShapes, GsHubTrue, GsHubRecord, InstalledAs
<1>3. \A i \in GsRegistered : gsRow[i].app \in GsApps /\ gsRow[i].inst \in Installations \cup {None}
  BY <1>1, GsRowTyped DEF GsRowsOk, GsRowOk
<1>4. \A j \in GsRequests : gsTask[j].pc \in {"off", "ask", "write"}
  BY <1>1 DEF GsShapes, GsTaskRecord
<1>5. GsTypeOK
  BY <1>1, <1>2, <1>3, <1>4 DEF GsTypeOK, GsShapes
<1>6. InstallationsApart
  BY <1>1 DEF InstallationsApart, GsRowsOk, GsRowOk
<1>7. PushesBuilt
  <2>1. ASSUME NEW i \in GsRegistered \ gsStale, NEW a, a = gsRow[i].app, InstalledAs(a) \in gsTold
        PROVE  PushedSource(a) = {i} /\ ResolvedToken(i) = a
    <3>1. a \in GsApps /\ InstalledAs(a) \in Installations /\ InstalledAs(a) # None
      BY <1>1, <2>1, GsRowTyped, GsAppTyped, GsNones DEF GsShapes
    <3>2. PICK n : n = InstalledAs(a) /\ n \in Installations /\ n # None /\ gsApp[n] = a
      BY <1>1, <3>1 DEF GsHubTrue
    <3>3. gsRow[i].inst = n
      BY <1>1, <2>1, <3>2 DEF GsRowsOk, GsRowOk
    <3>4. ASSUME NEW k \in GsRegistered, gsRow[k].inst = n PROVE k = i
      <4>1. gsRow[k].app = a \/ GsGone(a)
        BY <1>1, <3>2, <3>4 DEF GsRowsOk, GsRowOk
      <4> QED
        BY <1>1, <2>1, <4>1 DEF GsGone, GsOnce
    <3>5. SourcesWith(n) = {i}
      BY <2>1, <3>3, <3>4 DEF SourcesWith
    <3>6. PushedSource(a) = {i}
      BY <2>1, <3>2, <3>5 DEF PushedSource
    <3>7. ResolvedToken(i) = a
      BY <2>1, <3>2, <3>3 DEF ResolvedToken
    <3> QED
      BY <3>6, <3>7
  <2> QED
    BY <2>1 DEF PushesBuilt
<1> QED
  BY <1>5, <1>6, <1>7 DEF SourcesSound

\* However redirects, callbacks and refreshes overtake each other, a source
\* holds installations of its own app, and pushes reach it and builds get a
\* token, unless its id was given again or an older answer was written over it.
THEOREM SourcesStaySound == GsSpec => []SourcesSound
<1>1. GsInit => GsStrong
  BY GsInitStrong
<1>2. GsStrong /\ [GsNext]_gsVars => GsStrong'
  BY GsNextStrong
<1>3. GsStrong => SourcesSound
  BY GsStrongImplies
<1> QED
  BY <1>1, <1>2, <1>3, PTL DEF GsSpec

-----------------------------------------------------------------------------
(* The file manager.                                                       *)

FmRows == [owner : FmUsers, status : {"provisioning", "active", "deleting", "error"}]
FmAccounts == [id : Nat \ {0}, scope : {"own", "quarantine"}]
FmPipeRecord == [kind : {"create", "delete", "undo", None},
                 pc : {"off", "list", "post", "put", "delete", "finalize"},
                 place : FmPlaces \cup {None}, seen : Nat]
FmUserRecord == [version : 0 .. FmMaxEdits, suspended : BOOLEAN]
FmProxyRecord == [pc : {"new", "place", "send", "done"}, ticket : FmTicket \cup {None},
                  user : FmUserRecord \cup {None}]

FmShapes ==
    /\ fmRow \in [FmPlaces -> FmRows \cup {None}]
    /\ fmUser \in [FmUsers -> FmUserRecord]
    /\ fmTickets \subseteq FmTicket
    /\ fmBrowser \in [FmSites -> FmAccounts \cup {None}]
    /\ fmNextId \in Nat \ {0}
    /\ fmPipe \in [FmPipes -> FmPipeRecord]
    /\ fmProxy \in [FmProxied -> FmProxyRecord]
    /\ fmUsed \in [edits : 0 .. FmMaxEdits, faults : Nat]
    /\ fmMoved \subseteq FmProxied /\ fmLeft \subseteq FmSites

\* Versions count changes at most, and ids are given in turn.
FmBounds ==
    /\ \A u \in FmUsers : fmUser[u].version <= fmUsed.edits
    /\ \A p \in FmSites : fmBrowser[p] # None => fmBrowser[p].id < fmNextId

\* What a request has read still holds when the rows have not moved away.
FmRequestInTime(j) ==
    LET t == fmProxy[j].ticket IN
    fmProxy[j].pc \in {"place", "send"} =>
        /\ t # None
        /\ j \notin fmMoved =>
             /\ fmProxy[j].pc = "place" => fmProxy[j].user.version = fmUser[t.user].version
             /\ fmProxy[j].pc = "send" => Manages(t.user, t.place) /\ fmUser[t.user].version = t.version
FmRequestsInTime == \A j \in FmProxied : FmRequestInTime(j)

FmOwned(p) == fmBrowser[p] # None /\ fmBrowser[p].scope = "own"
FmBarred(p) == fmBrowser[p] # None => fmBrowser[p].scope = "quarantine"

\* What a pipeline has reached of a site that is looked after.
FmReached(p, t) ==
    /\ fmRow[p] # None
    /\ fmRow[p].status = IF t.kind = "delete" THEN "deleting" ELSE "provisioning"
    /\ t.pc = "put" => fmBrowser[p] # None
    /\ t.pc = "finalize" => IF t.kind = "create" THEN FmOwned(p) ELSE FmBarred(p)
FmPipePlace(t) ==
    t.pc # "off" =>
        /\ t.kind # None /\ t.place # None
        /\ t.pc # "finalize" => t.place \in FmSites
        /\ t.pc \in {"put", "post"} => t.kind = "create"
        /\ t.pc = "delete" => t.kind # "create"
        /\ t.pc = "put" => t.seen # 0
FmPipesPlaced == \A i \in FmPipes : FmPipePlace(fmPipe[i])

\* A site that is looked after has one pipeline at a time; without one an
\* active site has its account, and one that has gone has none.
FmSiteSound(p) ==
    /\ \A i, j \in FmWorking(p) : i = j
    /\ \A i \in FmWorking(p) : FmReached(p, fmPipe[i])
    /\ fmRow[p] # None /\ fmRow[p].status = "active" => FmOwned(p)
    /\ fmRow[p] = None => FmBarred(p)
FmSitesSound == \A p \in FmSites \ fmLeft : FmSiteSound(p)

FmStrong ==
    FmShapes /\ FmBounds /\ FmRequestsInTime /\ FmPipesPlaced /\ FmSitesSound /\ SessionsConfined

-----------------------------------------------------------------------------
LEMMA FmNones ==
    /\ None \notin FmRows /\ None \notin FmAccounts /\ None \notin FmTicket
    /\ None \notin {"create", "delete", "undo"} /\ None \notin FmPlaces
<1>1. FmAccounts \subseteq [id : Nat, scope : {"own", "quarantine"}]
  BY DEF FmAccounts
<1> QED
  BY <1>1, FmNoneAssumption DEF FmRows, FmTicket, FmPlaces

LEMMA FmInitStrong == FmInit => FmStrong
<1> SUFFICES ASSUME FmInit PROVE FmStrong
  OBVIOUS
<1>1. PICK there \in BOOLEAN :
         /\ fmRow = [p \in FmPlaces |-> IF there
                THEN [owner |-> CHOOSE u \in FmUsers : TRUE, status |-> "active"] ELSE None]
         /\ fmBrowser = [p \in FmSites |-> IF there THEN [id |-> 1, scope |-> "own"] ELSE None]
  BY DEF FmInit
<1>2. PICK u \in FmUsers : u = CHOOSE w \in FmUsers : TRUE
  BY FmAssumption
<1>3. fmRow = [p \in FmPlaces |-> IF there THEN [owner |-> u, status |-> "active"] ELSE None]
  BY <1>1, <1>2
<1>4. fmRow \in [FmPlaces -> FmRows \cup {None}]
  BY <1>3 DEF FmRows
<1>5. fmBrowser \in [FmSites -> FmAccounts \cup {None}]
  BY <1>1 DEF FmAccounts
<1>6. FmOff \in FmPipeRecord /\ FmNoRequest \in FmProxyRecord
  BY DEF FmOff, FmPipeRecord, FmNoRequest, FmProxyRecord
<1>7. FmMaxEdits \in Nat
  BY FmAssumption
<1>8. fmUser \in [FmUsers -> FmUserRecord] /\ fmUsed \in [edits : 0 .. FmMaxEdits, faults : Nat]
  BY <1>7 DEF FmInit, FmUserRecord
<1>9. FmShapes
  BY <1>4, <1>5, <1>6, <1>8 DEF FmInit, FmShapes
<1>10. FmBounds
  BY <1>1 DEF FmInit, FmBounds
<1>11. FmRequestsInTime
  BY DEF FmInit, FmRequestsInTime, FmRequestInTime, FmNoRequest
<1>12. FmPipesPlaced
  BY DEF FmInit, FmPipesPlaced, FmPipePlace, FmOff
<1>13. FmSitesSound
  <2>1. \A p \in FmPlaces : FmWorking(p) = {}
    BY DEF FmInit, FmWorking, FmOff
  <2>2. \A p \in FmSites : p \in FmPlaces
    BY DEF FmPlaces
  <2>3. None # [id |-> 1, scope |-> "own"]
    BY FmNoneAssumption
  <2>4. ASSUME NEW p \in FmSites
        PROVE  /\ fmRow[p] # None /\ fmRow[p].status = "active" => FmOwned(p)
               /\ fmRow[p] = None => FmBarred(p)
    <3>1. CASE there
      <4>1. fmRow[p] \in FmRows
        BY <1>3, <2>2, <3>1 DEF FmRows
      <4> QED
        BY <1>1, <2>3, <3>1, <4>1, FmNones DEF FmOwned
    <3>2. CASE ~there
      BY <1>1, <2>2, <3>2 DEF FmBarred
    <3> QED
      BY <3>1, <3>2
  <2> QED
    BY <2>1, <2>2, <2>4 DEF FmSitesSound, FmSiteSound
<1>14. SessionsConfined
  BY DEF FmInit, SessionsConfined
<1> QED
  BY <1>9, <1>10, <1>11, <1>12, <1>13, <1>14 DEF FmStrong

-----------------------------------------------------------------------------
\* A pipeline that takes a step changes what is there of its own place only.
LEMMA FmSiteStep ==
    ASSUME FmShapes, FmPipesPlaced, FmSitesSound,
           NEW i \in FmPipes, NEW p \in FmPlaces, NEW act \in FmPipeRecord,
           act.place = p, FmPipePlace(act), fmPipe' = [fmPipe EXCEPT ![i] = act],
           fmPipe[i].pc = "off" \/ fmPipe[i].place = p,
           fmLeft \subseteq fmLeft',
           \A q \in FmSites : q # p => fmRow'[q] = fmRow[q] /\ fmBrowser'[q] = fmBrowser[q],
           p \in FmSites \ fmLeft' =>
             /\ \A h \in FmWorking(p) : h = i
             /\ act.pc # "off" => FmReached(p, act)'
             /\ fmRow'[p] # None /\ fmRow'[p].status = "active" => FmOwned(p)'
             /\ fmRow'[p] = None => FmBarred(p)'
    PROVE  FmPipesPlaced' /\ FmSitesSound'
<1>1. FmPipesPlaced'
  <2>1. FmPipePlace(act)'
    BY DEF FmPipePlace
  <2>2. ASSUME NEW h \in FmPipes PROVE FmPipePlace(fmPipe[h])'
    <3>1. CASE h = i
      <4>1. fmPipe'[h] = act
        BY <3>1 DEF FmShapes
      <4> QED
        BY <2>1, <4>1 DEF FmPipePlace
    <3>2. CASE h # i
      <4>1. fmPipe'[h] = fmPipe[h]
        BY <3>2 DEF FmShapes
      <4> QED
        BY <4>1 DEF FmPipePlace, FmPipesPlaced
    <3> QED
      BY <3>1, <3>2
  <2> QED
    BY <2>2 DEF FmPipesPlaced
<1>2. ASSUME NEW q \in FmSites, q \notin fmLeft' PROVE FmSiteSound(q)'
  <2>1. FmSiteSound(q)
    BY <1>2 DEF FmSitesSound
  <2>2. \A h \in FmPipes : h # i => fmPipe'[h] = fmPipe[h]
    BY DEF FmShapes
  <2>3. fmPipe'[i] = act
    BY DEF FmShapes
  <2>4. CASE q = p
    <3>1. \A h \in FmWorking(q)' : h = i
      BY <1>2, <2>2, <2>4 DEF FmWorking
    <3>2. ASSUME NEW h \in FmWorking(q)' PROVE FmReached(q, fmPipe[h])'
      <4>1. h = i /\ fmPipe'[h] = act /\ act.pc # "off"
        BY <2>3, <3>1, <3>2 DEF FmWorking
      <4> QED
        BY <1>2, <2>4, <4>1 DEF FmReached, FmOwned, FmBarred
    <3> QED
      BY <1>2, <2>4, <3>1, <3>2 DEF FmSiteSound
  <2>5. CASE q # p
    <3>1. \A h \in FmWorking(q)' : h \in FmWorking(q) /\ fmPipe'[h] = fmPipe[h]
      BY <2>2, <2>3, <2>5 DEF FmWorking
    <3>2. fmRow'[q] = fmRow[q] /\ fmBrowser'[q] = fmBrowser[q]
      BY <2>5
    <3>3. ASSUME NEW h \in FmWorking(q)' PROVE FmReached(q, fmPipe[h])'
      <4>1. FmReached(q, fmPipe[h]) /\ fmPipe'[h] = fmPipe[h]
        BY <2>1, <3>1, <3>3 DEF FmSiteSound
      <4> QED
        BY <3>2, <4>1 DEF FmReached, FmOwned, FmBarred
    <3> QED
      BY <2>1, <3>1, <3>2, <3>3 DEF FmSiteSound, FmOwned, FmBarred
  <2> QED
    BY <2>4, <2>5
<1> QED
  BY <1>1, <1>2 DEF FmSitesSound

\* What requests have read goes with the owner of a row, the version of an
\* account and nothing else.
LEMMA FmRequestsKept ==
    ASSUME FmShapes, FmRequestsInTime,
           UNCHANGED <<fmUser, fmProxy>>, fmMoved \subseteq fmMoved',
           \A j \in FmProxied : j \notin fmMoved' /\ fmProxy[j].ticket # None =>
             LET p == fmProxy[j].ticket.place IN
             fmRow[p] # None => fmRow'[p] # None /\ fmRow'[p].owner = fmRow[p].owner
    PROVE  FmRequestsInTime'
<1>1. ASSUME NEW j \in FmProxied PROVE FmRequestInTime(j)'
  <2>1. FmRequestInTime(j)
    BY DEF FmRequestsInTime
  <2> QED
    BY <2>1 DEF FmRequestInTime, Manages
<1> QED
  BY <1>1 DEF FmRequestsInTime

-----------------------------------------------------------------------------
(* Pipelines.                                                              *)

FmKept == /\ UNCHANGED <<fmUser, fmTickets, fmProxy, fmStray>>
          /\ fmUsed' = fmUsed \/ fmUsed' = [fmUsed EXCEPT !.faults = @ + 1]

\* A step of the i-th pipeline at place p, which leads to act there and to the
\* given row; left are the sites that are not looked after.
FmSiteAfter(i, p, act, row) ==
    /\ \A h \in FmWorking(p) : h = i
    /\ act.pc # "off" => FmReached(p, act)'
    /\ row # None /\ row.status = "active" => FmOwned(p)'
    /\ row = None => FmBarred(p)'
FmBrowserStep(p) ==
    \/ UNCHANGED <<fmBrowser, fmNextId>>
    \/ /\ p \in FmSites
       /\ \E account \in FmAccounts \cup {None} :
            /\ fmBrowser' = [fmBrowser EXCEPT ![p] = account]
            /\ account # None => account.id < fmNextId'
       /\ fmNextId' \in Nat \ {0} /\ fmNextId <= fmNextId'
FmRowStep(p, row) ==
    /\ row \in FmRows \cup {None} /\ fmRow' = [fmRow EXCEPT ![p] = row]
    /\ fmRow[p] = None \/ (row # None /\ row.owner = fmRow[p].owner)
       \/ Under({p}, {}) \subseteq fmMoved'
    /\ fmMoved \subseteq fmMoved' /\ fmMoved' \subseteq FmProxied
FmActStep(i, p, act) ==
    /\ act \in FmPipeRecord /\ act.place = p /\ FmPipePlace(act)
    /\ fmPipe' = [fmPipe EXCEPT ![i] = act]
    /\ fmPipe[i].pc = "off" \/ fmPipe[i].place = p

LEMMA FmPipeStep ==
    ASSUME FmStrong, FmKept, NEW i \in FmPipes, NEW p \in FmPlaces, NEW act, NEW row,
           FmActStep(i, p, act), FmRowStep(p, row), FmBrowserStep(p),
           NEW left \in SUBSET FmSites, fmLeft' = left, fmLeft \subseteq left,
           p \in FmSites \ left => FmSiteAfter(i, p, act, row)
    PROVE  FmStrong'
<1>1. FmShapes /\ FmBounds /\ FmRequestsInTime /\ FmPipesPlaced /\ FmSitesSound /\ SessionsConfined
  BY DEF FmStrong
<1>2. \A q \in FmPlaces : fmRow'[q] = IF q = p THEN row ELSE fmRow[q]
  BY <1>1 DEF FmShapes, FmRowStep
<1>3. \A q \in FmSites : q \in FmPlaces
  BY DEF FmPlaces
<1>4. \A q \in FmSites : q # p => fmBrowser'[q] = fmBrowser[q]
  BY <1>1 DEF FmShapes, FmBrowserStep
<1>5. fmBrowser' \in [FmSites -> FmAccounts \cup {None}] /\ fmNextId' \in Nat \ {0}
  BY <1>1 DEF FmShapes, FmBrowserStep
<1>6. fmUsed' \in [edits : 0 .. FmMaxEdits, faults : Nat] /\ fmUsed'.edits = fmUsed.edits
  BY <1>1 DEF FmShapes, FmKept
<1>7. fmRow' \in [FmPlaces -> FmRows \cup {None}] /\ fmPipe' \in [FmPipes -> FmPipeRecord]
  BY <1>1 DEF FmShapes, FmRowStep, FmActStep
<1>8. FmShapes'
  BY <1>1, <1>5, <1>6, <1>7 DEF FmShapes, FmKept, FmRowStep
<1>9. FmBounds'
  <2>1. \A u \in FmUsers : fmUser'[u].version <= fmUsed'.edits
    BY <1>1, <1>6 DEF FmBounds, FmKept
  <2>2. ASSUME NEW q \in FmSites, fmBrowser'[q] # None PROVE fmBrowser'[q].id < fmNextId'
    <3>1. CASE UNCHANGED <<fmBrowser, fmNextId>>
      BY <1>1, <2>2, <3>1 DEF FmBounds
    <3>2. CASE ~UNCHANGED <<fmBrowser, fmNextId>>
      <4>1. CASE q = p
        BY <1>1, <2>2, <3>2, <4>1 DEF FmShapes, FmBrowserStep
      <4>2. CASE q # p
        <5>1. fmBrowser'[q] = fmBrowser[q] /\ fmBrowser[q] \in FmAccounts
          BY <1>1, <1>4, <2>2, <4>2 DEF FmShapes
        <5>2. fmBrowser[q].id \in Nat /\ fmNextId \in Nat /\ fmNextId' \in Nat
          BY <1>1, <1>5, <5>1 DEF FmShapes, FmAccounts
        <5> QED
          BY <1>1, <2>2, <3>2, <5>1, <5>2 DEF FmBounds, FmBrowserStep
      <4> QED
        BY <4>1, <4>2
    <3> QED
      BY <3>1, <3>2
  <2> QED
    BY <2>1, <2>2 DEF FmBounds
<1>10. FmRequestsInTime'
  <2>1. UNCHANGED <<fmUser, fmProxy>>
    BY DEF FmKept
  <2>2. ASSUME NEW j \in FmProxied, j \notin fmMoved', fmProxy[j].ticket # None,
               fmRow[fmProxy[j].ticket.place] # None
        PROVE  /\ fmRow'[fmProxy[j].ticket.place] # None
               /\ fmRow'[fmProxy[j].ticket.place].owner = fmRow[fmProxy[j].ticket.place].owner
    <3>1. PICK q : q = fmProxy[j].ticket.place
      OBVIOUS
    <3>2. q \in FmPlaces
      BY <1>1, <2>2, <3>1 DEF FmShapes, FmProxyRecord, FmTicket
    <3>3. CASE q = p
      <4>1. j \in Under({p}, {})
        BY <2>2, <3>1, <3>3 DEF Under
      <4> QED
        BY <1>2, <2>2, <3>1, <3>2, <3>3, <4>1 DEF FmRowStep
    <3>4. CASE q # p
      BY <1>2, <2>2, <3>1, <3>2, <3>4
    <3> QED
      BY <3>3, <3>4
  <2> QED
    BY <1>1, <2>1, <2>2, FmRequestsKept DEF FmRowStep
<1>11. fmRow'[p] = row
  BY <1>2
<1>14. /\ act \in FmPipeRecord /\ act.place = p /\ FmPipePlace(act)
       /\ fmPipe' = [fmPipe EXCEPT ![i] = act]
       /\ fmPipe[i].pc = "off" \/ fmPipe[i].place = p
  BY DEF FmActStep
<1>12. FmPipesPlaced' /\ FmSitesSound'
  <2>1. \A q \in FmSites : q # p => fmRow'[q] = fmRow[q] /\ fmBrowser'[q] = fmBrowser[q]
    BY <1>2, <1>3, <1>4
  <2>2. /\ fmLeft \subseteq fmLeft'
        /\ p \in FmSites \ fmLeft' =>
             /\ \A h \in FmWorking(p) : h = i
             /\ act.pc # "off" => FmReached(p, act)'
             /\ fmRow'[p] # None /\ fmRow'[p].status = "active" => FmOwned(p)'
             /\ fmRow'[p] = None => FmBarred(p)'
    BY <1>11 DEF FmSiteAfter
  <2>3. FmShapes /\ FmPipesPlaced /\ FmSitesSound
    BY <1>1
  <2> QED
    BY <1>14, <2>1, <2>2, <2>3, FmSiteStep
<1>13. SessionsConfined'
  BY <1>1 DEF SessionsConfined, FmKept
<1> QED
  BY <1>8, <1>9, <1>10, <1>12, <1>13 DEF FmStrong

\* What a pipeline that works has, and what its site is like when it is looked
\* after.
LEMMA FmPipeHas ==
    ASSUME FmStrong, NEW i \in FmPipes, fmPipe[i].pc # "off"
    PROVE  /\ fmPipe[i] \in FmPipeRecord /\ fmPipe[i].place \in FmPlaces
           /\ FmPipePlace(fmPipe[i]) /\ i \in FmWorking(fmPipe[i].place)
           /\ fmRow[fmPipe[i].place] \in FmRows \cup {None}
           /\ fmPipe[i].place \in FmSites =>
                fmBrowser[fmPipe[i].place] \in FmAccounts \cup {None}
           /\ fmPipe[i].place \in FmSites \ fmLeft =>
                /\ \A h \in FmWorking(fmPipe[i].place) : h = i
                /\ FmReached(fmPipe[i].place, fmPipe[i])
<1>1. fmPipe[i] \in FmPipeRecord /\ FmPipePlace(fmPipe[i])
  BY DEF FmStrong, FmShapes, FmPipesPlaced
<1>2. fmPipe[i].place \in FmPlaces
  BY <1>1 DEF FmPipePlace, FmPipeRecord
<1>3. i \in FmWorking(fmPipe[i].place)
  BY DEF FmWorking
<1>4. ASSUME fmPipe[i].place \in FmSites \ fmLeft
      PROVE  /\ \A h \in FmWorking(fmPipe[i].place) : h = i
             /\ FmReached(fmPipe[i].place, fmPipe[i])
  <2>1. FmSiteSound(fmPipe[i].place)
    BY <1>4 DEF FmStrong, FmSitesSound
  <2> QED
    BY <1>3, <2>1 DEF FmSiteSound
<1>5. /\ fmRow[fmPipe[i].place] \in FmRows \cup {None}
      /\ fmPipe[i].place \in FmSites => fmBrowser[fmPipe[i].place] \in FmAccounts \cup {None}
  BY <1>2 DEF FmStrong, FmShapes
<1> QED
  BY <1>1, <1>2, <1>3, <1>4, <1>5

LEMMA FmFaultKeeps == ASSUME FmStrong, FmFault PROVE fmUsed' = [fmUsed EXCEPT !.faults = @ + 1]
BY DEF FmFault

LEMMA FmCreateKeeps ==
    ASSUME FmStrong, NEW i \in FmPipes, NEW p \in FmPlaces, NEW u \in FmUsers, FmCreate(i, p, u)
    PROVE  FmStrong'
<1>1. PICK act \in FmPipeRecord :
         /\ act = [kind |-> "create", pc |-> IF p \in FmSites THEN "list" ELSE "finalize",
                   place |-> p, seen |-> 0]
         /\ fmPipe' = [fmPipe EXCEPT ![i] = act]
  BY DEF FmCreate, FmStart, FmPipeRecord
<1>2. PICK row \in FmRows : /\ row = [owner |-> u, status |-> "provisioning"]
                            /\ fmRow' = [fmRow EXCEPT ![p] = row]
  BY DEF FmCreate, FmRows
<1>3. row # None /\ row.status = "provisioning" /\ fmRow[p] = None
  BY <1>2, FmNones DEF FmCreate
<1>4. FmPipePlace(act)
  BY <1>1, FmNones DEF FmPipePlace
<1>5. fmPipe[i].pc = "off"
  BY FmNones DEF FmCreate, FmStart, FmStrong, FmPipesPlaced, FmPipePlace
<1>6. PICK left \in SUBSET FmSites :
         /\ fmLeft' = left /\ fmLeft \subseteq left
         /\ p \in FmSites \ left => FmWorking(p) = {}
  BY DEF FmCreate, FmOverlap, FmStrong, FmShapes
<1>7. fmRow'[p] = row
  BY <1>2 DEF FmStrong, FmShapes
<1>8. ASSUME p \in FmSites \ left
      PROVE  /\ \A h \in FmWorking(p) : h = i
             /\ act.pc # "off" => FmReached(p, act)'
             /\ row # None /\ row.status = "active" => FmOwned(p)'
             /\ row = None => FmBarred(p)'
  <2>1. FmReached(p, act)'
    BY <1>1, <1>3, <1>7, <1>8 DEF FmReached
  <2> QED
    BY <1>3, <1>6, <1>8, <2>1
<1>9. FmKept /\ UNCHANGED <<fmBrowser, fmNextId>> /\ fmMoved' = fmMoved /\ fmMoved \subseteq FmProxied
  BY DEF FmCreate, FmKept, FmStrong, FmShapes
<1>10. act.place = p
  BY <1>1
<1>11. row \in FmRows \cup {None} /\ fmMoved \subseteq fmMoved' /\ fmMoved' \subseteq FmProxied
  BY <1>9
<1>12. FmRowStep(p, row)
  BY <1>2, <1>3, <1>11 DEF FmRowStep
<1>13. FmActStep(i, p, act)
  BY <1>1, <1>4, <1>5, <1>10 DEF FmActStep
<1>14. p \in FmSites \ left => FmSiteAfter(i, p, act, row)
  BY <1>8 DEF FmSiteAfter
<1>15. FmKept /\ FmBrowserStep(p)
  BY <1>9 DEF FmBrowserStep
<1> QED
  BY <1>6, <1>12, <1>13, <1>14, <1>15, FmPipeStep

LEMMA FmDeleteKeeps ==
    ASSUME FmStrong, NEW i \in FmPipes, NEW p \in FmPlaces, FmDelete(i, p) PROVE FmStrong'
<1>1. PICK act \in FmPipeRecord :
         /\ act = [kind |-> "delete", pc |-> IF p \in FmSites THEN "list" ELSE "finalize",
                   place |-> p, seen |-> 0]
         /\ fmPipe' = [fmPipe EXCEPT ![i] = act]
  BY DEF FmDelete, FmStart, FmPipeRecord
<1>2. fmRow[p] \in FmRows /\ fmRow[p] # None
  BY DEF FmDelete, FmStrong, FmShapes
<1>3. PICK row \in FmRows : /\ row = [fmRow[p] EXCEPT !.status = "deleting"]
                            /\ fmRow' = [fmRow EXCEPT ![p] = row]
  BY <1>2 DEF FmDelete, FmRows
<1>4. row # None /\ row.status = "deleting" /\ row.owner = fmRow[p].owner
  BY <1>2, <1>3, FmNones DEF FmRows
<1>5. FmPipePlace(act)
  BY <1>1, FmNones DEF FmPipePlace
<1>6. fmPipe[i].pc = "off"
  BY FmNones DEF FmDelete, FmStart, FmStrong, FmPipesPlaced, FmPipePlace
<1>7. PICK left \in SUBSET FmSites :
         /\ fmLeft' = left /\ fmLeft \subseteq left
         /\ p \in FmSites \ left => FmWorking(p) = {}
  BY DEF FmDelete, FmOverlap, FmStrong, FmShapes
<1>8. fmRow'[p] = row
  BY <1>3 DEF FmStrong, FmShapes
<1>9. ASSUME p \in FmSites \ left
      PROVE  /\ \A h \in FmWorking(p) : h = i
             /\ act.pc # "off" => FmReached(p, act)'
             /\ row # None /\ row.status = "active" => FmOwned(p)'
             /\ row = None => FmBarred(p)'
  <2>1. FmReached(p, act)'
    BY <1>1, <1>4, <1>8, <1>9 DEF FmReached
  <2> QED
    BY <1>4, <1>7, <1>9, <2>1
<1>10. FmKept /\ UNCHANGED <<fmBrowser, fmNextId>> /\ fmMoved' = fmMoved /\ fmMoved \subseteq FmProxied
  BY DEF FmDelete, FmKept, FmStrong, FmShapes
<1>11. act.place = p
  BY <1>1
<1>12. row \in FmRows \cup {None} /\ fmMoved \subseteq fmMoved' /\ fmMoved' \subseteq FmProxied
  BY <1>10
<1>13. FmRowStep(p, row)
  BY <1>3, <1>4, <1>12 DEF FmRowStep
<1>14. FmActStep(i, p, act)
  BY <1>1, <1>5, <1>6, <1>11 DEF FmActStep
<1>15. p \in FmSites \ left => FmSiteAfter(i, p, act, row)
  BY <1>9 DEF FmSiteAfter
<1>16. FmKept /\ FmBrowserStep(p)
  BY <1>10 DEF FmBrowserStep
<1> QED
  BY <1>7, <1>13, <1>14, <1>15, <1>16, FmPipeStep

\* A pipeline that changes its own record only, at the place it is at.
LEMMA FmActStays ==
    ASSUME FmStrong, NEW i \in FmPipes, fmPipe[i].pc # "off", NEW act \in FmPipeRecord,
           act.place = fmPipe[i].place, FmPipePlace(act), fmPipe' = [fmPipe EXCEPT ![i] = act]
    PROVE  FmActStep(i, fmPipe[i].place, act)
BY DEF FmActStep

LEMMA FmRowStays ==
    ASSUME FmStrong, NEW p \in FmPlaces, UNCHANGED <<fmRow, fmMoved>>,
           NEW row, row = fmRow[p]
    PROVE  FmRowStep(p, row)
BY DEF FmRowStep, FmStrong, FmShapes

\* A row whose pipeline has ended with an error, or that has gone before.
LEMMA FmRowFails ==
    ASSUME FmStrong, NEW p \in FmPlaces, fmMoved' = fmMoved, NEW status \in {"active", "error"},
           fmRow' = [fmRow EXCEPT ![p] =
               IF @ = None THEN None ELSE [@ EXCEPT !.status = status]]
    PROVE  \E row \in FmRows \cup {None} :
             /\ FmRowStep(p, row) /\ (row = None <=> fmRow[p] = None)
             /\ row # None => row.status = status
<1>1. fmRow[p] \in FmRows \cup {None} /\ fmMoved \subseteq FmProxied
  BY DEF FmStrong, FmShapes
<1>2. CASE fmRow[p] = None
  BY <1>1, <1>2 DEF FmRowStep
<1>3. CASE fmRow[p] # None
  <2>1. PICK row \in FmRows : row = [fmRow[p] EXCEPT !.status = status]
    BY <1>1, <1>3 DEF FmRows
  <2>2. row # None /\ row.owner = fmRow[p].owner /\ row.status = status
    BY <1>1, <1>3, <2>1, FmNones DEF FmRows
  <2>3. FmRowStep(p, row)
    BY <1>1, <1>3, <2>1, <2>2 DEF FmRowStep
  <2> QED
    BY <1>3, <2>2, <2>3
<1> QED
  BY <1>2, <1>3

LEMMA ListUsersKeeps == ASSUME FmStrong, NEW i \in FmPipes, ListUsers(i) PROVE FmStrong'
<1>1. fmPipe[i].pc = "list" /\ fmPipe[i].pc # "off"
  BY DEF ListUsers
<1>2. PICK p \in FmPlaces : p = fmPipe[i].place
  BY <1>1, FmPipeHas
<1>3. PICK row : row = fmRow[p]
  OBVIOUS
<1>4. p \in FmSites /\ fmPipe[i] \in FmPipeRecord /\ fmPipe[i].kind # None /\ fmBrowser[p] \in FmAccounts \cup {None}
  BY <1>1, <1>2, FmPipeHas DEF FmPipePlace
<1>5. AfterList(i) \in {"post", "put", "finalize", "delete"} /\ Account(p) \in Nat
  BY <1>4 DEF AfterList, Account, FmAccounts
<1>6. PICK act \in FmPipeRecord :
         /\ act = [fmPipe[i] EXCEPT !.pc = AfterList(i), !.seen = Account(p)]
         /\ fmPipe' = [fmPipe EXCEPT ![i] = act]
         /\ act.pc = AfterList(i) /\ act.seen = Account(p)
         /\ act.place = p /\ act.kind = fmPipe[i].kind
  <2>1. fmPipe' = [fmPipe EXCEPT ![i] = [fmPipe[i] EXCEPT !.pc = AfterList(i), !.seen = Account(p)]]
    BY <1>2, <1>4 DEF ListUsers, FmStrong, FmShapes, FmPipeRecord
  <2>2. PICK pc \in {"post", "put", "finalize", "delete"} : pc = AfterList(i)
    BY <1>5
  <2>3. PICK seen \in Nat : seen = Account(p)
    BY <1>5
  <2>4. PICK act : act = [fmPipe[i] EXCEPT !.pc = pc, !.seen = seen]
    OBVIOUS
  <2>5. act \in FmPipeRecord /\ act.pc = pc /\ act.seen = seen /\ act.place = p /\ act.kind = fmPipe[i].kind
    BY <1>2, <1>4, <2>4 DEF FmPipeRecord
  <2> QED
    BY <2>1, <2>2, <2>3, <2>4, <2>5
<1>7. /\ act.pc \in {"put", "post"} => act.kind = "create"
      /\ act.pc = "delete" => act.kind # "create"
      /\ act.pc = "put" => fmBrowser[p] # None
      /\ act.pc = "finalize" => IF act.kind = "create" THEN FmOwned(p) ELSE FmBarred(p)
  BY <1>2, <1>6 DEF AfterList, Ensuring, FmOwned, FmBarred
<1>8. act.pc = "put" => act.seen # 0
  BY <1>4, <1>6, <1>7 DEF Account, FmAccounts
<1>9. FmPipePlace(act)
  BY <1>4, <1>6, <1>7, <1>8, FmNones DEF FmPipePlace, FmPlaces
<1>10. FmActStep(i, p, act)
  BY <1>1, <1>2, <1>6, <1>9, FmActStays
<1>11. FmRowStep(p, row) /\ FmBrowserStep(p) /\ FmKept
  BY <1>2, <1>3, FmRowStays DEF ListUsers, FmBrowserStep, FmKept, fmHistory
<1>12. ASSUME p \in FmSites \ fmLeft PROVE FmSiteAfter(i, p, act, row)
  <2>1. FmReached(p, fmPipe[i]) /\ \A h \in FmWorking(p) : h = i
    BY <1>1, <1>2, <1>12, FmPipeHas
  <2>2. UNCHANGED <<fmRow, fmBrowser>>
    BY DEF ListUsers
  <2>3. FmReached(p, act)
    BY <1>6, <1>7, <2>1 DEF FmReached
  <2>4. FmReached(p, act)'
    BY <2>2, <2>3 DEF FmReached, FmOwned, FmBarred
  <2>5. row # None /\ row.status # "active"
    BY <1>3, <2>1 DEF FmReached
  <2> QED
    BY <2>1, <2>4, <2>5 DEF FmSiteAfter
<1>13. fmLeft' = fmLeft /\ fmLeft \in SUBSET FmSites
  BY DEF ListUsers, fmHistory, FmStrong, FmShapes
<1>14. PICK left \in SUBSET FmSites : left = fmLeft
  BY <1>13
<1> QED
  BY <1>10, <1>11, <1>12, <1>13, <1>14, FmPipeStep

LEMMA UnreachableKeeps == ASSUME FmStrong, NEW i \in FmPipes, Unreachable(i) PROVE FmStrong'
<1>1. fmPipe[i].pc \in {"list", "post", "put", "delete"} /\ fmPipe[i].pc # "off"
  BY DEF Unreachable
<1>2. PICK p \in FmPlaces : p = fmPipe[i].place
  BY <1>1, FmPipeHas
<1>3. PICK row : row = fmRow[p]
  OBVIOUS
<1>4. p \in FmSites /\ fmPipe[i] \in FmPipeRecord /\ fmPipe[i].kind # None
  BY <1>1, <1>2, FmPipeHas DEF FmPipePlace
<1>5. PICK act \in FmPipeRecord :
         /\ fmPipe' = [fmPipe EXCEPT ![i] = act]
         /\ act.pc = "finalize" /\ act.place = p /\ act.kind = fmPipe[i].kind
  <2>1. fmPipe' = [fmPipe EXCEPT ![i] = [fmPipe[i] EXCEPT !.pc = "finalize"]]
    BY DEF Unreachable, FmStep
  <2>2. [fmPipe[i] EXCEPT !.pc = "finalize"] \in FmPipeRecord
    BY <1>4 DEF FmPipeRecord
  <2> QED
    BY <1>2, <1>4, <2>1, <2>2 DEF FmPipeRecord
<1>6. FmPipePlace(act)
  BY <1>4, <1>5, FmNones DEF FmPipePlace, FmPlaces
<1>7. FmActStep(i, p, act)
  BY <1>1, <1>2, <1>5, <1>6, FmActStays
<1>8. FmRowStep(p, row)
  BY <1>2, <1>3, FmRowStays DEF Unreachable
<1>9. FmBrowserStep(p) /\ FmKept
  BY DEF Unreachable, FmFault, FmBrowserStep, FmKept
<1>10. PICK left \in SUBSET FmSites : left = fmLeft \cup {p}
  BY <1>4 DEF FmStrong, FmShapes
<1>11. fmLeft' = left /\ fmLeft \subseteq left /\ p \notin FmSites \ left
  BY <1>2, <1>10 DEF Unreachable
<1> QED
  BY <1>7, <1>8, <1>9, <1>10, <1>11, FmPipeStep

LEMMA PostUserKeeps == ASSUME FmStrong, NEW i \in FmPipes, PostUser(i) PROVE FmStrong'
<1>1. fmPipe[i].pc = "post" /\ fmPipe[i].pc # "off"
  BY DEF PostUser
<1>2. PICK p \in FmPlaces : p = fmPipe[i].place
  BY <1>1, FmPipeHas
<1>3. PICK row : row = fmRow[p]
  OBVIOUS
<1>4. p \in FmSites /\ fmPipe[i] \in FmPipeRecord /\ fmPipe[i].kind = "create"
  BY <1>1, <1>2, FmPipeHas DEF FmPipePlace
<1>5. PICK act \in FmPipeRecord :
         /\ fmPipe' = [fmPipe EXCEPT ![i] = act]
         /\ act.pc = "finalize" /\ act.place = p /\ act.kind = "create"
  <2>1. fmPipe' = [fmPipe EXCEPT ![i] = [fmPipe[i] EXCEPT !.pc = "finalize"]]
    BY DEF PostUser, FmStep
  <2>2. [fmPipe[i] EXCEPT !.pc = "finalize"] \in FmPipeRecord
    BY <1>4 DEF FmPipeRecord
  <2> QED
    BY <1>2, <1>4, <2>1, <2>2 DEF FmPipeRecord
<1>6. FmPipePlace(act)
  BY <1>4, <1>5, FmNones DEF FmPipePlace, FmPlaces
<1>7. FmActStep(i, p, act)
  BY <1>1, <1>2, <1>5, <1>6, FmActStays
<1>8. FmRowStep(p, row)
  BY <1>2, <1>3, FmRowStays DEF PostUser
<1>9. FmKept
  BY DEF PostUser, FmKept
<1>10. CASE fmBrowser[p] = None
  <2>1. fmNextId \in Nat \ {0} /\ fmNextId' = fmNextId + 1
    BY <1>2, <1>10 DEF PostUser, FmStrong, FmShapes
  <2>2. PICK account \in FmAccounts :
           /\ account.id = fmNextId /\ account.scope = "own"
           /\ fmBrowser' = [fmBrowser EXCEPT ![p] = account]
    BY <1>2, <1>10, <2>1 DEF PostUser, FmAccounts
  <2>3. FmBrowserStep(p)
    <3>1. account.id < fmNextId' /\ fmNextId' \in Nat \ {0} /\ fmNextId <= fmNextId'
      BY <2>1, <2>2
    <3> QED
      BY <1>4, <2>2, <3>1 DEF FmBrowserStep
  <2>4. PICK left \in SUBSET FmSites : left = fmLeft /\ fmLeft' = left
    BY <1>2, <1>10 DEF PostUser, FmStrong, FmShapes
  <2>5. ASSUME p \in FmSites \ left PROVE FmSiteAfter(i, p, act, row)
    <3>1. FmReached(p, fmPipe[i]) /\ \A h \in FmWorking(p) : h = i
      BY <1>1, <1>2, <2>4, <2>5, FmPipeHas
    <3>2. fmRow' = fmRow
      BY DEF PostUser
    <3>3. fmBrowser'[p] = account /\ account # None
      BY <1>4, <2>2, FmNones DEF FmStrong, FmShapes
    <3>4. FmReached(p, act)'
      BY <1>4, <1>5, <2>2, <3>1, <3>2, <3>3 DEF FmReached, FmOwned
    <3>5. row # None /\ row.status # "active"
      BY <1>3, <3>1 DEF FmReached
    <3> QED
      BY <3>1, <3>4, <3>5 DEF FmSiteAfter
  <2> QED
    BY <1>7, <1>8, <1>9, <2>3, <2>4, <2>5, FmPipeStep
<1>11. CASE fmBrowser[p] # None
  <2>1. UNCHANGED <<fmBrowser, fmNextId>> /\ fmLeft' = fmLeft \cup {p}
    BY <1>2, <1>11 DEF PostUser
  <2>2. PICK left \in SUBSET FmSites : left = fmLeft \cup {p}
    BY <1>4 DEF FmStrong, FmShapes
  <2>3. fmLeft' = left /\ fmLeft \subseteq left /\ p \notin FmSites \ left /\ FmBrowserStep(p)
    BY <2>1, <2>2 DEF FmBrowserStep
  <2> QED
    BY <1>7, <1>8, <1>9, <2>2, <2>3, FmPipeStep
<1> QED
  BY <1>10, <1>11

\* A pipeline that ends leaves its record at its place.
LEMMA FmEndStep ==
    ASSUME FmStrong, NEW i \in FmPipes, fmPipe[i].pc # "off",
           NEW p, p = fmPipe[i].place, FmEnd(i)
    PROVE  \E act \in FmPipeRecord : FmActStep(i, p, act) /\ act.pc = "off"
<1>1. fmPipe[i] \in FmPipeRecord
  BY FmPipeHas
<1>2. PICK act : act = [fmPipe[i] EXCEPT !.pc = "off"]
  OBVIOUS
<1>3. act \in FmPipeRecord /\ act.pc = "off" /\ act.place = p
  BY <1>1, <1>2 DEF FmPipeRecord
<1>4. fmPipe' = [fmPipe EXCEPT ![i] = act]
  BY <1>2 DEF FmEnd, FmStep
<1>5. FmPipePlace(act)
  BY <1>3 DEF FmPipePlace
<1> QED
  BY <1>3, <1>4, <1>5, FmActStays

LEMMA ChangeUserKeeps == ASSUME FmStrong, NEW i \in FmPipes, ChangeUser(i) PROVE FmStrong'
<1>1. fmPipe[i].pc \in {"put", "delete"} /\ fmPipe[i].pc # "off"
  BY DEF ChangeUser
<1>2. PICK p \in FmPlaces : p = fmPipe[i].place
  BY <1>1, FmPipeHas
<1>3. /\ p \in FmSites /\ fmPipe[i] \in FmPipeRecord /\ fmPipe[i].kind # None
      /\ fmPipe[i].pc = "put" => fmPipe[i].kind = "create" /\ fmPipe[i].seen # 0
      /\ fmPipe[i].pc = "delete" => fmPipe[i].kind # "create"
      /\ fmBrowser[p] \in FmAccounts \cup {None}
  BY <1>1, <1>2, FmPipeHas DEF FmPipePlace
<1>4. FmKept /\ fmLeft' = fmLeft /\ fmMoved' = fmMoved
  BY DEF ChangeUser, FmKept, fmHistory
<1>5. PICK left \in SUBSET FmSites : left = fmLeft
  BY DEF FmStrong, FmShapes
<1>6. ASSUME p \in FmSites \ left
      PROVE FmReached(p, fmPipe[i]) /\ \A h \in FmWorking(p) : h = i
  BY <1>1, <1>2, <1>5, <1>6, FmPipeHas
<1>7. CASE Account(p) = fmPipe[i].seen
  <2>1. /\ fmBrowser' = [fmBrowser EXCEPT ![p] =
                IF fmPipe[i].pc = "put" THEN [@ EXCEPT !.scope = "own"] ELSE None]
        /\ FmStep(i, "finalize") /\ UNCHANGED <<fmRow, fmNextId>>
    BY <1>2, <1>7 DEF ChangeUser
  <2>2. PICK act : act = [fmPipe[i] EXCEPT !.pc = "finalize"]
    OBVIOUS
  <2>3. /\ act \in FmPipeRecord /\ fmPipe' = [fmPipe EXCEPT ![i] = act]
        /\ act.pc = "finalize" /\ act.place = p /\ act.kind = fmPipe[i].kind
    BY <1>2, <1>3, <2>1, <2>2 DEF FmStep, FmPipeRecord
  <2>4. FmPipePlace(act)
    BY <1>3, <2>3, FmNones DEF FmPipePlace, FmPlaces
  <2>5. FmActStep(i, p, act)
    BY <1>1, <1>2, <2>3, <2>4, FmActStays
  <2>6. PICK row : row = fmRow[p]
    OBVIOUS
  <2>7. FmRowStep(p, row)
    BY <1>2, <1>4, <2>1, <2>6, FmRowStays
  <2>8. PICK account \in FmAccounts \cup {None} :
           /\ fmBrowser' = [fmBrowser EXCEPT ![p] = account]
           /\ account # None => account.id < fmNextId
           /\ fmPipe[i].pc = "put" => account # None /\ account.scope = "own"
           /\ fmPipe[i].pc = "delete" => account = None
    <3>1. CASE fmPipe[i].pc = "put"
      <4>1. fmBrowser[p] \in FmAccounts /\ fmBrowser[p] # None
        BY <1>3, <1>7, <3>1 DEF Account
      <4>2. PICK account : account = [fmBrowser[p] EXCEPT !.scope = "own"]
        OBVIOUS
      <4>3. account \in FmAccounts /\ account.scope = "own" /\ account.id = fmBrowser[p].id
        BY <4>1, <4>2 DEF FmAccounts
      <4>4. account # None /\ account.id < fmNextId
        BY <1>3, <4>1, <4>3, FmNones DEF FmStrong, FmBounds
      <4> QED
        BY <2>1, <3>1, <4>2, <4>3, <4>4
    <3>2. CASE fmPipe[i].pc = "delete"
      BY <2>1, <3>2
    <3> QED
      BY <1>1, <3>1, <3>2
  <2>9. FmBrowserStep(p)
    <3>1. fmNextId' \in Nat \ {0} /\ fmNextId <= fmNextId' /\ (account # None => account.id < fmNextId')
      BY <2>1, <2>8 DEF FmStrong, FmShapes
    <3> QED
      BY <1>3, <2>8, <3>1 DEF FmBrowserStep
  <2>10. ASSUME p \in FmSites \ left PROVE FmSiteAfter(i, p, act, row)
    <3>1. fmBrowser'[p] = account
      BY <1>3, <2>8 DEF FmStrong, FmShapes
    <3>2. fmPipe[i].pc = "put" => FmOwned(p)'
      BY <2>8, <3>1 DEF FmOwned
    <3>3. fmPipe[i].pc = "delete" => FmBarred(p)'
      BY <2>8, <3>1 DEF FmBarred
    <3>4. FmReached(p, act)'
      BY <1>1, <1>3, <1>6, <2>1, <2>3, <2>10, <3>2, <3>3 DEF FmReached
    <3>5. row # None /\ row.status # "active"
      BY <1>6, <2>6, <2>10 DEF FmReached
    <3> QED
      BY <1>6, <2>10, <3>4, <3>5 DEF FmSiteAfter
  <2> QED
    BY <1>4, <1>5, <2>5, <2>7, <2>9, <2>10, FmPipeStep
<1>8. CASE Account(p) # fmPipe[i].seen
  <2>1. /\ FmEnd(i) /\ fmBrowser' = fmBrowser /\ fmNextId' = fmNextId
        /\ fmRow' = [fmRow EXCEPT ![p] = IF @ = None THEN None ELSE [@ EXCEPT !.status = "error"]]
    BY <1>2, <1>8 DEF ChangeUser
  <2>2. PICK act \in FmPipeRecord : FmActStep(i, p, act) /\ act.pc = "off"
    BY <1>1, <1>2, <2>1, FmEndStep
  <2>3. PICK row \in FmRows \cup {None} :
             /\ FmRowStep(p, row) /\ (row = None <=> fmRow[p] = None)
             /\ row # None => row.status = "error"
    BY <1>4, <2>1, FmRowFails
  <2>4. FmBrowserStep(p)
    BY <2>1 DEF FmBrowserStep
  <2>5. ASSUME p \in FmSites \ left PROVE FmSiteAfter(i, p, act, row)
    BY <1>6, <2>2, <2>3, <2>5 DEF FmSiteAfter, FmReached
  <2> QED
    BY <1>4, <1>5, <2>2, <2>3, <2>4, <2>5, FmPipeStep
<1> QED
  BY <1>7, <1>8

LEMMA LaterStepFailsKeeps == ASSUME FmStrong, NEW i \in FmPipes, LaterStepFails(i) PROVE FmStrong'
<1>1. fmPipe[i].pc = "finalize" /\ fmPipe[i].pc # "off"
  BY DEF LaterStepFails
<1>2. PICK p \in FmPlaces : p = fmPipe[i].place
  BY <1>1, FmPipeHas
<1>3. p \in FmSites /\ fmPipe[i] \in FmPipeRecord /\ fmPipe[i].kind # None
  BY <1>1, <1>2, FmPipeHas DEF FmPipePlace, LaterStepFails
<1>4. FmKept /\ fmLeft' = fmLeft /\ fmMoved' = fmMoved /\ FmBrowserStep(p) /\ fmBrowser' = fmBrowser
  BY DEF LaterStepFails, FmKept, FmFault, fmHistory, FmBrowserStep
<1>5. PICK left \in SUBSET FmSites : left = fmLeft
  BY DEF FmStrong, FmShapes
<1>6. ASSUME p \in FmSites \ left
      PROVE FmReached(p, fmPipe[i]) /\ \A h \in FmWorking(p) : h = i
  BY <1>1, <1>2, <1>5, <1>6, FmPipeHas
<1>7. CASE Ensuring(i)
  <2>1. PICK act : act = [fmPipe[i] EXCEPT !.kind = "undo", !.pc = "list"]
    OBVIOUS
  <2>2. /\ act \in FmPipeRecord /\ act.pc = "list" /\ act.place = p /\ act.kind = "undo"
    BY <1>2, <1>3, <2>1 DEF FmPipeRecord
  <2>3. fmPipe' = [fmPipe EXCEPT ![i] = act] /\ fmRow' = fmRow
    BY <1>3, <1>7, <2>1 DEF LaterStepFails, FmStrong, FmShapes, FmPipeRecord
  <2>4. FmPipePlace(act)
    BY <1>3, <2>2, FmNones DEF FmPipePlace, FmPlaces
  <2>5. FmActStep(i, p, act)
    BY <1>1, <1>2, <2>2, <2>3, <2>4, FmActStays
  <2>6. PICK row : row = fmRow[p]
    OBVIOUS
  <2>7. FmRowStep(p, row)
    BY <1>2, <1>4, <2>3, <2>6, FmRowStays
  <2>8. ASSUME p \in FmSites \ left PROVE FmSiteAfter(i, p, act, row)
    <3>1. FmReached(p, act)'
      BY <1>6, <1>7, <2>2, <2>3, <2>8 DEF FmReached, Ensuring
    <3>2. row # None /\ row.status # "active"
      BY <1>6, <2>6, <2>8 DEF FmReached
    <3> QED
      BY <1>6, <2>8, <3>1, <3>2 DEF FmSiteAfter
  <2> QED
    BY <1>4, <1>5, <2>5, <2>7, <2>8, FmPipeStep
<1>8. CASE ~Ensuring(i)
  <2>1. /\ FmEnd(i)
        /\ fmRow' = [fmRow EXCEPT ![p] = IF @ = None THEN None ELSE [@ EXCEPT !.status = "error"]]
    BY <1>2, <1>8 DEF LaterStepFails
  <2>2. PICK act \in FmPipeRecord : FmActStep(i, p, act) /\ act.pc = "off"
    BY <1>1, <1>2, <2>1, FmEndStep
  <2>3. PICK row \in FmRows \cup {None} :
             /\ FmRowStep(p, row) /\ (row = None <=> fmRow[p] = None)
             /\ row # None => row.status = "error"
    BY <1>4, <2>1, FmRowFails
  <2>4. ASSUME p \in FmSites \ left PROVE FmSiteAfter(i, p, act, row)
    BY <1>6, <2>2, <2>3, <2>4 DEF FmSiteAfter, FmReached
  <2> QED
    BY <1>4, <1>5, <2>2, <2>3, <2>4, FmPipeStep
<1> QED
  BY <1>7, <1>8

LEMMA FmFinalizeKeeps == ASSUME FmStrong, NEW i \in FmPipes, FmFinalize(i) PROVE FmStrong'
<1>1. fmPipe[i].pc = "finalize" /\ fmPipe[i].pc # "off" /\ FmEnd(i)
  BY DEF FmFinalize
<1>2. PICK p \in FmPlaces : p = fmPipe[i].place
  BY <1>1, FmPipeHas
<1>3. fmPipe[i] \in FmPipeRecord /\ fmPipe[i].kind # None
  BY <1>1, FmPipeHas DEF FmPipePlace
<1>4. FmKept /\ fmLeft' = fmLeft /\ FmBrowserStep(p) /\ fmBrowser' = fmBrowser
  BY DEF FmFinalize, FmKept, FmBrowserStep
<1>5. PICK left \in SUBSET FmSites : left = fmLeft
  BY DEF FmStrong, FmShapes
<1>6. ASSUME p \in FmSites \ left
      PROVE FmReached(p, fmPipe[i]) /\ \A h \in FmWorking(p) : h = i
  BY <1>1, <1>2, <1>5, <1>6, FmPipeHas
<1>7. PICK act \in FmPipeRecord : FmActStep(i, p, act) /\ act.pc = "off"
  BY <1>1, <1>2, FmEndStep
<1>8. fmMoved \subseteq fmMoved' /\ fmMoved' \subseteq FmProxied
  BY DEF FmFinalize, Under, FmStrong, FmShapes
<1>9. CASE fmPipe[i].kind = "delete"
  <2>1. fmRow' = [fmRow EXCEPT ![p] = None] /\ Under({p}, {}) \subseteq fmMoved'
    BY <1>2, <1>9 DEF FmFinalize
  <2>2. FmRowStep(p, None)
    BY <1>8, <2>1 DEF FmRowStep
  <2>3. ASSUME p \in FmSites \ left PROVE FmSiteAfter(i, p, act, None)
    <3>1. FmBarred(p)'
      BY <1>1, <1>4, <1>6, <1>9, <2>3 DEF FmReached, FmBarred
    <3> QED
      BY <1>6, <1>7, <2>3, <3>1 DEF FmSiteAfter
  <2> QED
    BY <1>4, <1>5, <1>7, <2>2, <2>3, FmPipeStep
<1>10. CASE fmPipe[i].kind # "delete"
  <2>1. PICK status \in {"active", "error"} : status = IF Ensuring(i) THEN "active" ELSE "error"
    OBVIOUS
  <2>2. /\ fmRow' = [fmRow EXCEPT ![p] = IF @ = None THEN None ELSE [@ EXCEPT !.status = status]]
        /\ fmMoved' = fmMoved
    BY <1>2, <1>10, <2>1 DEF FmFinalize
  <2>3. PICK row \in FmRows \cup {None} :
             /\ FmRowStep(p, row) /\ (row = None <=> fmRow[p] = None)
             /\ row # None => row.status = status
    BY <2>2, FmRowFails
  <2>4. ASSUME p \in FmSites \ left PROVE FmSiteAfter(i, p, act, row)
    <3>1. Ensuring(i) => FmOwned(p)'
      BY <1>1, <1>4, <1>6, <2>4 DEF FmReached, FmOwned, Ensuring
    <3>2. row # None
      BY <1>6, <2>3, <2>4 DEF FmReached
    <3> QED
      BY <1>6, <1>7, <2>1, <2>3, <2>4, <3>1, <3>2 DEF FmSiteAfter
  <2> QED
    BY <1>4, <1>5, <1>7, <2>3, <2>4, FmPipeStep
<1> QED
  BY <1>9, <1>10

-----------------------------------------------------------------------------
(* Requests, accounts and restarts.                                        *)

\* Accounts that Filebrowser makes up touch nothing that a site relies on.
LEMMA FmSitesKept ==
    ASSUME FmPipesPlaced, FmSitesSound, UNCHANGED <<fmRow, fmPipe, fmLeft>>,
           \A q \in FmSites : \/ fmBrowser'[q] = fmBrowser[q]
                             \/ /\ fmBrowser[q] = None
                                /\ fmBrowser'[q] # None /\ fmBrowser'[q].scope = "quarantine"
    PROVE  FmPipesPlaced' /\ FmSitesSound'
<1>1. FmPipesPlaced'
  BY DEF FmPipesPlaced, FmPipePlace
<1>2. ASSUME NEW q \in FmSites, q \notin fmLeft' PROVE FmSiteSound(q)'
  <2>1. FmSiteSound(q) /\ FmWorking(q)' = FmWorking(q)
    BY <1>2 DEF FmSitesSound, FmWorking
  <2>2. (FmOwned(q) => FmOwned(q)') /\ (FmBarred(q) => FmBarred(q)')
    BY DEF FmOwned, FmBarred
  <2>3. ASSUME NEW i \in FmWorking(q)' PROVE FmReached(q, fmPipe[i])'
    <3>1. FmReached(q, fmPipe[i]) /\ fmPipe' = fmPipe
      BY <2>1, <2>3 DEF FmSiteSound
    <3>2. fmBrowser[q] # None => fmBrowser'[q] # None
      OBVIOUS
    <3> QED
      BY <2>2, <3>1, <3>2 DEF FmReached
  <2> QED
    BY <2>1, <2>2, <2>3 DEF FmSiteSound
<1> QED
  BY <1>1, <1>2 DEF FmSitesSound

\* What request j has read, when it is req.
FmHolds(j, req) ==
    req.pc \in {"place", "send"} =>
        /\ req.ticket # None
        /\ j \notin fmMoved =>
             /\ req.pc = "place" => req.user.version = fmUser[req.ticket.user].version
             /\ req.pc = "send" => /\ Manages(req.ticket.user, req.ticket.place)
                                  /\ fmUser[req.ticket.user].version = req.ticket.version

LEMMA FmProxyStep ==
    ASSUME FmStrong, UNCHANGED <<fmRow, fmUser, fmMoved>>,
           NEW j \in FmProxied, NEW req \in FmProxyRecord, FmHolds(j, req),
           fmProxy' = [fmProxy EXCEPT ![j] = req]
    PROVE  fmProxy' \in [FmProxied -> FmProxyRecord] /\ FmRequestsInTime'
<1>1. fmProxy' \in [FmProxied -> FmProxyRecord] /\ fmProxy'[j] = req
  BY DEF FmStrong, FmShapes
<1>2. ASSUME NEW h \in FmProxied PROVE FmRequestInTime(h)'
  <2>1. CASE h = j
    BY <1>1, <2>1 DEF FmRequestInTime, FmHolds, Manages
  <2>2. CASE h # j
    <3>1. fmProxy'[h] = fmProxy[h] /\ FmRequestInTime(h)
      BY <2>2 DEF FmStrong, FmShapes, FmRequestsInTime
    <3> QED
      BY <3>1 DEF FmRequestInTime, Manages
  <2> QED
    BY <2>1, <2>2
<1> QED
  BY <1>1, <1>2 DEF FmRequestsInTime

LEMMA OpenFilesKeeps ==
    ASSUME FmStrong, NEW u \in FmUsers, NEW p \in FmPlaces, OpenFiles(u, p) PROVE FmStrong'
<1>1. fmUser[u].version \in 0 .. FmMaxEdits
  BY DEF FmStrong, FmShapes, FmUserRecord
<1>2. fmTickets' \subseteq FmTicket
  BY <1>1 DEF OpenFiles, FmTicket, FmStrong, FmShapes
<1>3. FmShapes'
  BY <1>2 DEF OpenFiles, FmStrong, FmShapes, fmHistory
<1>4. FmBounds'
  BY DEF OpenFiles, FmStrong, FmBounds
<1>5. FmRequestsInTime'
  <2>1. UNCHANGED <<fmUser, fmProxy, fmMoved, fmRow>>
    BY DEF OpenFiles, fmHistory
  <2> QED
    BY <2>1 DEF FmStrong, FmRequestsInTime, FmRequestInTime, Manages
<1>6. FmPipesPlaced' /\ FmSitesSound'
  <2>1. UNCHANGED <<fmRow, fmPipe, fmLeft, fmBrowser>> /\ FmPipesPlaced /\ FmSitesSound
    BY DEF OpenFiles, fmHistory, FmStrong
  <2> QED
    BY <2>1, FmSitesKept
<1>7. SessionsConfined'
  BY DEF OpenFiles, FmStrong, SessionsConfined, fmHistory
<1> QED
  BY <1>3, <1>4, <1>5, <1>6, <1>7 DEF FmStrong

LEMMA ReadActorKeeps ==
    ASSUME FmStrong, NEW j \in FmProxied, NEW t \in fmTickets, ReadActor(j, t) PROVE FmStrong'
<1>1. t \in FmTicket /\ t.user \in FmUsers /\ t # None
  BY FmNones DEF FmStrong, FmShapes, FmTicket
<1>2. PICK user : user = fmUser[t.user]
  OBVIOUS
<1>3. user \in FmUserRecord
  BY <1>1, <1>2 DEF FmStrong, FmShapes
<1>4. PICK req : req = [pc |-> "place", ticket |-> t, user |-> user]
  OBVIOUS
<1>5. req \in FmProxyRecord /\ fmProxy' = [fmProxy EXCEPT ![j] = req]
  BY <1>1, <1>2, <1>3, <1>4 DEF ReadActor, FmProxyRecord
<1>7. FmHolds(j, req)
  BY <1>1, <1>2, <1>4 DEF FmHolds
<1>8. UNCHANGED <<fmRow, fmUser, fmTickets, fmBrowser, fmNextId, fmPipe, fmUsed, fmMoved, fmLeft, fmStray>>
  BY DEF ReadActor, fmHistory
<1>9. fmProxy' \in [FmProxied -> FmProxyRecord] /\ FmRequestsInTime'
  BY <1>5, <1>7, <1>8, FmProxyStep
<1>10. FmShapes'
  BY <1>8, <1>9 DEF FmStrong, FmShapes
<1>11. FmBounds'
  BY <1>8 DEF FmStrong, FmBounds
<1>12. FmPipesPlaced' /\ FmSitesSound'
  BY <1>8, FmSitesKept DEF FmStrong
<1>13. SessionsConfined'
  BY <1>8 DEF FmStrong, SessionsConfined
<1> QED
  BY <1>9, <1>10, <1>11, <1>12, <1>13 DEF FmStrong

LEMMA FmDoneRequest ==
    ASSUME NEW j \in FmProxied, FmDone(j)
    PROVE  \E req \in FmProxyRecord : fmProxy' = [fmProxy EXCEPT ![j] = req] /\ FmHolds(j, req)
<1>1. PICK req : req = [FmNoRequest EXCEPT !.pc = "done"]
  OBVIOUS
<1>2. req \in FmProxyRecord /\ req.pc = "done"
  BY <1>1 DEF FmNoRequest, FmProxyRecord
<1> QED
  BY <1>1, <1>2 DEF FmDone, FmHolds

LEMMA ReadPlaceKeeps == ASSUME FmStrong, NEW j \in FmProxied, ReadPlace(j) PROVE FmStrong'
<1>1. PICK req \in FmProxyRecord : fmProxy' = [fmProxy EXCEPT ![j] = req] /\ FmHolds(j, req)
  <2>1. CASE Authorized(fmProxy[j].ticket, fmProxy[j].user)
    <3>1. fmProxy[j] \in FmProxyRecord /\ FmRequestInTime(j) /\ fmProxy[j].pc = "place"
      BY DEF ReadPlace, FmStrong, FmShapes, FmRequestsInTime
    <3>2. PICK req : req = [fmProxy[j] EXCEPT !.pc = "send"]
      OBVIOUS
    <3>3. /\ req \in FmProxyRecord /\ req.pc = "send" /\ req.ticket = fmProxy[j].ticket
          /\ req.user = fmProxy[j].user
      BY <3>1, <3>2 DEF FmProxyRecord
    <3>4. FmHolds(j, req)
      BY <2>1, <3>1, <3>3 DEF FmHolds, FmRequestInTime, Authorized
    <3> QED
      BY <2>1, <3>2, <3>3, <3>4 DEF ReadPlace
  <2>2. CASE ~Authorized(fmProxy[j].ticket, fmProxy[j].user)
    BY <2>2, FmDoneRequest DEF ReadPlace
  <2> QED
    BY <2>1, <2>2
<1>2. UNCHANGED <<fmRow, fmUser, fmTickets, fmBrowser, fmNextId, fmPipe, fmUsed, fmMoved, fmLeft, fmStray>>
  BY DEF ReadPlace, fmHistory
<1>3. fmProxy' \in [FmProxied -> FmProxyRecord] /\ FmRequestsInTime'
  BY <1>1, <1>2, FmProxyStep
<1>4. FmShapes'
  BY <1>2, <1>3 DEF FmStrong, FmShapes
<1>5. FmBounds'
  BY <1>2 DEF FmStrong, FmBounds
<1>6. FmPipesPlaced' /\ FmSitesSound'
  BY <1>2, FmSitesKept DEF FmStrong
<1>7. SessionsConfined'
  BY <1>2 DEF FmStrong, SessionsConfined
<1> QED
  BY <1>3, <1>4, <1>5, <1>6, <1>7 DEF FmStrong

LEMMA ForwardKeeps == ASSUME FmStrong, NEW j \in FmProxied, Forward(j) PROVE FmStrong'
<1>1. FmDone(j) /\ fmProxy[j].pc = "send"
      /\ UNCHANGED <<fmRow, fmUser, fmTickets, fmPipe, fmUsed, fmMoved, fmLeft>>
  BY DEF Forward
<1>2. fmProxy' \in [FmProxied -> FmProxyRecord] /\ FmRequestsInTime'
  BY <1>1, FmDoneRequest, FmProxyStep
<1>3. PICK t : t = fmProxy[j].ticket
  OBVIOUS
<1>4. t \in FmTicket /\ (j \notin fmMoved => Manages(t.user, t.place) /\ fmUser[t.user].version = t.version)
  <2>1. FmRequestInTime(j) /\ fmProxy[j] \in FmProxyRecord
    BY DEF FmStrong, FmShapes, FmRequestsInTime
  <2> QED
    BY <1>1, <1>3, <2>1 DEF FmRequestInTime, FmProxyRecord
<1>5. /\ fmBrowser' \in [FmSites -> FmAccounts \cup {None}] /\ fmNextId' \in Nat \ {0}
      /\ \A q \in FmSites : \/ fmBrowser'[q] = fmBrowser[q]
                            \/ /\ fmBrowser[q] = None
                               /\ fmBrowser'[q] # None /\ fmBrowser'[q].scope = "quarantine"
      /\ \A q \in FmSites : fmBrowser'[q] # None => fmBrowser'[q].id < fmNextId'
  <2>1. /\ fmNextId \in Nat \ {0} /\ fmBrowser \in [FmSites -> FmAccounts \cup {None}]
        /\ \A q \in FmSites : fmBrowser[q] # None => fmBrowser[q].id < fmNextId
    BY DEF FmStrong, FmShapes, FmBounds
  <2>2. CASE t.place \in FmSites /\ fmBrowser[t.place] = None
    <3>1. PICK p \in FmSites : p = t.place
      BY <2>2
    <3>2. PICK account : account = [id |-> fmNextId, scope |-> "quarantine"]
      OBVIOUS
    <3>3. account \in FmAccounts /\ account # None /\ account.id = fmNextId /\ account.scope = "quarantine"
      BY <2>1, <3>2, FmNones DEF FmAccounts
    <3>4. fmBrowser' = [fmBrowser EXCEPT ![p] = account] /\ fmNextId' = fmNextId + 1
      BY <1>3, <2>2, <3>1, <3>2 DEF Forward, MadeUp
    <3>5. \A q \in FmSites : fmBrowser'[q] = IF q = p THEN account ELSE fmBrowser[q]
      BY <2>1, <3>4
    <3>6. \A q \in FmSites : fmBrowser[q] # None => fmBrowser[q].id \in Nat
      BY <2>1 DEF FmAccounts
    <3>7. \A q \in FmSites : fmBrowser'[q] # None => fmBrowser'[q].id < fmNextId'
      BY <2>1, <3>3, <3>4, <3>5, <3>6
    <3>8. fmBrowser' \in [FmSites -> FmAccounts \cup {None}] /\ fmNextId' \in Nat \ {0}
      BY <2>1, <3>3, <3>4
    <3> QED
      BY <2>2, <3>1, <3>3, <3>5, <3>7, <3>8
  <2>3. CASE ~(t.place \in FmSites /\ fmBrowser[t.place] = None)
    <3>1. UNCHANGED <<fmBrowser, fmNextId>>
      BY <1>3, <2>3 DEF Forward
    <3> QED
      BY <2>1, <3>1
  <2> QED
    BY <2>2, <2>3
<1>6. SessionsConfined'
  <2>1. t.place \in FmSites /\ fmBrowser[t.place] # None =>
          fmBrowser[t.place].scope \in {"own", "quarantine"}
    BY DEF FmStrong, FmShapes, FmAccounts
  <2>2. PICK reached : reached = IF t.place \in FmStacks THEN "own"
                                 ELSE IF fmBrowser[t.place] = None THEN MadeUp ELSE fmBrowser[t.place].scope
    OBVIOUS
  <2>3. reached # "all"
    BY <1>4, <2>1, <2>2 DEF MadeUp, FmTicket, FmPlaces
  <2>4. fmStray' = IF \/ reached = "all"
                      \/ /\ reached = "own" /\ j \notin fmMoved
                         /\ (~Manages(t.user, t.place) \/ fmUser[t.user].version # t.version)
                   THEN fmStray \cup {j} ELSE fmStray
    BY <1>3, <2>2 DEF Forward
  <2> QED
    BY <1>4, <2>3, <2>4 DEF FmStrong, SessionsConfined
<1>7. FmShapes'
  BY <1>1, <1>2, <1>5 DEF FmStrong, FmShapes
<1>8. FmBounds'
  BY <1>1, <1>5 DEF FmStrong, FmBounds
<1>9. FmPipesPlaced' /\ FmSitesSound'
  BY <1>1, <1>5, FmSitesKept DEF FmStrong
<1> QED
  BY <1>2, <1>6, <1>7, <1>8, <1>9 DEF FmStrong

LEMMA EditAccountKeeps == ASSUME FmStrong, NEW u \in FmUsers, EditAccount(u) PROVE FmStrong'
<1>1. /\ UNCHANGED <<fmRow, fmTickets, fmBrowser, fmNextId, fmPipe, fmProxy, fmLeft, fmStray>>
      /\ fmMoved' = fmMoved \cup Under({}, {u}) /\ fmUsed' = [fmUsed EXCEPT !.edits = @ + 1]
      /\ fmUsed.edits < FmMaxEdits
  BY DEF EditAccount
<1>2. /\ fmUsed \in [edits : 0 .. FmMaxEdits, faults : Nat] /\ FmMaxEdits \in Nat
      /\ fmUser \in [FmUsers -> FmUserRecord] /\ \A w \in FmUsers : fmUser[w].version <= fmUsed.edits
  BY FmAssumption DEF FmStrong, FmShapes, FmBounds
<1>3. fmUsed' \in [edits : 0 .. FmMaxEdits, faults : Nat] /\ fmUsed'.edits = fmUsed.edits + 1
  BY <1>1, <1>2
<1>4. fmUser[u] \in FmUserRecord /\ fmUser[u].version \in 0 .. FmMaxEdits /\ fmUser[u].suspended \in BOOLEAN
  BY <1>2 DEF FmUserRecord
<1>5. PICK user \in FmUserRecord :
         fmUser' = [fmUser EXCEPT ![u] = user] /\ user.version <= fmUsed'.edits
  <2>0. fmUser[u].version <= fmUsed.edits /\ fmUsed.edits \in 0 .. FmMaxEdits
    BY <1>2
  <2>1. PICK next \in 0 .. FmMaxEdits : next = fmUser[u].version + 1 /\ next <= fmUsed'.edits
    BY <1>1, <1>2, <1>3, <1>4, <2>0
  <2>2. fmUser[u].version <= fmUsed'.edits
    BY <1>2, <1>3, <1>4, <2>0
  <2>3. CASE fmUser' = [fmUser EXCEPT ![u].version = @ + 1]
    <3>1. PICK user : user = [fmUser[u] EXCEPT !.version = next]
      OBVIOUS
    <3>2. user \in FmUserRecord /\ user.version = next
      BY <1>4, <3>1 DEF FmUserRecord
    <3> QED
      BY <2>1, <2>3, <3>1, <3>2
  <2>4. CASE fmUser' = [fmUser EXCEPT ![u].suspended = ~@,
                                      ![u].version = IF fmUser[u].suspended THEN @ ELSE @ + 1]
    <3>1. PICK turned \in BOOLEAN : turned = ~fmUser[u].suspended
      BY <1>4
    <3>2. PICK version \in 0 .. FmMaxEdits :
             /\ version = IF fmUser[u].suspended THEN fmUser[u].version ELSE fmUser[u].version + 1
             /\ version <= fmUsed'.edits
      BY <1>4, <2>1, <2>2
    <3>3. PICK user : user = [fmUser[u] EXCEPT !.suspended = turned, !.version = version]
      OBVIOUS
    <3>4. user \in FmUserRecord /\ user.version = version
      BY <1>4, <3>3 DEF FmUserRecord
    <3>5. fmUser' = [fmUser EXCEPT ![u] = user]
      BY <1>2, <2>4, <3>1, <3>2, <3>3 DEF FmUserRecord
    <3> QED
      BY <3>2, <3>4, <3>5
  <2> QED
    BY <2>3, <2>4 DEF EditAccount
<1>6. FmShapes'
  <2>1. fmUser' \in [FmUsers -> FmUserRecord]
    BY <1>2, <1>5
  <2>2. fmMoved' \subseteq FmProxied
    BY <1>1 DEF Under, FmStrong, FmShapes
  <2> QED
    BY <1>1, <1>3, <2>1, <2>2 DEF FmStrong, FmShapes
<1>7. FmBounds'
  <2>1. ASSUME NEW w \in FmUsers PROVE fmUser'[w].version <= fmUsed'.edits
    <3>1. CASE w = u
      BY <1>2, <1>5, <3>1
    <3>2. CASE w # u
      <4>1. fmUser'[w] = fmUser[w] /\ fmUser[w].version \in Nat /\ fmUsed.edits \in Nat
        BY <1>2, <1>5, <3>2 DEF FmUserRecord
      <4> QED
        BY <1>2, <1>3, <4>1
    <3> QED
      BY <3>1, <3>2
  <2> QED
    BY <1>1, <2>1 DEF FmStrong, FmBounds
<1>8. FmRequestsInTime'
  <2>1. ASSUME NEW j \in FmProxied PROVE FmRequestInTime(j)'
    <3>1. FmRequestInTime(j) /\ fmProxy' = fmProxy /\ fmRow' = fmRow
      BY <1>1 DEF FmStrong, FmRequestsInTime
    <3>2. CASE fmProxy[j].ticket = None
      BY <3>1, <3>2 DEF FmRequestInTime
    <3>3. CASE fmProxy[j].ticket # None
      <4>1. fmProxy[j].ticket.user \in FmUsers
        BY <3>3 DEF FmStrong, FmShapes, FmProxyRecord, FmTicket
      <4>2. CASE fmProxy[j].ticket.user = u
        <5>1. j \in fmMoved'
          BY <1>1, <3>3, <4>2 DEF Under
        <5> QED
          BY <3>1, <3>3, <5>1 DEF FmRequestInTime
      <4>3. CASE fmProxy[j].ticket.user # u
        <5>1. fmUser'[fmProxy[j].ticket.user] = fmUser[fmProxy[j].ticket.user] /\ fmMoved \subseteq fmMoved'
          BY <1>1, <1>2, <1>5, <4>1, <4>3
        <5> QED
          BY <3>1, <5>1 DEF FmRequestInTime, Manages
      <4> QED
        BY <4>2, <4>3
    <3> QED
      BY <3>2, <3>3
  <2> QED
    BY <2>1 DEF FmRequestsInTime
<1>9. FmPipesPlaced' /\ FmSitesSound'
  BY <1>1, FmSitesKept DEF FmStrong
<1>10. SessionsConfined'
  BY <1>1 DEF FmStrong, SessionsConfined
<1> QED
  BY <1>6, <1>7, <1>8, <1>9, <1>10 DEF FmStrong

LEMMA FmCrashKeeps == ASSUME FmStrong, FmCrash PROVE FmStrong'
<1>1. UNCHANGED <<fmRow, fmUser, fmTickets, fmBrowser, fmNextId, fmMoved, fmLeft, fmStray>>
  BY DEF FmCrash, fmHistory
<1>2. fmPipe' \in [FmPipes -> FmPipeRecord] /\ \A i \in FmPipes : fmPipe'[i].pc = "off"
  <2>1. ASSUME NEW i \in FmPipes PROVE /\ [fmPipe[i] EXCEPT !.pc = "off"] \in FmPipeRecord
                                        /\ [fmPipe[i] EXCEPT !.pc = "off"].pc = "off"
    BY DEF FmStrong, FmShapes, FmPipeRecord
  <2> QED
    BY <2>1 DEF FmCrash
<1>3. /\ fmProxy' \in [FmProxied -> FmProxyRecord]
      /\ \A j \in FmProxied : fmProxy'[j].pc \notin {"place", "send"}
  <2>1. PICK gone : gone = [FmNoRequest EXCEPT !.pc = "done"]
    OBVIOUS
  <2>2. gone \in FmProxyRecord /\ gone.pc = "done"
    BY <2>1 DEF FmNoRequest, FmProxyRecord
  <2>3. fmProxy' = [j \in FmProxied |-> IF fmProxy[j].pc = "new" THEN fmProxy[j] ELSE gone]
    BY <2>1 DEF FmCrash
  <2>4. \A j \in FmProxied : fmProxy[j] \in FmProxyRecord
    BY DEF FmStrong, FmShapes
  <2>5. fmProxy' \in [FmProxied -> FmProxyRecord]
    BY <2>2, <2>3, <2>4
  <2>6. ASSUME NEW j \in FmProxied PROVE fmProxy'[j].pc \notin {"place", "send"}
    BY <2>2, <2>3, <2>6
  <2> QED
    BY <2>5, <2>6
<1>4. fmUsed' \in [edits : 0 .. FmMaxEdits, faults : Nat] /\ fmUsed'.edits = fmUsed.edits
  BY DEF FmCrash, FmFault, FmStrong, FmShapes
<1>5. FmShapes'
  BY <1>1, <1>2, <1>3, <1>4 DEF FmStrong, FmShapes
<1>6. FmBounds'
  BY <1>1, <1>4 DEF FmStrong, FmBounds
<1>7. FmRequestsInTime'
  BY <1>3 DEF FmRequestsInTime, FmRequestInTime
<1>8. FmPipesPlaced'
  BY <1>2 DEF FmPipesPlaced, FmPipePlace
<1>9. FmSitesSound'
  <2>1. \A q \in FmSites : FmWorking(q)' = {}
    BY <1>2 DEF FmWorking
  <2> QED
    BY <1>1, <2>1 DEF FmStrong, FmSitesSound, FmSiteSound, FmOwned, FmBarred
<1>10. SessionsConfined'
  BY <1>1 DEF FmStrong, SessionsConfined
<1> QED
  BY <1>5, <1>6, <1>7, <1>8, <1>9, <1>10 DEF FmStrong

LEMMA FmNextStrong == FmStrong /\ [FmNext]_fmVars => FmStrong'
<1> SUFFICES ASSUME FmStrong, [FmNext]_fmVars PROVE FmStrong'
  OBVIOUS
<1>1. ASSUME NEW i \in FmPipes, NEW p \in FmPlaces, FmDelete(i, p) PROVE FmStrong'
  BY <1>1, FmDeleteKeeps
<1>2. ASSUME NEW i \in FmPipes, NEW p \in FmPlaces, NEW u \in FmUsers, FmCreate(i, p, u) PROVE FmStrong'
  BY <1>2, FmCreateKeeps
<1>3. ASSUME NEW i \in FmPipes, ListUsers(i) PROVE FmStrong'
  BY <1>3, ListUsersKeeps
<1>4. ASSUME NEW i \in FmPipes, Unreachable(i) PROVE FmStrong'
  BY <1>4, UnreachableKeeps
<1>5. ASSUME NEW i \in FmPipes, PostUser(i) PROVE FmStrong'
  BY <1>5, PostUserKeeps
<1>6. ASSUME NEW i \in FmPipes, ChangeUser(i) PROVE FmStrong'
  BY <1>6, ChangeUserKeeps
<1>7. ASSUME NEW i \in FmPipes, LaterStepFails(i) PROVE FmStrong'
  BY <1>7, LaterStepFailsKeeps
<1>8. ASSUME NEW i \in FmPipes, FmFinalize(i) PROVE FmStrong'
  BY <1>8, FmFinalizeKeeps
<1>9. ASSUME NEW j \in FmProxied, NEW t \in fmTickets, ReadActor(j, t) PROVE FmStrong'
  BY <1>9, ReadActorKeeps
<1>10. ASSUME NEW j \in FmProxied, ReadPlace(j) PROVE FmStrong'
  BY <1>10, ReadPlaceKeeps
<1>11. ASSUME NEW j \in FmProxied, Forward(j) PROVE FmStrong'
  BY <1>11, ForwardKeeps
<1>12. ASSUME NEW u \in FmUsers, EditAccount(u) PROVE FmStrong'
  BY <1>12, EditAccountKeeps
<1>13. ASSUME NEW u \in FmUsers, NEW p \in FmPlaces, OpenFiles(u, p) PROVE FmStrong'
  BY <1>13, OpenFilesKeeps
<1>14. CASE FmCrash
  BY <1>14, FmCrashKeeps
<1>15. CASE UNCHANGED fmVars
  BY <1>15 DEF fmVars, fmHistory, FmStrong, FmShapes, FmBounds, FmRequestsInTime, FmRequestInTime,
              FmPipesPlaced, FmPipePlace, FmSitesSound, FmSiteSound, FmReached, FmOwned, FmBarred,
              FmWorking, Manages, SessionsConfined
<1> QED
  BY <1>1, <1>2, <1>3, <1>4, <1>5, <1>6, <1>7, <1>8, <1>9, <1>10, <1>11, <1>12, <1>13, <1>14, <1>15
  DEF FmNext

LEMMA FmStrongImplies == FmStrong => FmTypeOK /\ FilesSound
<1> SUFFICES ASSUME FmStrong PROVE FmTypeOK /\ FilesSound
  OBVIOUS
<1>1. FmTypeOK
  <2>1. ASSUME NEW p \in FmPlaces, fmRow[p] # None
        PROVE  /\ fmRow[p].owner \in FmUsers
               /\ fmRow[p].status \in {"provisioning", "active", "deleting", "error"}
    <3>1. fmRow[p] \in FmRows
      BY <2>1 DEF FmStrong, FmShapes
    <3> QED
      BY <3>1 DEF FmRows
  <2>2. ASSUME NEW u \in FmUsers
        PROVE  fmUser[u].version \in 0 .. FmMaxEdits /\ fmUser[u].suspended \in BOOLEAN
    BY DEF FmStrong, FmShapes, FmUserRecord
  <2>3. ASSUME NEW p \in FmSites, fmBrowser[p] # None
        PROVE  /\ fmBrowser[p].id \in 1 .. fmNextId - 1
               /\ fmBrowser[p].scope \in {"own", "quarantine", "all"}
    <3>1. fmBrowser[p] \in FmAccounts /\ fmNextId \in Nat \ {0} /\ fmBrowser[p].id < fmNextId
      BY <2>3 DEF FmStrong, FmShapes, FmBounds
    <3>2. fmBrowser[p].id \in Nat \ {0} /\ fmBrowser[p].scope \in {"own", "quarantine"}
      BY <3>1 DEF FmAccounts
    <3> QED
      BY <3>1, <3>2
  <2> QED
    BY <2>1, <2>2, <2>3 DEF FmTypeOK, FmStrong, FmShapes, SessionsConfined
<1>2. FilesReachable /\ NoAccountLeft
  BY DEF FilesReachable, NoAccountLeft, FmStrong, FmSitesSound, FmSiteSound, FmOwned, FmBarred
<1> QED
  BY <1>1, <1>2 DEF FilesSound, FmStrong

\* Nobody gets files of a site or stack that has moved away from him before the
\* request began, nor more than a site; an active site can be reached through
\* its own account, and one that has gone leaves none that sees a directory
\* (routes/files.py, filebrowser.py).
THEOREM FilesStaySound == FmSpec => []FilesSound
<1>1. FmInit => FmStrong
  BY FmInitStrong
<1>2. FmStrong /\ [FmNext]_fmVars => FmStrong'
  BY FmNextStrong
<1>3. FmStrong => FilesSound
  BY FmStrongImplies
<1> QED
  BY <1>1, <1>2, <1>3, PTL DEF FmSpec

================================================================================
