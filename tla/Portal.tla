-------------------------------- MODULE Portal --------------------------------
(***************************************************************************)
(* The customer portal: invites, accounts, sessions, consent, the upload   *)
(* of a scan and its audit (portal/app.py, portal/ingest.py), over the     *)
(* identity and the consent stores, in memory or in Postgres, and the      *)
(* object, evidence and finding stores, of which an upload sees one call   *)
(* each.  Requests interleave between any two calls they await.            *)
(***************************************************************************)
EXTENDS Naturals, Sequences, FiniteSets

CONSTANTS
  Tenant, Email,
  Invites,      \* invites handed out, by number: [tenant, email, expires]; Anyone: any email
  Anyone,
  Documents,    \* scans: sequences of [subject, check]; <<>> is refused by its shape
  SessionTtl,   \* how long a session lasts
  Request,      \* requests in flight
  MaxRequests, MaxTime, MaxRevokes  \* bounds: requests made, clock, consents withdrawn

ASSUME PortalAssumption ==
  /\ Invites \in Seq([tenant : Tenant, email : Email \cup {Anyone}, expires : Nat])
  /\ \A d \in Documents : d \in Seq({d[n] : n \in DOMAIN d})
  /\ SessionTtl \in Nat /\ {MaxRequests, MaxTime, MaxRevokes} \subseteq Nat

VARIABLES
  now,
  redeemed,     \* invite -> the account it made, 0 while unused
  accounts,     \* accounts by their number: [email, tenant]
  sessions,     \* live session rows: [account, tenant, expires, id]
  consents,     \* consent records, in order: [tenant, account, revoked]
  auditLog,     \* audit events: [tenant, account, action, upload]
  subjects,     \* objects: [tenant, subject], one per natural key
  observed,     \* evidence: [tenant, account, upload, subject, check]
  concerns,     \* findings: [tenant, subject, check, evidence], one per dedup key
  request,      \* what each request is doing
  requests, revokes \* counters of the bounds

identityVars == <<redeemed, accounts, sessions>>
consentVars  == <<consents, auditLog>>
scanVars     == <<subjects, observed, concerns>>
portalVars   == <<now, identityVars, consentVars, scanVars, request, requests, revokes>>

NoRequest == [pc |-> "idle", op |-> "none", account |-> 0, tenant |-> Anyone, left |-> <<>>,
              upload |-> 0, evidence |-> 0]

\* The first customers may have joined, logged in and consented already.
Joined(n) ==
  {as \in [1 .. n -> [email : Email, tenant : Tenant]] :
     \A a, b \in 1 .. n : /\ as[a].tenant = Invites[a].tenant
                          /\ Invites[a].email \in {Anyone, as[a].email}
                          /\ as[a].email = as[b].email => a = b}

PortalInit ==
  /\ now = 0 /\ requests = 0 /\ revokes = 0
  /\ \E n \in 0 .. Len(Invites) :
       /\ accounts \in Joined(n)
       /\ redeemed = [t \in DOMAIN Invites |-> IF t <= n THEN t ELSE 0]
       /\ sessions = {[account |-> a, tenant |-> Invites[a].tenant, expires |-> SessionTtl, id |-> 0] :
                       a \in 1 .. n}
       /\ consents = [a \in 1 .. n |-> [tenant |-> Invites[a].tenant, account |-> a, revoked |-> FALSE]]
       /\ auditLog = [a \in 1 .. n |-> [tenant |-> Invites[a].tenant, account |-> a, upload |-> 0,
                                        action |-> "consent_granted"]]
  /\ subjects = {} /\ observed = <<>> /\ concerns = {}
  /\ request = [q \in Request |-> NoRequest]

Arrives(q, new) ==
  /\ request[q].pc = "idle" /\ requests < MaxRequests
  /\ requests' = requests + 1
  /\ request' = [request EXCEPT ![q] = [new EXCEPT !.upload = requests + 1]]

At(q, op, pc)  == request[q].op = op /\ request[q].pc = pc
GoesTo(q, pc)  == request' = [request EXCEPT ![q].pc = pc]
Answers(q)     == request' = [request EXCEPT ![q] = NoRequest]

-----------------------------------------------------------------------------
(* register and login                                                      *)
Taken(email) == \E a \in DOMAIN accounts : accounts[a].email = email

\* Mutant of Redeems: the invite is not marked.
Redeems_Unmarked(q, t, email) ==
  /\ redeemed[t] = 0 /\ now <= Invites[t].expires
  /\ Invites[t].email \in {Anyone, email} /\ ~ Taken(email)
  /\ Arrives(q, [NoRequest EXCEPT !.pc = "start", !.op = "login", !.account = Len(accounts) + 1])
  /\ accounts' = Append(accounts, [email |-> email, tenant |-> Invites[t].tenant])
  /\ UNCHANGED <<now, redeemed, sessions, consentVars, scanVars, revokes>>

\* redeem holds the lock of the invites, or of the row, until the account is there.
\* A used, expired or foreign invite and a known email are refused.
Redeems(q, t, email) ==
  /\ redeemed[t] = 0 /\ now <= Invites[t].expires
  /\ Invites[t].email \in {Anyone, email} /\ ~ Taken(email)
  /\ Arrives(q, [NoRequest EXCEPT !.pc = "start", !.op = "login", !.account = Len(accounts) + 1])
  /\ accounts' = Append(accounts, [email |-> email, tenant |-> Invites[t].tenant])
  /\ redeemed' = [redeemed EXCEPT ![t] = Len(accounts) + 1]
  /\ UNCHANGED <<now, sessions, consentVars, scanVars, revokes>>

\* authenticate: the right password of an account that is there.
LogsIn(q, a) ==
  /\ a \in DOMAIN accounts
  /\ Arrives(q, [NoRequest EXCEPT !.pc = "start", !.op = "login", !.account = a])
  /\ UNCHANGED <<now, identityVars, consentVars, scanVars, revokes>>

\* start: the sessions in memory drop what has run out; the rows of Postgres stay.
StartsSession(q, reap) ==
  /\ At(q, "login", "start")
  /\ LET a == request[q].account IN
     sessions' = {s \in sessions : reap => s.expires > now}
       \cup {[account |-> a, tenant |-> accounts[a].tenant, expires |-> now + SessionTtl,
              id |-> request[q].upload]}
  /\ Answers(q)
  /\ UNCHANGED <<now, redeemed, accounts, consentVars, scanVars, requests, revokes>>

LogsOut(s) ==
  /\ s \in sessions
  /\ sessions' = sessions \ {s}
  /\ UNCHANGED <<now, redeemed, accounts, consentVars, scanVars, request, requests, revokes>>

-----------------------------------------------------------------------------
(* consent and scans both begin with resolve(cookie)                       *)
\* A session that has run out is deleted and refused; one that is gone is refused.
Resolves(q, op, s, document) ==
  /\ s \in sessions
  /\ \/ /\ now <= s.expires
        /\ Arrives(q, [NoRequest EXCEPT !.pc = "check", !.op = op, !.account = s.account,
                                        !.tenant = s.tenant, !.left = document])
        /\ UNCHANGED sessions
     \/ /\ now > s.expires
        /\ sessions' = sessions \ {s}
        /\ UNCHANGED <<request, requests>>
  /\ UNCHANGED <<now, redeemed, accounts, consentVars, scanVars, revokes>>

Consents(q) ==
  /\ At(q, "consent", "check")
  /\ consents' = Append(consents, [tenant |-> request[q].tenant, account |-> request[q].account,
                                   revoked |-> FALSE])
  /\ GoesTo(q, "audit")
  /\ UNCHANGED <<now, identityVars, auditLog, scanVars, requests, revokes>>

\* Mutant of Active: consent is not asked for.
Active_Always(t) == TRUE

Active(t) == \E i \in DOMAIN consents : consents[i].tenant = t /\ ~ consents[i].revoked

\* revoke(tenant, scope) of the consent store
Revokes(t) ==
  /\ Active(t) /\ revokes < MaxRevokes
  /\ consents' = [i \in DOMAIN consents |->
                    [consents[i] EXCEPT !.revoked = @ \/ consents[i].tenant = t]]
  /\ revokes' = revokes + 1
  /\ UNCHANGED <<now, identityVars, auditLog, scanVars, request, requests>>

\* No consent, or a document that is not a posture document: refused.
ChecksUpload(q) ==
  /\ At(q, "upload", "check")
  /\ IF Active(request[q].tenant) /\ request[q].left # <<>>
     THEN GoesTo(q, "object") ELSE Answers(q)
  /\ UNCHANGED <<now, identityVars, consentVars, scanVars, requests, revokes>>

-----------------------------------------------------------------------------
(* ingest_posture_document: object, evidence, finding of each observation  *)
Observation(q) == Head(request[q].left)

UpsertsSubject(q) ==
  /\ At(q, "upload", "object")
  /\ subjects' = subjects \cup {[tenant |-> request[q].tenant, subject |-> Observation(q).subject]}
  /\ GoesTo(q, "evidence")
  /\ UNCHANGED <<now, identityVars, consentVars, observed, concerns, requests, revokes>>

AddsEvidence(q) ==
  /\ At(q, "upload", "evidence")
  /\ observed' = Append(observed,
       [tenant |-> request[q].tenant, account |-> request[q].account, upload |-> request[q].upload,
        subject |-> Observation(q).subject, check |-> Observation(q).check])
  /\ request' = [request EXCEPT ![q].pc = "finding", ![q].evidence = Len(observed) + 1]
  /\ UNCHANGED <<now, identityVars, consentVars, subjects, concerns, requests, revokes>>

\* Mutant of SameConcern: the store looks for the dedup key in every tenant.
SameConcern_AnyTenant(f, t, o) == f.subject = o.subject /\ f.check = o.check

\* The unique key of a finding: (tenant, type, dedup key)
SameConcern(f, t, o) == f.tenant = t /\ f.subject = o.subject /\ f.check = o.check

RaisesFinding(q) ==
  /\ At(q, "upload", "finding")
  /\ LET t    == request[q].tenant
         o    == Observation(q)
         old  == {f \in concerns : SameConcern(f, t, o)}
         base == IF old = {} THEN [tenant |-> t, subject |-> o.subject, check |-> o.check, evidence |-> {}]
                 ELSE CHOOSE f \in old : TRUE
     IN  concerns' = (concerns \ old) \cup {[base EXCEPT !.evidence = @ \cup {request[q].evidence}]}
  /\ request' = [request EXCEPT ![q].left = Tail(@),
                                ![q].pc = IF Len(request[q].left) > 1 THEN "object" ELSE "audit"]
  /\ UNCHANGED <<now, identityVars, consentVars, subjects, observed, requests, revokes>>

\* The audit entry is the last thing of a consent and of an upload.
Audits(q) ==
  /\ request[q].pc = "audit"
  /\ auditLog' = Append(auditLog,
       [tenant |-> request[q].tenant, account |-> request[q].account, upload |-> request[q].upload,
        action |-> IF request[q].op = "upload" THEN "scan_ingested" ELSE "consent_granted"])
  /\ Answers(q)
  /\ UNCHANGED <<now, identityVars, consents, scanVars, requests, revokes>>

\* A store raises, answered by a 500, or the process ends.
PortalInterrupt(q) ==
  /\ request[q].pc # "idle"
  /\ Answers(q)
  /\ UNCHANGED <<now, identityVars, consentVars, scanVars, requests, revokes>>

Passes ==
  /\ now < MaxTime
  /\ now' = now + 1
  /\ UNCHANGED <<identityVars, consentVars, scanVars, request, requests, revokes>>

PortalNext ==
  \/ \E q \in Request :
       \/ \E t \in DOMAIN Invites, email \in Email : Redeems(q, t, email)
       \/ \E a \in DOMAIN accounts : LogsIn(q, a)
       \/ \E reap \in BOOLEAN : StartsSession(q, reap)
       \/ \E s \in sessions : \/ Resolves(q, "consent", s, <<>>)
                              \/ \E d \in Documents : Resolves(q, "upload", s, d)
       \/ Consents(q) \/ ChecksUpload(q)
       \/ UpsertsSubject(q) \/ AddsEvidence(q) \/ RaisesFinding(q)
       \/ Audits(q) \/ PortalInterrupt(q)
  \/ \E s \in sessions : LogsOut(s)
  \/ \E t \in Tenant : Revokes(t)
  \/ Passes

PortalSpec == PortalInit /\ [][PortalNext]_portalVars

-----------------------------------------------------------------------------
(* "The one property everything rests on" (ECR-0118): what a tenant holds  *)
(* was uploaded through an account that redeemed an invite of that tenant, *)
(* and a finding, its evidence and its subject are of one tenant, however  *)
(* sign-ups, log-outs and uploads of several customers overlap.            *)
TenantsHoldTheirOwn ==
  /\ \A i \in DOMAIN observed :
       \E t \in DOMAIN Invites : /\ redeemed[t] = observed[i].account
                                 /\ Invites[t].tenant = observed[i].tenant
  /\ \A f \in concerns :
       /\ [tenant |-> f.tenant, subject |-> f.subject] \in subjects
       /\ \A i \in f.evidence : /\ observed[i].tenant = f.tenant
                                /\ observed[i].subject = f.subject
                                /\ observed[i].check = f.check

(* No write without consent (UX-005): whatever an upload has stored, an    *)
(* account of the tenant had consented before.                             *)
WritesWereConsented ==
  \A i \in DOMAIN observed :
    \E j \in DOMAIN consents : /\ consents[j].tenant = observed[i].tenant
                               /\ accounts[consents[j].account].tenant = observed[i].tenant

(* An invite makes one account and an account comes from one invite, also  *)
(* when two requests redeem it at once or a registration is cut off before *)
(* its session is there.                                                   *)
OneAccountPerInvite ==
  \A a \in DOMAIN accounts :
    /\ Cardinality({t \in DOMAIN Invites : redeemed[t] = a}) = 1
    /\ \A b \in DOMAIN accounts : accounts[a].email = accounts[b].email => a = b
=============================================================================
