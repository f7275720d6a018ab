-------------------------- MODULE AuthorizeEndpoint --------------------------
(***************************************************************************)
(* GET /authorize, POST /login and POST /consent of AuthubIdp              *)
(* (src/authub/idp/provider.py) over the grant store: how a visitor comes  *)
(* by an authorization code.                                               *)
(*                                                                         *)
(* As in TokenEndpoint, a request is a process whose pc names the store    *)
(* call it is about to make.  The pages carry the authorize parameters in  *)
(* hidden fields, so each request brings any parameters it likes, and the  *)
(* signed consent ticket is the only thing that travels unaltered.  The    *)
(* lockout of /login is in LoginThrottle: here a login succeeds or fails.  *)
(***************************************************************************)
EXTENDS IdpGrantStore

CONSTANTS
  Requests,        \* concurrent requests
  PublicClients,   \* clients without a client_secret
  Registered,      \* pairs of a client and a redirect URI registered for it
  NoClient,        \* a client_id that nobody registered
  CodeTtl,         \* code_ttl_seconds
  TicketTtl,       \* the 300 seconds a consent ticket lives
  MaxTickets,      \* bound: consent tickets made
  MaxDecisions,    \* bound: consent decisions acted upon
  MaxCodes         \* bound: codes issued

ASSUME AuthorizeAssumption ==
  /\ PublicClients \subseteq Clients
  /\ Registered \subseteq Clients \X RedirectUris
  /\ NoClient \notin Clients
  /\ CodeTtl \in Nat /\ TicketTtl \in Nat

VARIABLES
  requireConsent,  \* _require_consent, a constructor argument
  autoLogin,       \* auto_login: the subject it names, or none
  users,           \* subjects the user store knows
  visit,           \* what each request has in its local variables
  tickets,         \* history: the consent tickets made, by jti
  accepted,        \* history: the consent decisions acted upon
  issued           \* history: how each code came about, by code

provider == <<requireConsent, autoLogin>>
histVars == <<tickets, accepted, issued>>
vars == <<storeVars, provider, users, visit, histVars>>

-----------------------------------------------------------------------------
(* Parameters, tickets and requests. *)

PlainChallenge == <<"plain">>  \* a code_challenge whose method is not S256

Params == [client_id : Clients \cup {NoClient}, redirect_uri : RedirectUris,
           response_type : {"code", "token"}, scope : SUBSET Scopes,
           code_challenge : Challenges \cup {PlainChallenge}]

\* _validate_authorize_params returns None.
Valid(params) ==
  /\ <<params.client_id, params.redirect_uri>> \in Registered
  /\ params.response_type = "code"
  /\ "openid" \in params.scope
  /\ params.code_challenge # PlainChallenge
  /\ params.client_id \in PublicClients => params.code_challenge # NoChallenge

Ticket == [sub : Subs, params : Params, expires_at : Nat]
Decision == [jti : Nat, approve : BOOLEAN, at : Nat]

\* How a code came about: decision 0 is a login without a consent form.
Issue == [params : Params, sub : Subs, decision : Nat]

NotVia == 0

Idle == [pc |-> "idle"]
LoggingIn == [pc : {"get_by_username", "authenticate"}, params : Params]
Deciding == [pc : {"consume_consent_ticket"}, jti : Nat, approve : BOOLEAN]
Consenting == [pc : {"get_by_sub"}, decision : Nat]
Saving == [pc : {"save_code"}, params : Params, sub : Subs, decision : Nat,
           expires_at : Nat]

TypeOK ==
  /\ StoreTypeOK
  /\ requireConsent \in BOOLEAN
  /\ autoLogin \subseteq Subs
  /\ users \subseteq Subs
  /\ visit \in [Requests -> {Idle} \cup LoggingIn \cup Deciding \cup Consenting
                             \cup Saving]
  /\ tickets \in Seq(Ticket)
  /\ accepted \in Seq(Decision)
  /\ issued \in Seq(Issue)

Init ==
  /\ StoreInit
  /\ requireConsent \in BOOLEAN
  /\ autoLogin \in {{}} \cup {{sub} : sub \in Subs}
  /\ users = Subs
  /\ visit = [r \in Requests |-> Idle]
  /\ tickets = <<>>
  /\ accepted = <<>>
  /\ issued = <<>>

At(r, pc) == visit[r].pc = pc
GoTo(r, state) == visit' = [visit EXCEPT ![r] = state]

-----------------------------------------------------------------------------
(* What /authorize and /login do with a subject they know. *)

\* Mutant: the code is built without an expiry.
IssuingCode_NoExpiry(params, sub, decision) ==
  [pc |-> "save_code", params |-> params, sub |-> sub, decision |-> decision]

\* _issue_code_redirect up to save_code: the expiry is computed before the
\* call.
IssuingCode(params, sub, decision) ==
  [pc |-> "save_code", params |-> params, sub |-> sub, decision |-> decision,
   expires_at |-> now + CodeTtl]

\* _make_consent_ticket; the jti is the next number.
MakeConsentTicket(sub, params) ==
  /\ Len(tickets) < MaxTickets
  /\ tickets' = Append(tickets,
       [sub |-> sub, params |-> params, expires_at |-> now + TicketTtl])

LoggedIn(r, sub) ==
  \/ /\ requireConsent
     /\ MakeConsentTicket(sub, visit[r].params)
     /\ GoTo(r, Idle)
     /\ UNCHANGED <<storeVars, provider, users, accepted, issued>>
  \/ /\ ~requireConsent
     /\ GoTo(r, IssuingCode(visit[r].params, sub, NotVia))
     /\ UNCHANGED <<storeVars, provider, users, histVars>>

Respond(r) ==
  /\ GoTo(r, Idle)
  /\ UNCHANGED <<storeVars, provider, users, histVars>>

-----------------------------------------------------------------------------
(* GET /authorize.  Without auto_login it shows the form and changes nothing. *)

Authorize(r, params) ==
  /\ visit[r] = Idle
  /\ Valid(params)
  /\ autoLogin # {}
  /\ GoTo(r, [pc |-> "get_by_username", params |-> params])
  /\ UNCHANGED <<storeVars, provider, users, histVars>>

AutoLoginUser(r) ==
  /\ At(r, "get_by_username")
  /\ \/ \E sub \in autoLogin \cap users : LoggedIn(r, sub)
     \/ autoLogin \cap users = {} /\ Respond(r)

-----------------------------------------------------------------------------
(* POST /login. *)

\* Mutant: the parameters in the hidden fields are taken to be those that
\* /authorize validated.
Login_Trusting(r, params) ==
  /\ visit[r] = Idle
  /\ params.client_id \in Clients
  /\ GoTo(r, [pc |-> "authenticate", params |-> params])
  /\ UNCHANGED <<storeVars, provider, users, histVars>>

Login(r, params) ==
  /\ visit[r] = Idle
  /\ Valid(params)
  /\ GoTo(r, [pc |-> "authenticate", params |-> params])
  /\ UNCHANGED <<storeVars, provider, users, histVars>>

Authenticated(r) ==
  /\ At(r, "authenticate")
  /\ (\E sub \in users : LoggedIn(r, sub)) \/ Respond(r)

-----------------------------------------------------------------------------
(* POST /consent. *)

\* _verify_consent_ticket succeeds: the claims registry refuses a ticket after
\* its exp, not at it.
SubmitConsent(r, jti, approve) ==
  /\ visit[r] = Idle
  /\ now <= tickets[jti].expires_at
  /\ GoTo(r, [pc |-> "consume_consent_ticket", jti |-> jti, approve |-> approve])
  /\ UNCHANGED <<storeVars, provider, users, histVars>>

\* Mutant: an approval and a refusal go on alike.
AfterDecision_Ignored(r) == [pc |-> "get_by_sub", decision |-> Len(accepted) + 1]

\* Where the handler goes on after a fresh ticket: a refusal redirects at once.
AfterDecision(r) ==
  IF visit[r].approve THEN [pc |-> "get_by_sub", decision |-> Len(accepted) + 1]
  ELSE Idle

Decide(r) ==
  LET jti == visit[r].jti
  IN /\ At(r, "consume_consent_ticket")
     /\ ConsumeConsentTicket(jti, tickets[jti].expires_at)
     /\ \/ /\ ~TicketSeen(jti)
           /\ Len(accepted) < MaxDecisions
           /\ accepted' = Append(accepted,
                [jti |-> jti, approve |-> visit[r].approve, at |-> now])
           /\ GoTo(r, AfterDecision(r))
        \/ /\ TicketSeen(jti)
           /\ GoTo(r, Idle)
           /\ UNCHANGED accepted
     /\ UNCHANGED <<provider, users, tickets, issued>>

\* The parameters and the subject come from the ticket, never from the form.
ConsentingUser(r) ==
  LET ticket == tickets[accepted[visit[r].decision].jti]
  IN /\ At(r, "get_by_sub")
     /\ \/ /\ ticket.sub \in users
           /\ GoTo(r, IssuingCode(ticket.params, ticket.sub, visit[r].decision))
        \/ /\ ticket.sub \notin users
           /\ GoTo(r, Idle)
     /\ UNCHANGED <<storeVars, provider, users, histVars>>

-----------------------------------------------------------------------------
(* The end of _issue_code_redirect; what the injected stores may do. *)

SaveIssuedCode(r) ==
  LET v == visit[r]
  IN /\ At(r, "save_code")
     /\ Len(issued) < MaxCodes
     /\ SaveCode([code |-> Len(issued) + 1, client_id |-> v.params.client_id,
                  redirect_uri |-> v.params.redirect_uri,
                  scope |-> v.params.scope, sub |-> v.sub,
                  code_challenge |-> v.params.code_challenge,
                  expires_at |-> v.expires_at])
     /\ issued' = Append(issued,
          [params |-> v.params, sub |-> v.sub, decision |-> v.decision])
     /\ GoTo(r, Idle)
     /\ UNCHANGED <<provider, users, tickets, accepted>>

\* The injected store raises before it changes anything: status 500.
StoreCallFails(r) == visit[r] # Idle /\ Respond(r)

RemoveUser(sub) ==
  /\ users' = users \ {sub}
  /\ UNCHANGED <<storeVars, provider, visit, histVars>>

Tick == ClockTick /\ UNCHANGED <<provider, users, visit, histVars>>

-----------------------------------------------------------------------------
Begin(r) ==
  \/ \E params \in Params : Authorize(r, params) \/ Login(r, params)
  \/ \E jti \in DOMAIN tickets, approve \in BOOLEAN : SubmitConsent(r, jti, approve)

Continue(r) ==
  \/ AutoLoginUser(r) \/ Authenticated(r)
  \/ Decide(r) \/ ConsentingUser(r)
  \/ SaveIssuedCode(r) \/ StoreCallFails(r)

Next ==
  \/ \E r \in Requests : Begin(r) \/ Continue(r)
  \/ \E sub \in users : RemoveUser(sub)
  \/ Tick

Spec == Init /\ [][Next]_vars

-----------------------------------------------------------------------------
(* Properties. *)

Earlier(s) == {ij \in (DOMAIN s) \X (DOMAIN s) : ij[1] < ij[2]}

\* The parameters pass through hidden form fields and a ticket before a code is
\* made of them.  Every code is for a registered client, one of its redirect
\* URIs and an openid scope, and bound by PKCE when its client is public.
CodesForRegisteredClients ==
  \A c \in codes :
    /\ <<c.client_id, c.redirect_uri>> \in Registered
    /\ "openid" \in c.scope
    /\ c.code_challenge \in Challenges
    /\ c.client_id \in PublicClients => c.code_challenge # NoChallenge

\* With require_consent every code goes back to a decision of its own, an
\* approval, of a ticket made for the same subject and parameters: neither a
\* raced nor a failed and repeated submission turns one approval into two codes.
CodeFollowsConsent ==
  requireConsent =>
    /\ \A c \in DOMAIN issued :
         /\ issued[c].decision \in DOMAIN accepted
         /\ LET decision == accepted[issued[c].decision]
            IN /\ decision.approve
               /\ tickets[decision.jti].sub = issued[c].sub
               /\ tickets[decision.jti].params = issued[c].params
    /\ \A cd \in Earlier(issued) : issued[cd[1]].decision # issued[cd[2]].decision

\* Before its expiry a ticket is decided once, however submissions race between
\* its verification and its consumption.
TicketDecidedOnceBeforeExpiry ==
  \A ij \in Earlier(accepted) :
    accepted[ij[1]].jti = accepted[ij[2]].jti =>
      accepted[ij[2]].at >= tickets[accepted[ij[2]].jti].expires_at
=============================================================================
