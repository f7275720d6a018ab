----------------------- MODULE AuthorizeEndpointProofs -----------------------
(***************************************************************************)
(* The invariants of AuthorizeEndpoint, for every value of its constants.  *)
(*                                                                         *)
(* The first part says what the steps of the handlers do to the local      *)
(* variables of a request, to the histories and to the store; the rest     *)
(* argues from those descriptions and no longer from the actions.          *)
(***************************************************************************)
EXTENDS AuthorizeEndpoint, TLAPS

Local == {Idle} \cup LoggingIn \cup Deciding \cup Consenting \cup Saving

\* The request carries authorize parameters, or a decision of POST /consent.
HasParams(r) == visit[r].pc \in {"get_by_username", "authenticate", "save_code"}
HasDecision(r) == visit[r].pc \in {"get_by_sub", "save_code"}

\* What local variables and histories refer to exists.
Known ==
  /\ \A r \in Requests :
       /\ At(r, "consume_consent_ticket") => visit[r].jti \in DOMAIN tickets
       /\ At(r, "get_by_sub") => visit[r].decision \in DOMAIN accepted
  /\ \A d \in DOMAIN accepted : accepted[d].jti \in DOMAIN tickets

\* Parameters were validated before they got anywhere, and travel unaltered.
Validated ==
  /\ \A r \in Requests : HasParams(r) => Valid(visit[r].params)
  /\ \A t \in DOMAIN tickets : Valid(tickets[t].params)

Typed == TypeOK /\ Known /\ Validated

-----------------------------------------------------------------------------
(* What a step does. *)

OnlyVisit == UNCHANGED <<storeVars, provider, users, histVars>>

Begins(r, pc, params) ==
  /\ params \in Params /\ Valid(params)
  /\ GoTo(r, [pc |-> pc, params |-> params])
  /\ OnlyVisit

LogsIn(r) == visit[r].pc \in {"get_by_username", "authenticate"}

TicketOf(r, sub) ==
  [sub |-> sub, params |-> visit[r].params, expires_at |-> now + TicketTtl]

MakesTicket(r, sub) ==
  /\ LogsIn(r) /\ requireConsent
  /\ tickets' = Append(tickets, TicketOf(r, sub))
  /\ GoTo(r, Idle)
  /\ UNCHANGED <<storeVars, provider, users, accepted, issued>>

Issues(r, sub) ==
  /\ LogsIn(r) /\ ~requireConsent
  /\ GoTo(r, IssuingCode(visit[r].params, sub, NotVia))
  /\ OnlyVisit

Submits(r, jti, approve) ==
  /\ jti \in DOMAIN tickets /\ approve \in BOOLEAN
  /\ GoTo(r, [pc |-> "consume_consent_ticket", jti |-> jti, approve |-> approve])
  /\ OnlyVisit

DecisionOf(r) == [jti |-> visit[r].jti, approve |-> visit[r].approve, at |-> now]

Decides(r) ==
  /\ At(r, "consume_consent_ticket")
  /\ ~TicketSeen(visit[r].jti)
  /\ ConsumeConsentTicket(visit[r].jti, tickets[visit[r].jti].expires_at)
  /\ accepted' = Append(accepted, DecisionOf(r))
  /\ GoTo(r, AfterDecision(r))
  /\ UNCHANGED <<provider, users, tickets, issued>>

DecidesAgain(r) ==
  /\ At(r, "consume_consent_ticket")
  /\ TicketSeen(visit[r].jti)
  /\ ConsumeConsentTicket(visit[r].jti, tickets[visit[r].jti].expires_at)
  /\ GoTo(r, Idle)
  /\ UNCHANGED <<provider, users, histVars>>

TicketBehind(d) == tickets[accepted[d].jti]

Consents(r) ==
  /\ At(r, "get_by_sub")
  /\ GoTo(r, IssuingCode(TicketBehind(visit[r].decision).params,
                         TicketBehind(visit[r].decision).sub, visit[r].decision))
  /\ OnlyVisit

CodeOf(r) ==
  [code |-> Len(issued) + 1, client_id |-> visit[r].params.client_id,
   redirect_uri |-> visit[r].params.redirect_uri,
   scope |-> visit[r].params.scope, sub |-> visit[r].sub,
   code_challenge |-> visit[r].params.code_challenge,
   expires_at |-> visit[r].expires_at]

IssueOf(r) ==
  [params |-> visit[r].params, sub |-> visit[r].sub, decision |-> visit[r].decision]

Saves(r) ==
  /\ At(r, "save_code")
  /\ SaveCode(CodeOf(r))
  /\ issued' = Append(issued, IssueOf(r))
  /\ GoTo(r, Idle)
  /\ UNCHANGED <<provider, users, tickets, accepted>>

Responds(r) == GoTo(r, Idle) /\ OnlyVisit

\* A user is removed, the clock ticks, or nothing happens.
Elapses ==
  /\ now' \in {now, now + 1}
  /\ users' \subseteq users
  /\ UNCHANGED <<codes, accessTokens, refreshTokens, consumedTokens,
                 revokedFamilies, consumedTickets, provider, visit, histVars>>

Does(r) ==
  \/ \E params \in Params : Begins(r, "get_by_username", params)
  \/ \E params \in Params : Begins(r, "authenticate", params)
  \/ \E sub \in users : MakesTicket(r, sub)
  \/ \E sub \in users : Issues(r, sub)
  \/ \E jti \in DOMAIN tickets, approve \in BOOLEAN : Submits(r, jti, approve)
  \/ Decides(r) \/ DecidesAgain(r) \/ Consents(r) \/ Saves(r) \/ Responds(r)

LEMMA LoggingInDoes ==
  ASSUME NEW r \in Requests, NEW sub \in users, LogsIn(r), LoggedIn(r, sub)
  PROVE  MakesTicket(r, sub) \/ Issues(r, sub)
BY DEF LoggedIn, MakesTicket, Issues, MakeConsentTicket, TicketOf, OnlyVisit

\* A step of the specification is one of these.
LEMMA Steps ==
  ASSUME [Next]_vars
  PROVE  (\E r \in Requests : Does(r)) \/ Elapses
<1>1. ASSUME NEW r \in Requests, Begin(r)
      PROVE  Does(r)
  BY <1>1 DEF Begin, Authorize, Login, SubmitConsent, Begins, Submits, OnlyVisit, Does
<1>2. ASSUME NEW r \in Requests, AutoLoginUser(r) \/ Authenticated(r)
      PROVE  Does(r)
  <2>1. LogsIn(r)
    BY <1>2 DEF AutoLoginUser, Authenticated, At, LogsIn
  <2>2. (\E sub \in users : LoggedIn(r, sub)) \/ Respond(r)
    BY <1>2 DEF AutoLoginUser, Authenticated
  <2>3. CASE Respond(r)
    BY <2>3 DEF Respond, Responds, OnlyVisit, Does
  <2>4. CASE \E sub \in users : LoggedIn(r, sub)
    BY <2>1, <2>4, LoggingInDoes DEF Does
  <2> QED
    BY <2>2, <2>3, <2>4
<1>3. ASSUME NEW r \in Requests, Decide(r)
      PROVE  Does(r)
  BY <1>3 DEF Decide, Decides, DecidesAgain, DecisionOf, Does, histVars
<1>4. ASSUME NEW r \in Requests, ConsentingUser(r)
      PROVE  Does(r)
  <2>1. Consents(r) \/ Responds(r)
    BY <1>4 DEF ConsentingUser, Consents, Responds, TicketBehind, OnlyVisit
  <2> QED
    BY <2>1 DEF Does
<1>5. ASSUME NEW r \in Requests, SaveIssuedCode(r)
      PROVE  Does(r)
  BY <1>5 DEF SaveIssuedCode, Saves, CodeOf, IssueOf, Does
<1>6. ASSUME NEW r \in Requests, StoreCallFails(r)
      PROVE  Does(r)
  BY <1>6 DEF StoreCallFails, Respond, Responds, OnlyVisit, Does
<1>7. ASSUME NEW sub \in users, RemoveUser(sub)
      PROVE  Elapses
  BY <1>7 DEF RemoveUser, Elapses, storeVars
<1>8. ASSUME Tick
      PROVE  Elapses
  BY <1>8 DEF Tick, ClockTick, Elapses
<1>9. ASSUME UNCHANGED vars
      PROVE  Elapses
  BY <1>9 DEF vars, storeVars, Elapses
<1> QED
  BY <1>1, <1>2, <1>3, <1>4, <1>5, <1>6, <1>7, <1>8, <1>9 DEF Next, Continue

-----------------------------------------------------------------------------
(* Types. *)

LEMMA Appended ==
  ASSUME NEW S, NEW seq \in Seq(S), NEW e \in S
  PROVE  /\ Append(seq, e) \in Seq(S)
         /\ DOMAIN Append(seq, e) = DOMAIN seq \cup {Len(seq) + 1}
         /\ Len(seq) + 1 \notin DOMAIN seq
         /\ \A i \in DOMAIN seq : Append(seq, e)[i] = seq[i] /\ i <= Len(seq) /\ i \in Nat
         /\ Append(seq, e)[Len(seq) + 1] = e
         /\ Len(seq) \in Nat
OBVIOUS

\* The local variables of a request, by its pc.
LEMMA LocalTyped ==
  ASSUME Typed, NEW r \in Requests
  PROVE  /\ visit[r] \in Local
         /\ LogsIn(r) => visit[r] \in LoggingIn /\ visit[r].params \in Params
                         /\ Valid(visit[r].params)
         /\ At(r, "consume_consent_ticket") =>
              /\ visit[r] \in Deciding /\ visit[r].approve \in BOOLEAN
              /\ visit[r].jti \in DOMAIN tickets /\ visit[r].jti \in Nat
         /\ At(r, "get_by_sub") =>
              /\ visit[r] \in Consenting
              /\ visit[r].decision \in DOMAIN accepted /\ visit[r].decision \in Nat
         /\ At(r, "save_code") =>
              /\ visit[r] \in Saving
              /\ visit[r].params \in Params /\ visit[r].sub \in Subs
              /\ visit[r].decision \in Nat /\ visit[r].expires_at \in Nat
              /\ Valid(visit[r].params)
<1>1. visit[r] \in Local
  BY DEF Typed, TypeOK, Local
<1>2. LogsIn(r) => visit[r] \in LoggingIn
  BY <1>1 DEF Local, Idle, LoggingIn, Deciding, Consenting, Saving, LogsIn
<1>3. At(r, "consume_consent_ticket") => visit[r] \in Deciding
  BY <1>1 DEF Local, Idle, LoggingIn, Deciding, Consenting, Saving, At
<1>4. At(r, "get_by_sub") => visit[r] \in Consenting
  BY <1>1 DEF Local, Idle, LoggingIn, Deciding, Consenting, Saving, At
<1>5. At(r, "save_code") => visit[r] \in Saving
  BY <1>1 DEF Local, Idle, LoggingIn, Deciding, Consenting, Saving, At
<1>6. visit[r] \in Deciding => visit[r].approve \in BOOLEAN /\ visit[r].jti \in Nat
  BY DEF Deciding
<1>7. HasParams(r) => Valid(visit[r].params)
  BY DEF Typed, Validated
<1>8. LogsIn(r) \/ At(r, "save_code") => HasParams(r)
  BY DEF LogsIn, At, HasParams
<1>9. visit[r] \in LoggingIn => visit[r].params \in Params
  BY DEF LoggingIn
<1>10. visit[r] \in Consenting => visit[r].decision \in Nat
  BY DEF Consenting
<1>11. visit[r] \in Saving =>
         /\ visit[r].params \in Params /\ visit[r].sub \in Subs
         /\ visit[r].decision \in Nat /\ visit[r].expires_at \in Nat
  BY DEF Saving
<1> QED
  BY <1>1, <1>2, <1>3, <1>4, <1>5, <1>6, <1>7, <1>8, <1>9, <1>10, <1>11 DEF Typed, Known

\* The decision in hand of a request that consents.
LEMMA BehindTyped ==
  ASSUME Typed, NEW d \in DOMAIN accepted
  PROVE  /\ accepted[d] \in Decision /\ accepted[d].jti \in DOMAIN tickets
         /\ TicketBehind(d) \in Ticket /\ TicketBehind(d).sub \in Subs
         /\ TicketBehind(d).params \in Params /\ Valid(TicketBehind(d).params)
         /\ TicketBehind(d).expires_at \in Nat
<1>1. accepted[d] \in Decision
  BY DEF Typed, TypeOK
<1>2. accepted[d].jti \in DOMAIN tickets
  BY DEF Typed, Known
<1>3. TicketBehind(d) \in Ticket
  BY <1>2 DEF Typed, TypeOK, TicketBehind
<1> QED
  BY <1>1, <1>2, <1>3 DEF Ticket, Typed, Validated, TicketBehind

LEMMA IssuingTyped ==
  ASSUME AuthorizeAssumption, Typed, NEW params \in Params, NEW sub \in Subs,
         NEW decision \in Nat
  PROVE  IssuingCode(params, sub, decision) \in Saving
<1>1. now + CodeTtl \in Nat
  BY DEF Typed, TypeOK, StoreTypeOK, AuthorizeAssumption
<1> QED
  BY <1>1 DEF IssuingCode, Saving

\* A validated request makes a well-typed code.
LEMMA CodeTyped ==
  ASSUME AuthorizeAssumption, Typed, NEW r \in Requests, At(r, "save_code")
  PROVE  CodeOf(r) \in AuthCode
<1>1. /\ visit[r].params \in Params /\ visit[r].sub \in Subs
      /\ visit[r].expires_at \in Nat /\ Valid(visit[r].params)
  BY LocalTyped
<1>2. Len(issued) + 1 \in Nat
  BY DEF Typed, TypeOK
<1>3. /\ visit[r].params.client_id \in Clients
      /\ visit[r].params.redirect_uri \in RedirectUris
      /\ visit[r].params.scope \in SUBSET Scopes
      /\ visit[r].params.code_challenge \in Challenges
  BY <1>1 DEF Valid, Params, AuthorizeAssumption
<1> QED
  BY <1>1, <1>2, <1>3 DEF CodeOf, AuthCode

\* The evictions keep the types of the store.
LEMMA TicketMarksTyped ==
  ASSUME StoreTypeOK, NEW jti \in Nat, NEW expires_at \in Nat,
         ConsumeConsentTicket(jti, expires_at)
  PROVE  StoreTypeOK'
<1>1. [jti |-> jti, expires_at |-> expires_at] \in ConsentTicketMark
  BY DEF ConsentTicketMark
<1>2. consumedTickets' \subseteq ConsentTicketMark
  BY <1>1 DEF ConsumeConsentTicket, Unexpired, StoreTypeOK
<1> QED
  BY <1>2 DEF ConsumeConsentTicket, StoreTypeOK

\* What happens to the local variables of the request that steps, given that
\* the histories only grow.
Grows ==
  /\ DOMAIN tickets \subseteq DOMAIN tickets'
  /\ \A t \in DOMAIN tickets : tickets'[t] = tickets[t]
  /\ DOMAIN accepted \subseteq DOMAIN accepted'
  /\ \A d \in DOMAIN accepted : accepted'[d] = accepted[d]

LEMMA VisitTyped ==
  ASSUME Typed, NEW r \in Requests, NEW v \in Local, GoTo(r, v), Grows,
         StoreTypeOK', users' \subseteq users, UNCHANGED provider,
         tickets' \in Seq(Ticket), accepted' \in Seq(Decision), issued' \in Seq(Issue),
         v.pc \in {"get_by_username", "authenticate", "save_code"} => Valid(v.params),
         v.pc = "consume_consent_ticket" => v.jti \in DOMAIN tickets',
         v.pc = "get_by_sub" => v.decision \in DOMAIN accepted',
         \A t \in DOMAIN tickets' \ DOMAIN tickets : Valid(tickets'[t].params),
         \A d \in DOMAIN accepted' \ DOMAIN accepted : accepted'[d].jti \in DOMAIN tickets'
  PROVE  Typed'
<1>1. visit \in [Requests -> Local]
  BY DEF Typed, TypeOK, Local
<1>2. visit' \in [Requests -> Local]
  BY <1>1 DEF GoTo
<1>3. TypeOK'
  BY <1>2 DEF Typed, TypeOK, Local, provider
<1>4. visit'[r] = v /\ \A q \in Requests \ {r} : visit'[q] = visit[q]
  BY <1>1 DEF GoTo
<1>5. Known'
  <2>1. ASSUME NEW q \in Requests
        PROVE  /\ visit'[q].pc = "consume_consent_ticket" => visit'[q].jti \in DOMAIN tickets'
               /\ visit'[q].pc = "get_by_sub" => visit'[q].decision \in DOMAIN accepted'
    BY <1>4 DEF Typed, Known, Grows, At
  <2>2. ASSUME NEW d \in DOMAIN accepted'
        PROVE  accepted'[d].jti \in DOMAIN tickets'
    BY DEF Typed, Known, Grows
  <2> QED
    BY <2>1, <2>2 DEF Known, At
<1>6. Validated'
  <2>1. ASSUME NEW q \in Requests,
               visit'[q].pc \in {"get_by_username", "authenticate", "save_code"}
        PROVE  Valid(visit'[q].params)
    BY <1>4, <2>1 DEF Typed, Validated, HasParams
  <2>2. ASSUME NEW t \in DOMAIN tickets'
        PROVE  Valid(tickets'[t].params)
    BY DEF Typed, Validated, Grows
  <2> QED
    BY <2>1, <2>2 DEF Validated, HasParams, Valid
<1> QED
  BY <1>3, <1>5, <1>6 DEF Typed

LEMMA OnlyVisitTyped ==
  ASSUME Typed, OnlyVisit
  PROVE  /\ Grows /\ StoreTypeOK' /\ users' \subseteq users /\ UNCHANGED provider
         /\ tickets' \in Seq(Ticket) /\ accepted' \in Seq(Decision)
         /\ issued' \in Seq(Issue)
         /\ UNCHANGED <<tickets, accepted>>
BY DEF Typed, TypeOK, StoreTypeOK, OnlyVisit, storeVars, histVars, Grows

LEMMA InitTyped ==
  ASSUME AuthorizeAssumption, Init
  PROVE  Typed
<1>1. StoreTypeOK
  BY DEF Init, StoreInit, StoreTypeOK
<1>2. TypeOK
  BY <1>1 DEF Init, TypeOK, Idle
<1>3. \A r \in Requests : visit[r].pc = "idle"
  BY DEF Init, Idle
<1> QED
  BY <1>2, <1>3 DEF Init, Typed, Known, Validated, HasParams, At

LEMMA DoesTyped ==
  ASSUME AuthorizeAssumption, Typed, NEW r \in Requests, Does(r)
  PROVE  Typed'
<1> DEFINE pcs == {"get_by_username", "authenticate"}
<1>1. Idle \in Local /\ Idle.pc = "idle"
  BY DEF Local, Idle
<1>2. ASSUME NEW pc \in pcs, NEW params \in Params, Begins(r, pc, params)
      PROVE  Typed'
  <2> DEFINE v == [pc |-> pc, params |-> params]
  <2>1. v \in Local /\ v.pc = pc /\ v.params = params
    BY DEF Local, LoggingIn
  <2>2. GoTo(r, v) /\ OnlyVisit /\ Valid(params)
    BY <1>2 DEF Begins
  <2>3. pc # "consume_consent_ticket" /\ pc # "get_by_sub"
    OBVIOUS
  <2> HIDE DEF v
  <2> QED
    BY <2>1, <2>2, <2>3, OnlyVisitTyped, VisitTyped
<1>3. ASSUME NEW sub \in users, MakesTicket(r, sub)
      PROVE  Typed'
  <2>1. visit[r].params \in Params /\ Valid(visit[r].params)
    BY <1>3, LocalTyped DEF MakesTicket
  <2>2. sub \in Subs /\ now + TicketTtl \in Nat
    BY DEF Typed, TypeOK, StoreTypeOK, AuthorizeAssumption
  <2>3. TicketOf(r, sub) \in Ticket
    BY <2>1, <2>2 DEF TicketOf, Ticket
  <2>4. Valid(TicketOf(r, sub).params)
    BY <2>1 DEF TicketOf
  <2>5. tickets \in Seq(Ticket) /\ tickets' = Append(tickets, TicketOf(r, sub))
    BY <1>3 DEF MakesTicket, Typed, TypeOK
  <2> HIDE DEF TicketOf
  <2>6. /\ tickets' \in Seq(Ticket)
        /\ DOMAIN tickets' = DOMAIN tickets \cup {Len(tickets) + 1}
        /\ \A t \in DOMAIN tickets : tickets'[t] = tickets[t]
        /\ tickets'[Len(tickets) + 1] = TicketOf(r, sub)
    BY <2>3, <2>5, Appended
  <2>7. \A t \in DOMAIN tickets' \ DOMAIN tickets : Valid(tickets'[t].params)
    BY <2>4, <2>6
  <2>8. Grows /\ DOMAIN accepted' \ DOMAIN accepted = {}
    BY <1>3, <2>6 DEF MakesTicket, Grows
  <2>9. /\ StoreTypeOK' /\ users' \subseteq users /\ UNCHANGED provider
        /\ accepted' \in Seq(Decision) /\ issued' \in Seq(Issue)
        /\ GoTo(r, Idle)
    BY <1>3 DEF MakesTicket, storeVars, Typed, TypeOK, StoreTypeOK
  <2> QED
    BY <1>1, <2>6, <2>7, <2>8, <2>9, VisitTyped
<1>4. ASSUME NEW sub \in users, Issues(r, sub)
      PROVE  Typed'
  <2> DEFINE v == IssuingCode(visit[r].params, sub, NotVia)
  <2>1. visit[r].params \in Params /\ Valid(visit[r].params) /\ sub \in Subs
    BY <1>4, LocalTyped DEF Issues, Typed, TypeOK
  <2>2. v \in Saving
    BY <2>1, IssuingTyped DEF NotVia
  <2>3. v \in Local /\ v.pc = "save_code" /\ v.params = visit[r].params
    BY <2>2 DEF IssuingCode, Local
  <2>4. GoTo(r, v) /\ OnlyVisit
    BY <1>4 DEF Issues
  <2> HIDE DEF v
  <2> QED
    BY <2>1, <2>3, <2>4, OnlyVisitTyped, VisitTyped
<1>5. ASSUME NEW jti \in DOMAIN tickets, NEW approve \in BOOLEAN, Submits(r, jti, approve)
      PROVE  Typed'
  <2> DEFINE v == [pc |-> "consume_consent_ticket", jti |-> jti, approve |-> approve]
  <2>1. jti \in Nat
    BY DEF Typed, TypeOK
  <2>2. v.pc = "consume_consent_ticket" /\ v.jti = jti
    OBVIOUS
  <2>3. v \in Deciding
    BY <2>1 DEF Deciding
  <2>4. GoTo(r, v) /\ OnlyVisit
    BY <1>5 DEF Submits
  <2> HIDE DEF v
  <2>5. v \in Local
    BY <2>3 DEF Local
  <2> QED
    BY <2>2, <2>4, <2>5, OnlyVisitTyped, VisitTyped
<1>6. ASSUME Decides(r)
      PROVE  Typed'
  <2> DEFINE v == AfterDecision(r)
  <2>1. /\ visit[r].approve \in BOOLEAN
        /\ visit[r].jti \in DOMAIN tickets /\ visit[r].jti \in Nat
    BY <1>6, LocalTyped DEF Decides
  <2>2. tickets[visit[r].jti].expires_at \in Nat
    <3>1. tickets[visit[r].jti] \in Ticket
      BY <2>1 DEF Typed, TypeOK
    <3> QED
      BY <3>1 DEF Ticket
  <2>3. StoreTypeOK'
    BY <1>6, <2>1, <2>2, TicketMarksTyped DEF Decides, Typed, TypeOK
  <2>4. DecisionOf(r) \in Decision /\ DecisionOf(r).jti = visit[r].jti
    BY <2>1 DEF DecisionOf, Decision, Typed, TypeOK, StoreTypeOK
  <2>5. accepted \in Seq(Decision) /\ accepted' = Append(accepted, DecisionOf(r))
    BY <1>6 DEF Decides, Typed, TypeOK
  <2> HIDE DEF DecisionOf
  <2>6. /\ accepted' \in Seq(Decision)
        /\ DOMAIN accepted' = DOMAIN accepted \cup {Len(accepted) + 1}
        /\ \A d \in DOMAIN accepted : accepted'[d] = accepted[d]
        /\ accepted'[Len(accepted) + 1] = DecisionOf(r)
        /\ Len(accepted) \in Nat
    BY <2>4, <2>5, Appended
  <2>7. /\ users' \subseteq users /\ UNCHANGED provider
        /\ tickets' = tickets /\ tickets' \in Seq(Ticket) /\ issued' \in Seq(Issue)
        /\ GoTo(r, v)
    BY <1>6 DEF Decides, Typed, TypeOK
  <2>8. Grows /\ DOMAIN tickets' \ DOMAIN tickets = {}
    BY <2>6, <2>7 DEF Grows
  <2>9. \A d \in DOMAIN accepted' \ DOMAIN accepted : accepted'[d].jti \in DOMAIN tickets'
    BY <2>1, <2>4, <2>6, <2>7
  <2>10. /\ v \in Local
         /\ v.pc = "idle" \/ (v.pc = "get_by_sub" /\ v.decision = Len(accepted) + 1)
    BY <1>1, <2>6 DEF AfterDecision, Local, Consenting
  <2> HIDE DEF v
  <2> QED
    BY <2>3, <2>6, <2>7, <2>8, <2>9, <2>10, VisitTyped
<1>7. ASSUME DecidesAgain(r)
      PROVE  Typed'
  <2>1. visit[r].jti \in DOMAIN tickets /\ visit[r].jti \in Nat
    BY <1>7, LocalTyped DEF DecidesAgain
  <2>2. tickets[visit[r].jti].expires_at \in Nat
    <3>1. tickets[visit[r].jti] \in Ticket
      BY <2>1 DEF Typed, TypeOK
    <3> QED
      BY <3>1 DEF Ticket
  <2>3. StoreTypeOK'
    BY <1>7, <2>1, <2>2, TicketMarksTyped DEF DecidesAgain, Typed, TypeOK
  <2>4. /\ users' \subseteq users /\ UNCHANGED provider
        /\ tickets' \in Seq(Ticket) /\ accepted' \in Seq(Decision) /\ issued' \in Seq(Issue)
        /\ UNCHANGED <<tickets, accepted>>
        /\ GoTo(r, Idle)
    BY <1>7 DEF DecidesAgain, histVars, Typed, TypeOK
  <2>5. Grows
    BY <2>4 DEF Grows
  <2> QED
    BY <1>1, <2>3, <2>4, <2>5, VisitTyped
<1>8. ASSUME Consents(r)
      PROVE  Typed'
  <2> DEFINE d == visit[r].decision
  <2> DEFINE v == IssuingCode(TicketBehind(d).params, TicketBehind(d).sub, d)
  <2>1. d \in DOMAIN accepted /\ d \in Nat
    BY <1>8, LocalTyped DEF Consents
  <2>2. /\ TicketBehind(d).params \in Params /\ Valid(TicketBehind(d).params)
        /\ TicketBehind(d).sub \in Subs
    BY <2>1, BehindTyped
  <2>3. v \in Saving
    BY <2>1, <2>2, IssuingTyped
  <2>4. v \in Local /\ v.pc = "save_code" /\ v.params = TicketBehind(d).params
    BY <2>3 DEF IssuingCode, Local
  <2>5. GoTo(r, v) /\ OnlyVisit
    BY <1>8 DEF Consents
  <2> HIDE DEF v, d
  <2> QED
    BY <2>2, <2>4, <2>5, OnlyVisitTyped, VisitTyped
<1>9. ASSUME Saves(r)
      PROVE  Typed'
  <2>1. CodeOf(r) \in AuthCode
    BY <1>9, CodeTyped DEF Saves
  <2>2. StoreTypeOK'
    BY <1>9, <2>1 DEF Saves, SaveCode, Unexpired, Typed, TypeOK, StoreTypeOK
  <2>3. IssueOf(r) \in Issue
    BY <1>9, LocalTyped DEF Saves, IssueOf, Issue
  <2>4. issued' \in Seq(Issue)
    BY <1>9, <2>3 DEF Saves, Typed, TypeOK
  <2>5. /\ users' \subseteq users /\ UNCHANGED provider
        /\ tickets' \in Seq(Ticket) /\ accepted' \in Seq(Decision)
        /\ UNCHANGED <<tickets, accepted>>
        /\ GoTo(r, Idle)
    BY <1>9 DEF Saves, Typed, TypeOK
  <2>6. Grows
    BY <2>5 DEF Grows
  <2> QED
    BY <1>1, <2>2, <2>4, <2>5, <2>6, VisitTyped
<1>10. ASSUME Responds(r)
       PROVE  Typed'
  BY <1>1, <1>10, OnlyVisitTyped, VisitTyped DEF Responds
<1> HIDE DEF pcs
<1>11. "get_by_username" \in pcs /\ "authenticate" \in pcs
  BY DEF pcs
<1> QED
  BY <1>2, <1>3, <1>4, <1>5, <1>6, <1>7, <1>8, <1>9, <1>10, <1>11 DEF Does

LEMMA ElapsesTyped ==
  ASSUME Typed, Elapses
  PROVE  Typed'
<1>1. StoreTypeOK'
  BY DEF Typed, TypeOK, StoreTypeOK, Elapses
<1>2. UNCHANGED <<visit, tickets, accepted, issued, requireConsent, autoLogin>>
  BY DEF Elapses, histVars, provider
<1>3. TypeOK'
  BY <1>1, <1>2 DEF Typed, TypeOK, Elapses
<1> QED
  BY <1>2, <1>3 DEF Typed, Known, Validated, At, HasParams, Valid

\* Type correctness, with what it rests on: ids held in local variables and in
\* the histories refer to entries that exist, and parameters past
\* _validate_authorize_params stay valid.
THEOREM TypeCorrect == Spec => [](TypeOK /\ Known /\ Validated)
<1>1. ASSUME Init
      PROVE  Typed
  BY <1>1, InitTyped, AuthorizeAssumption
<1>2. ASSUME Typed, [Next]_vars
      PROVE  Typed'
  BY <1>2, Steps, DoesTyped, ElapsesTyped, AuthorizeAssumption
<1>3. Typed => TypeOK /\ Known /\ Validated
  BY DEF Typed
<1> QED
  BY <1>1, <1>2, <1>3, PTL DEF Spec

-----------------------------------------------------------------------------
(* Codes are for registered clients. *)

\* The code that a validated request saves is one /authorize may issue.
LEMMA SavedCodeIsRegistered ==
  ASSUME AuthorizeAssumption, Typed, NEW r \in Requests, At(r, "save_code"),
         NEW c, c = CodeOf(r)
  PROVE  /\ <<c.client_id, c.redirect_uri>> \in Registered
         /\ "openid" \in c.scope
         /\ c.code_challenge \in Challenges
         /\ c.client_id \in PublicClients => c.code_challenge # NoChallenge
<1>1. visit[r].params \in Params /\ Valid(visit[r].params)
  BY LocalTyped
<1>2. CodeOf(r) \in AuthCode
  BY CodeTyped
<1>3. /\ c.client_id = visit[r].params.client_id
      /\ c.redirect_uri = visit[r].params.redirect_uri
      /\ c.scope = visit[r].params.scope
      /\ c.code_challenge = visit[r].params.code_challenge
  BY DEF CodeOf
<1> QED
  BY <1>1, <1>2, <1>3 DEF Valid, AuthCode

LEMMA CodesStep ==
  ASSUME AuthorizeAssumption, Typed, CodesForRegisteredClients, [Next]_vars
  PROVE  CodesForRegisteredClients'
<1>1. ASSUME NEW r \in Requests, Saves(r)
      PROVE  CodesForRegisteredClients'
  <2>1. codes' \subseteq codes \cup {CodeOf(r)} /\ At(r, "save_code")
    BY <1>1 DEF Saves, SaveCode, Unexpired
  <2> QED
    BY <2>1, SavedCodeIsRegistered DEF CodesForRegisteredClients
<1>2. ASSUME NEW r \in Requests, Does(r), ~Saves(r)
      PROVE  codes' = codes
  BY <1>2 DEF Does, Begins, MakesTicket, Issues, Submits, Decides, DecidesAgain, Consents,
              Responds, OnlyVisit, storeVars, ConsumeConsentTicket
<1>3. Elapses => codes' = codes
  BY DEF Elapses
<1>4. codes' = codes => CodesForRegisteredClients'
  BY DEF CodesForRegisteredClients
<1> QED
  BY <1>1, <1>2, <1>3, <1>4, Steps

\* Every code is for a registered client, one of its redirect URIs and an openid
\* scope, and bound by PKCE when its client is public, whatever the hidden form
\* fields brought along.
THEOREM CodesAreRegistered == Spec => []CodesForRegisteredClients
<1>1. ASSUME Init
      PROVE  Typed /\ CodesForRegisteredClients
  BY <1>1, InitTyped, AuthorizeAssumption
     DEF Init, StoreInit, CodesForRegisteredClients
<1>2. ASSUME Typed /\ CodesForRegisteredClients, [Next]_vars
      PROVE  (Typed /\ CodesForRegisteredClients)'
  BY <1>2, Steps, DoesTyped, ElapsesTyped, CodesStep, AuthorizeAssumption
<1> QED
  BY <1>1, <1>2, PTL DEF Spec

-----------------------------------------------------------------------------
(* Before its expiry a ticket is decided once. *)

\* The grant store remembers a decided ticket until the ticket expires.
Remembered ==
  \A d \in DOMAIN accepted :
    now < TicketBehind(d).expires_at =>
      \E m \in consumedTickets :
        m.jti = accepted[d].jti /\ m.expires_at = TicketBehind(d).expires_at

Tickets == Remembered /\ TicketDecidedOnceBeforeExpiry

\* The histories after a decision.
LEMMA DecidesAppends ==
  ASSUME Typed, NEW r \in Requests, Decides(r)
  PROVE  /\ DOMAIN accepted' = DOMAIN accepted \cup {Len(accepted) + 1}
         /\ Len(accepted) + 1 \notin DOMAIN accepted
         /\ Len(accepted) \in Nat
         /\ \A d \in DOMAIN accepted :
              accepted'[d] = accepted[d] /\ d <= Len(accepted) /\ d \in Nat
         /\ accepted'[Len(accepted) + 1] = DecisionOf(r)
         /\ tickets' = tickets /\ issued' = issued
         /\ now' = now
<1>1. /\ visit[r].approve \in BOOLEAN /\ visit[r].jti \in Nat
  BY LocalTyped DEF Decides
<1>2. DecisionOf(r) \in Decision
  BY <1>1 DEF DecisionOf, Decision, Typed, TypeOK, StoreTypeOK
<1>3. accepted \in Seq(Decision) /\ accepted' = Append(accepted, DecisionOf(r))
  BY DEF Decides, Typed, TypeOK
<1> HIDE DEF DecisionOf
<1>4. tickets' = tickets /\ issued' = issued /\ now' = now
  BY DEF Decides, ConsumeConsentTicket
<1> QED
  BY <1>2, <1>3, <1>4, Appended

LEMMA DecidesRemembers ==
  ASSUME Typed, Tickets, NEW r \in Requests, Decides(r)
  PROVE  Tickets'
<1> DEFINE n == Len(accepted) + 1
<1> DEFINE jti == visit[r].jti
<1> DEFINE mark == [jti |-> jti, expires_at |-> tickets[jti].expires_at]
<1>1. /\ DOMAIN accepted' = DOMAIN accepted \cup {n}
      /\ n \notin DOMAIN accepted /\ n \in Nat
      /\ \A d \in DOMAIN accepted : accepted'[d] = accepted[d] /\ d < n /\ d \in Nat
      /\ accepted'[n].jti = jti /\ accepted'[n].at = now
      /\ tickets' = tickets /\ now' = now
  <2>1. DecisionOf(r).jti = jti /\ DecisionOf(r).at = now
    BY DEF DecisionOf
  <2>2. /\ DOMAIN accepted' = DOMAIN accepted \cup {n} /\ n \notin DOMAIN accepted
        /\ accepted'[n] = DecisionOf(r) /\ tickets' = tickets /\ now' = now
    BY DecidesAppends
  <2>3. /\ n \in Nat
        /\ \A d \in DOMAIN accepted : accepted'[d] = accepted[d] /\ d < n /\ d \in Nat
    BY DecidesAppends
  <2> QED
    BY <2>1, <2>2, <2>3
<1>2. consumedTickets' = Unexpired(consumedTickets) \cup {mark} /\ ~TicketSeen(jti)
  BY DEF Decides, ConsumeConsentTicket
<1>3. mark.jti = jti /\ mark.expires_at = tickets[jti].expires_at
  OBVIOUS
<1>4. now \in Nat
  BY DEF Typed, TypeOK, StoreTypeOK
<1> HIDE DEF mark, n, jti
<1>5. Remembered'
  <2> SUFFICES ASSUME NEW d \in DOMAIN accepted',
                      now < tickets[accepted'[d].jti].expires_at
               PROVE  \E m \in consumedTickets' :
                        /\ m.jti = accepted'[d].jti
                        /\ m.expires_at = tickets[accepted'[d].jti].expires_at
    BY <1>1 DEF Remembered, TicketBehind
  <2>1. CASE d = n
    BY <1>1, <1>2, <1>3, <2>1
  <2>2. CASE d \in DOMAIN accepted
    <3>1. PICK m \in consumedTickets :
            m.jti = accepted[d].jti /\ m.expires_at = tickets[accepted[d].jti].expires_at
      BY <1>1, <2>2 DEF Tickets, Remembered, TicketBehind
    <3>2. tickets[accepted[d].jti].expires_at \in Nat
      BY <2>2, BehindTyped DEF TicketBehind
    <3>3. m \in Unexpired(consumedTickets)
      BY <1>1, <1>4, <2>2, <3>1, <3>2 DEF Unexpired, Expired
    <3> QED
      BY <1>1, <1>2, <2>2, <3>1, <3>3
  <2> QED
    BY <1>1, <2>1, <2>2
<1>6. ASSUME NEW i \in DOMAIN accepted', NEW j \in DOMAIN accepted', i < j,
             accepted'[i].jti = accepted'[j].jti
      PROVE  accepted'[j].at >= tickets[accepted'[j].jti].expires_at
  <2>1. CASE j \in DOMAIN accepted
    <3>1. i \in DOMAIN accepted
      BY <1>1, <1>6, <2>1
    <3>2. <<i, j>> \in Earlier(accepted)
      BY <1>6, <2>1, <3>1 DEF Earlier
    <3>3. accepted[<<i, j>>[2]].at >= tickets[accepted[<<i, j>>[2]].jti].expires_at
      BY <1>1, <1>6, <2>1, <3>1, <3>2 DEF Tickets, TicketDecidedOnceBeforeExpiry
    <3> QED
      BY <1>1, <2>1, <3>3
  <2>2. CASE j = n
    <3>1. i \in DOMAIN accepted /\ accepted[i].jti = jti
      BY <1>1, <1>6, <2>2
    <3>2. tickets[jti].expires_at \in Nat
      BY <3>1, BehindTyped DEF TicketBehind
    <3>3. ASSUME now < tickets[jti].expires_at
          PROVE  FALSE
      <4>1. PICK m \in consumedTickets :
              m.jti = jti /\ m.expires_at = tickets[jti].expires_at
        BY <3>1, <3>3 DEF Tickets, Remembered, TicketBehind
      <4>2. m \in Unexpired(consumedTickets)
        BY <1>4, <3>2, <3>3, <4>1 DEF Unexpired, Expired
      <4> QED
        BY <1>2, <4>1, <4>2 DEF TicketSeen
    <3> QED
      BY <1>1, <1>4, <2>2, <3>2, <3>3
  <2> QED
    BY <1>1, <2>1, <2>2
<1>7. TicketDecidedOnceBeforeExpiry'
  <2> SUFFICES ASSUME NEW ij \in Earlier(accepted'),
                      accepted'[ij[1]].jti = accepted'[ij[2]].jti
               PROVE  accepted'[ij[2]].at >= tickets'[accepted'[ij[2]].jti].expires_at
    BY DEF TicketDecidedOnceBeforeExpiry, Earlier
  <2>1. ij[1] \in DOMAIN accepted' /\ ij[2] \in DOMAIN accepted' /\ ij[1] < ij[2]
    BY DEF Earlier
  <2> QED
    BY <1>1, <1>6, <2>1
<1> QED
  BY <1>5, <1>7 DEF Tickets

\* Steps that decide nothing.
LEMMA UndecidedRemembers ==
  ASSUME Typed, Tickets, accepted' = accepted,
         \A t \in DOMAIN tickets : tickets'[t] = tickets[t],
         now' \in {now, now + 1},
         \A m \in consumedTickets : now < m.expires_at => m \in consumedTickets'
  PROVE  Tickets'
<1>1. now \in Nat /\ now' \in Nat /\ now' >= now
  BY DEF Typed, TypeOK, StoreTypeOK
<1>2. \A d \in DOMAIN accepted :
        /\ accepted[d].jti \in DOMAIN tickets
        /\ tickets'[accepted[d].jti] = tickets[accepted[d].jti]
        /\ tickets[accepted[d].jti].expires_at \in Nat
  BY BehindTyped DEF TicketBehind
<1>3. Remembered'
  <2> SUFFICES ASSUME NEW d \in DOMAIN accepted,
                      now' < tickets'[accepted[d].jti].expires_at
               PROVE  \E m \in consumedTickets' :
                        /\ m.jti = accepted[d].jti
                        /\ m.expires_at = tickets'[accepted[d].jti].expires_at
    BY DEF Remembered, TicketBehind
  <2>1. now < tickets[accepted[d].jti].expires_at
    BY <1>1, <1>2
  <2>2. PICK m \in consumedTickets :
          m.jti = accepted[d].jti /\ m.expires_at = tickets[accepted[d].jti].expires_at
    BY <2>1 DEF Tickets, Remembered, TicketBehind
  <2> QED
    BY <1>2, <2>1, <2>2
<1>4. TicketDecidedOnceBeforeExpiry'
  <2> SUFFICES ASSUME NEW ij \in Earlier(accepted),
                      accepted[ij[1]].jti = accepted[ij[2]].jti
               PROVE  accepted[ij[2]].at >= tickets'[accepted[ij[2]].jti].expires_at
    BY DEF TicketDecidedOnceBeforeExpiry, Earlier
  <2>1. ij[2] \in DOMAIN accepted
    BY DEF Earlier
  <2>2. accepted[ij[2]].at >= tickets[accepted[ij[2]].jti].expires_at
    BY DEF Tickets, TicketDecidedOnceBeforeExpiry
  <2> QED
    BY <1>2, <2>1, <2>2
<1> QED
  BY <1>3, <1>4 DEF Tickets

\* What the other steps leave of the tickets.
LEMMA TicketsKept ==
  ASSUME Typed, NEW r \in Requests, Does(r), ~Decides(r)
  PROVE  /\ accepted' = accepted
         /\ DOMAIN tickets \subseteq DOMAIN tickets'
         /\ \A t \in DOMAIN tickets : tickets'[t] = tickets[t]
         /\ now' = now
         /\ \A m \in consumedTickets : now < m.expires_at => m \in consumedTickets'
         /\ requireConsent' = requireConsent
<1>1. CASE \E sub \in users : MakesTicket(r, sub)
  <2>1. PICK sub \in users : MakesTicket(r, sub)
    BY <1>1
  <2>2. visit[r].params \in Params
    BY <2>1, LocalTyped DEF MakesTicket
  <2>3. TicketOf(r, sub) \in Ticket
    BY <2>2, AuthorizeAssumption DEF TicketOf, Ticket, Typed, TypeOK, StoreTypeOK, AuthorizeAssumption
  <2>4. tickets \in Seq(Ticket) /\ tickets' = Append(tickets, TicketOf(r, sub))
    BY <2>1 DEF MakesTicket, Typed, TypeOK
  <2>5. \A t \in DOMAIN tickets : tickets'[t] = tickets[t]
    BY <2>3, <2>4, Appended
  <2>6. DOMAIN tickets \subseteq DOMAIN tickets'
    BY <2>3, <2>4, Appended
  <2> QED
    BY <2>1, <2>5, <2>6 DEF MakesTicket, storeVars, provider
<1>2. CASE DecidesAgain(r)
  <2>1. /\ UNCHANGED <<accepted, tickets, now, requireConsent>>
        /\ Unexpired(consumedTickets) \subseteq consumedTickets'
    BY <1>2 DEF DecidesAgain, ConsumeConsentTicket, histVars, provider
  <2>2. visit[r].jti \in Nat /\ now \in Nat /\ consumedTickets \subseteq ConsentTicketMark
    BY <1>2, LocalTyped DEF DecidesAgain, Typed, TypeOK, StoreTypeOK
  <2>3. \A m \in consumedTickets : now < m.expires_at => m \in Unexpired(consumedTickets)
    BY <2>2 DEF Unexpired, Expired, ConsentTicketMark
  <2> QED
    BY <2>1, <2>3
<1>3. CASE ~DecidesAgain(r) /\ ~\E sub \in users : MakesTicket(r, sub)
  BY <1>3 DEF Does, Begins, Issues, Submits, Consents, Saves, SaveCode, Responds, OnlyVisit,
              storeVars, histVars, provider
<1> QED
  BY <1>1, <1>2, <1>3

LEMMA TicketsStep ==
  ASSUME Typed, Tickets, [Next]_vars
  PROVE  Tickets'
<1>1. ASSUME NEW r \in Requests, Does(r), ~Decides(r)
      PROVE  Tickets'
  BY <1>1, TicketsKept, UndecidedRemembers
<1>2. CASE Elapses
  BY <1>2, UndecidedRemembers DEF Elapses, histVars
<1> QED
  BY <1>1, <1>2, DecidesRemembers, Steps

\* Before its expiry a ticket is decided once: the store remembers it at least
\* until then, however submissions race.
THEOREM TicketsAreDecidedOnce == Spec => []TicketDecidedOnceBeforeExpiry
<1>1. ASSUME Init
      PROVE  Typed /\ Tickets
  BY <1>1, InitTyped, AuthorizeAssumption
     DEF Init, Tickets, Remembered, TicketDecidedOnceBeforeExpiry, Earlier
<1>2. ASSUME Typed /\ Tickets, [Next]_vars
      PROVE  (Typed /\ Tickets)'
  BY <1>2, Steps, DoesTyped, ElapsesTyped, TicketsStep, AuthorizeAssumption
<1>3. Tickets => TicketDecidedOnceBeforeExpiry
  BY DEF Tickets
<1> QED
  BY <1>1, <1>2, <1>3, PTL DEF Spec

-----------------------------------------------------------------------------
(* A code follows a consent of its own. *)

\* Decision d is an approval, of a ticket for this subject and these parameters.
Warrants(d, params, sub) ==
  /\ d \in DOMAIN accepted /\ accepted[d].approve
  /\ TicketBehind(d).sub = sub /\ TicketBehind(d).params = params

Warranted ==
  /\ \A r \in Requests : At(r, "get_by_sub") => accepted[visit[r].decision].approve
  /\ \A r \in Requests : At(r, "save_code") =>
       Warrants(visit[r].decision, visit[r].params, visit[r].sub)
  /\ \A c \in DOMAIN issued :
       Warrants(issued[c].decision, issued[c].params, issued[c].sub)

\* A decision is in one place: with one request, or behind one code.
Unshared ==
  /\ \A r, q \in Requests :
       HasDecision(r) /\ HasDecision(q) /\ r # q => visit[r].decision # visit[q].decision
  /\ \A r \in Requests, c \in DOMAIN issued :
       HasDecision(r) => issued[c].decision # visit[r].decision
  /\ \A c, e \in DOMAIN issued : c # e => issued[c].decision # issued[e].decision

Consent == requireConsent => Warranted /\ Unshared

\* Decision d does so after the step.
WillWarrant(d, params, sub) ==
  /\ d \in DOMAIN accepted' /\ accepted'[d].approve
  /\ tickets'[accepted'[d].jti].sub = sub
  /\ tickets'[accepted'[d].jti].params = params

\* What is warranted stays so.
LEMMA WarrantsKept ==
  ASSUME Typed, NEW r \in Requests, Does(r), NEW d, NEW params, NEW sub,
         Warrants(d, params, sub)
  PROVE  /\ d \in DOMAIN accepted' /\ accepted'[d] = accepted[d]
         /\ accepted'[d].approve
         /\ tickets'[accepted'[d].jti] = TicketBehind(d)
         /\ WillWarrant(d, params, sub)
<1>1. d \in DOMAIN accepted /\ accepted[d].jti \in DOMAIN tickets
  BY BehindTyped DEF Warrants
<1>2. d \in DOMAIN accepted' /\ accepted'[d] = accepted[d]
  BY <1>1, TicketsKept, DecidesAppends
<1>3. tickets'[accepted[d].jti] = tickets[accepted[d].jti]
  BY <1>1, TicketsKept, DecidesAppends
<1> QED
  BY <1>1, <1>2, <1>3 DEF Warrants, WillWarrant, TicketBehind

\* A step that neither takes up nor hands on a decision.
LEMMA NoDecisionKeepsConsent ==
  ASSUME Typed, Consent, NEW r \in Requests, Does(r), requireConsent' = requireConsent,
         NEW v, GoTo(r, v), v.pc \notin {"get_by_sub", "save_code"},
         issued' = issued
  PROVE  Consent'
<1> SUFFICES ASSUME requireConsent
             PROVE  Warranted' /\ Unshared'
  BY DEF Consent
<1> USE DEF Consent
<1>1. visit'[r] = v /\ \A q \in Requests \ {r} : visit'[q] = visit[q]
  BY DEF GoTo, Typed, TypeOK
<1>2. ASSUME NEW q \in Requests, visit'[q].pc \in {"get_by_sub", "save_code"}
      PROVE  q # r /\ visit'[q] = visit[q] /\ HasDecision(q)
  BY <1>1, <1>2 DEF HasDecision
<1>3. ASSUME NEW q \in Requests, visit'[q].pc = "get_by_sub"
      PROVE  accepted'[visit'[q].decision].approve
  <2>1. visit'[q] = visit[q] /\ At(q, "get_by_sub")
    BY <1>2, <1>3 DEF At
  <2>2. visit[q].decision \in DOMAIN accepted
    BY <2>1, LocalTyped
  <2>3. Warrants(visit[q].decision, TicketBehind(visit[q].decision).params,
                 TicketBehind(visit[q].decision).sub)
    BY <2>1, <2>2 DEF Warranted, Warrants
  <2> QED
    BY <2>1, <2>3, WarrantsKept
<1>4. ASSUME NEW q \in Requests, visit'[q].pc = "save_code"
      PROVE  WillWarrant(visit'[q].decision, visit'[q].params, visit'[q].sub)
  <2>1. visit'[q] = visit[q] /\ At(q, "save_code")
    BY <1>2, <1>4 DEF At
  <2>2. Warrants(visit[q].decision, visit[q].params, visit[q].sub)
    BY <2>1 DEF Warranted
  <2> QED
    BY <2>1, <2>2, WarrantsKept
<1>5. ASSUME NEW c \in DOMAIN issued
      PROVE  WillWarrant(issued'[c].decision, issued'[c].params, issued'[c].sub)
  <2>1. Warrants(issued[c].decision, issued[c].params, issued[c].sub)
    BY DEF Warranted
  <2> QED
    BY <2>1, WarrantsKept
<1>6. Warranted'
  BY <1>3, <1>4, <1>5 DEF Warranted, WillWarrant, Warrants, TicketBehind, At
<1>7. Unshared'
  BY <1>2 DEF Unshared, HasDecision
<1> QED
  BY <1>6, <1>7

\* A fresh decision is one that nothing refers to yet.
LEMMA DecidesKeepsConsent ==
  ASSUME Typed, Consent, NEW r \in Requests, Decides(r)
  PROVE  Consent'
<1> DEFINE n == Len(accepted) + 1
<1> DEFINE v == AfterDecision(r)
<1>1. Does(r) /\ requireConsent' = requireConsent /\ issued' = issued /\ GoTo(r, v)
  BY DEF Decides, Does, provider
<1> SUFFICES ASSUME requireConsent
             PROVE  Warranted' /\ Unshared'
  BY <1>1 DEF Consent
<1>2. n \notin DOMAIN accepted /\ n \in DOMAIN accepted'
  BY DecidesAppends
<1>3. accepted'[n].approve = visit[r].approve
  <2>1. DecisionOf(r).approve = visit[r].approve
    BY DEF DecisionOf
  <2> QED
    BY <2>1, DecidesAppends
<1>4. v.pc = "idle" \/ (v.pc = "get_by_sub" /\ v.decision = n /\ visit[r].approve)
  BY DEF AfterDecision, Idle
<1>5. visit'[r] = v /\ \A q \in Requests \ {r} : visit'[q] = visit[q]
  BY <1>1 DEF GoTo, Typed, TypeOK
<1> HIDE DEF n, v
<1>6. ASSUME NEW q \in Requests, visit'[q].pc \in {"get_by_sub", "save_code"}, q # r
      PROVE  /\ visit'[q] = visit[q] /\ HasDecision(q)
             /\ visit[q].decision \in DOMAIN accepted /\ visit[q].decision # n
  <2>1. visit'[q] = visit[q] /\ HasDecision(q)
    BY <1>5, <1>6 DEF HasDecision
  <2>2. visit[q].decision \in DOMAIN accepted
    BY <2>1, LocalTyped DEF HasDecision, Consent, Warranted, Warrants, At
  <2> QED
    BY <1>2, <2>1, <2>2
<1>7. ASSUME NEW q \in Requests, visit'[q].pc = "get_by_sub"
      PROVE  accepted'[visit'[q].decision].approve
  <2>1. CASE q = r
    BY <1>3, <1>4, <1>5, <1>7, <2>1
  <2>2. CASE q # r
    <3>1. /\ visit'[q] = visit[q] /\ At(q, "get_by_sub")
          /\ visit[q].decision \in DOMAIN accepted
      BY <1>6, <1>7, <2>2 DEF At
    <3>2. Warrants(visit[q].decision, TicketBehind(visit[q].decision).params,
                   TicketBehind(visit[q].decision).sub)
      BY <3>1 DEF Consent, Warranted, Warrants
    <3> QED
      BY <1>1, <3>1, <3>2, WarrantsKept
  <2> QED
    BY <2>1, <2>2
<1>8. ASSUME NEW q \in Requests, visit'[q].pc = "save_code"
      PROVE  WillWarrant(visit'[q].decision, visit'[q].params, visit'[q].sub)
  <2>1. q # r
    BY <1>4, <1>5, <1>8
  <2>2. visit'[q] = visit[q] /\ At(q, "save_code")
    BY <1>5, <1>8, <2>1 DEF At
  <2>3. Warrants(visit[q].decision, visit[q].params, visit[q].sub)
    BY <2>2 DEF Consent, Warranted
  <2> QED
    BY <1>1, <2>2, <2>3, WarrantsKept
<1>9. ASSUME NEW c \in DOMAIN issued
      PROVE  /\ WillWarrant(issued'[c].decision, issued'[c].params, issued'[c].sub)
             /\ issued[c].decision # n
  <2>1. Warrants(issued[c].decision, issued[c].params, issued[c].sub)
    BY DEF Consent, Warranted
  <2>2. issued[c].decision \in DOMAIN accepted
    BY <2>1 DEF Warrants
  <2> QED
    BY <1>1, <1>2, <2>1, <2>2, WarrantsKept
<1>10. Warranted'
  BY <1>1, <1>7, <1>8, <1>9 DEF Warranted, WillWarrant, Warrants, TicketBehind, At
<1>11. ASSUME NEW q \in Requests, NEW p \in Requests, q # p,
              visit'[q].pc \in {"get_by_sub", "save_code"},
              visit'[p].pc \in {"get_by_sub", "save_code"}
       PROVE  visit'[q].decision # visit'[p].decision
  BY <1>4, <1>5, <1>6, <1>11 DEF Consent, Unshared
<1>12. ASSUME NEW q \in Requests, NEW c \in DOMAIN issued,
              visit'[q].pc \in {"get_by_sub", "save_code"}
       PROVE  issued[c].decision # visit'[q].decision
  BY <1>4, <1>5, <1>6, <1>9, <1>12 DEF Consent, Unshared
<1>13. Unshared'
  BY <1>1, <1>11, <1>12 DEF Unshared, HasDecision, Consent
<1> QED
  BY <1>10, <1>13

\* A decision is handed on from get_by_sub to save_code.
LEMMA ConsentsKeepsConsent ==
  ASSUME Typed, Consent, NEW r \in Requests, Consents(r)
  PROVE  Consent'
<1> DEFINE d == visit[r].decision
<1> DEFINE v == IssuingCode(TicketBehind(d).params, TicketBehind(d).sub, d)
<1>1. /\ Does(r) /\ UNCHANGED <<requireConsent, tickets, accepted, issued>>
      /\ GoTo(r, v) /\ At(r, "get_by_sub")
  BY DEF Consents, Does, OnlyVisit, provider, histVars
<1> SUFFICES ASSUME requireConsent
             PROVE  Warranted' /\ Unshared'
  BY <1>1 DEF Consent
<1>2. /\ v.pc = "save_code" /\ v.decision = d
      /\ v.params = TicketBehind(d).params /\ v.sub = TicketBehind(d).sub
  BY DEF IssuingCode
<1>3. visit'[r] = v /\ \A q \in Requests \ {r} : visit'[q] = visit[q]
  BY <1>1 DEF GoTo, Typed, TypeOK
<1>4. Warrants(d, v.params, v.sub)
  <2>1. d \in DOMAIN accepted
    BY <1>1, LocalTyped
  <2>2. accepted[d].approve
    BY <1>1 DEF Consent, Warranted
  <2> QED
    BY <1>2, <2>1, <2>2 DEF Warrants
<1>5. HasDecision(r)
  BY <1>1 DEF At, HasDecision
<1>6. \A q \in Requests \ {r} : HasDecision(q) => visit[q].decision # d
  BY <1>5 DEF Consent, Unshared
<1>7. \A c \in DOMAIN issued : issued[c].decision # d
  BY <1>5 DEF Consent, Unshared
<1> HIDE DEF v, d
<1>8. Warranted'
  <2>1. ASSUME NEW q \in Requests, visit'[q].pc = "get_by_sub"
        PROVE  accepted[visit'[q].decision].approve
    BY <1>2, <1>3, <2>1 DEF Consent, Warranted, At
  <2>2. ASSUME NEW q \in Requests, visit'[q].pc = "save_code"
        PROVE  Warrants(visit'[q].decision, visit'[q].params, visit'[q].sub)
    BY <1>2, <1>3, <1>4, <2>2 DEF Consent, Warranted, At
  <2> QED
    BY <1>1, <2>1, <2>2 DEF Consent, Warranted, Warrants, TicketBehind, At
<1>9. ASSUME NEW q \in Requests, NEW p \in Requests, q # p,
             visit'[q].pc \in {"get_by_sub", "save_code"},
             visit'[p].pc \in {"get_by_sub", "save_code"}
      PROVE  visit'[q].decision # visit'[p].decision
  BY <1>2, <1>3, <1>6, <1>9 DEF Consent, Unshared, HasDecision
<1>10. ASSUME NEW q \in Requests, NEW c \in DOMAIN issued,
              visit'[q].pc \in {"get_by_sub", "save_code"}
       PROVE  issued[c].decision # visit'[q].decision
  BY <1>2, <1>3, <1>7, <1>10 DEF Consent, Unshared, HasDecision
<1>11. Unshared'
  BY <1>1, <1>9, <1>10 DEF Unshared, HasDecision, Consent
<1> QED
  BY <1>8, <1>11

\* The code takes the decision over from the request.
LEMMA SavesKeepsConsent ==
  ASSUME Typed, Consent, NEW r \in Requests, Saves(r)
  PROVE  Consent'
<1> DEFINE n == Len(issued) + 1
<1> DEFINE d == visit[r].decision
<1>1. /\ UNCHANGED <<requireConsent, tickets, accepted>>
      /\ GoTo(r, Idle) /\ At(r, "save_code")
  BY DEF Saves, provider
<1> SUFFICES ASSUME requireConsent
             PROVE  Warranted' /\ Unshared'
  BY <1>1 DEF Consent
<1>2. visit'[r].pc = "idle" /\ \A q \in Requests \ {r} : visit'[q] = visit[q]
  BY <1>1 DEF GoTo, Idle, Typed, TypeOK
<1>3. /\ IssueOf(r) \in Issue /\ IssueOf(r).decision = d
      /\ IssueOf(r).params = visit[r].params /\ IssueOf(r).sub = visit[r].sub
  BY <1>1, LocalTyped DEF IssueOf, Issue
<1>4. issued \in Seq(Issue) /\ issued' = Append(issued, IssueOf(r))
  BY DEF Saves, Typed, TypeOK
<1>5. Warrants(d, visit[r].params, visit[r].sub)
  BY <1>1 DEF Consent, Warranted
<1>6. HasDecision(r)
  BY <1>1 DEF At, HasDecision
<1>7. \A q \in Requests \ {r} : HasDecision(q) => visit[q].decision # d
  BY <1>6 DEF Consent, Unshared
<1>8. \A c \in DOMAIN issued : issued[c].decision # d
  BY <1>6 DEF Consent, Unshared
<1> HIDE DEF IssueOf
<1>9. /\ DOMAIN issued' = DOMAIN issued \cup {n}
      /\ n \notin DOMAIN issued
      /\ \A c \in DOMAIN issued : issued'[c] = issued[c]
      /\ issued'[n] = IssueOf(r)
  BY <1>3, <1>4, Appended
<1> HIDE DEF d, n
<1>10. ASSUME NEW q \in Requests, visit'[q].pc \in {"get_by_sub", "save_code"}
       PROVE  q # r /\ visit'[q] = visit[q] /\ HasDecision(q)
  BY <1>2, <1>10 DEF HasDecision
<1>11. Warranted'
  <2>1. ASSUME NEW q \in Requests, visit'[q].pc = "get_by_sub"
        PROVE  accepted[visit'[q].decision].approve
    BY <1>10, <2>1 DEF Consent, Warranted, At
  <2>2. ASSUME NEW q \in Requests, visit'[q].pc = "save_code"
        PROVE  Warrants(visit'[q].decision, visit'[q].params, visit'[q].sub)
    BY <1>10, <2>2 DEF Consent, Warranted, At
  <2>3. ASSUME NEW c \in DOMAIN issued'
        PROVE  Warrants(issued'[c].decision, issued'[c].params, issued'[c].sub)
    BY <1>3, <1>5, <1>9 DEF Consent, Warranted
  <2> QED
    BY <1>1, <2>1, <2>2, <2>3 DEF Warranted, Warrants, TicketBehind, At
<1>12. ASSUME NEW q \in Requests, NEW c \in DOMAIN issued',
              visit'[q].pc \in {"get_by_sub", "save_code"}
       PROVE  issued'[c].decision # visit'[q].decision
  <2>1. q # r /\ visit'[q] = visit[q] /\ HasDecision(q)
    BY <1>10, <1>12
  <2>2. visit[q].decision # d
    BY <1>7, <2>1
  <2>3. CASE c = n
    BY <1>3, <1>9, <2>1, <2>2, <2>3
  <2>4. CASE c \in DOMAIN issued
    BY <1>9, <2>1, <2>4 DEF Consent, Unshared
  <2> QED
    BY <1>9, <2>3, <2>4
<1>13. ASSUME NEW c \in DOMAIN issued', NEW e \in DOMAIN issued', c # e
       PROVE  issued'[c].decision # issued'[e].decision
  BY <1>3, <1>8, <1>9, <1>13 DEF Consent, Unshared
<1>14. ASSUME NEW q \in Requests, NEW p \in Requests, q # p,
              visit'[q].pc \in {"get_by_sub", "save_code"},
              visit'[p].pc \in {"get_by_sub", "save_code"}
       PROVE  visit'[q].decision # visit'[p].decision
  BY <1>10, <1>14 DEF Consent, Unshared
<1>15. Unshared'
  BY <1>12, <1>13, <1>14 DEF Unshared, HasDecision
<1> QED
  BY <1>11, <1>15

LEMMA ConsentStep ==
  ASSUME Typed, Consent, [Next]_vars
  PROVE  Consent'
<1>1. ASSUME NEW r \in Requests, Does(r)
      PROVE  Consent'
  <2>1. CASE Decides(r)
    BY <2>1, DecidesKeepsConsent
  <2>2. CASE Consents(r)
    BY <2>2, ConsentsKeepsConsent
  <2>3. CASE Saves(r)
    BY <2>3, SavesKeepsConsent
  <2>4. CASE \E sub \in users : Issues(r, sub)
    <3>1. ~requireConsent /\ requireConsent' = requireConsent
      BY <2>4 DEF Issues, OnlyVisit, provider
    <3> QED
      BY <3>1 DEF Consent
  <2>5. CASE ~(Decides(r) \/ Consents(r) \/ Saves(r) \/ \E sub \in users : Issues(r, sub))
    <3>1. requireConsent' = requireConsent
      BY <1>1, <2>5, TicketsKept
    <3>2. issued' = issued
      BY <1>1, <2>5 DEF Does, Begins, MakesTicket, Submits, DecidesAgain, Responds, OnlyVisit,
                        histVars
    <3>3. PICK pc \in {"idle", "get_by_username", "authenticate", "consume_consent_ticket"} :
            \E v : v.pc = pc /\ GoTo(r, v)
      <4>1. ASSUME NEW params \in Params, NEW pc \in {"get_by_username", "authenticate"},
                   Begins(r, pc, params)
            PROVE  \E v : v.pc = pc /\ GoTo(r, v)
        <5>1. [pc |-> pc, params |-> params].pc = pc
          OBVIOUS
        <5> QED
          BY <4>1, <5>1 DEF Begins
      <4>2. ASSUME NEW jti \in DOMAIN tickets, NEW approve \in BOOLEAN,
                   Submits(r, jti, approve)
            PROVE  \E v : v.pc = "consume_consent_ticket" /\ GoTo(r, v)
        <5>1. [pc |-> "consume_consent_ticket", jti |-> jti, approve |-> approve].pc
                = "consume_consent_ticket"
          OBVIOUS
        <5> QED
          BY <4>2, <5>1 DEF Submits
      <4>3. ASSUME GoTo(r, Idle)
            PROVE  \E v : v.pc = "idle" /\ GoTo(r, v)
        BY <4>3 DEF Idle
      <4>4. (\E sub \in users : MakesTicket(r, sub)) \/ DecidesAgain(r) \/ Responds(r)
              => GoTo(r, Idle)
        BY DEF MakesTicket, DecidesAgain, Responds
      <4> QED
        BY <1>1, <2>5, <4>1, <4>2, <4>3, <4>4 DEF Does
    <3>4. PICK v : v.pc = pc /\ GoTo(r, v)
      BY <3>3
    <3> QED
      BY <1>1, <3>1, <3>2, <3>4, NoDecisionKeepsConsent
  <2> QED
    BY <2>1, <2>2, <2>3, <2>4, <2>5
<1>2. CASE Elapses
  BY <1>2 DEF Elapses, histVars, provider, Consent, Warranted, Unshared, Warrants,
              TicketBehind, HasDecision, At
<1> QED
  BY <1>1, <1>2, Steps

\* With require_consent a code goes back to a decision of its own: an approval,
\* of a ticket made for the same subject and parameters.
THEOREM CodesFollowConsent == Spec => []CodeFollowsConsent
<1>1. ASSUME Init
      PROVE  Typed /\ Consent
  <2>1. \A r \in Requests : visit[r].pc = "idle"
    BY <1>1 DEF Init, Idle
  <2> QED
    BY <1>1, <2>1, InitTyped, AuthorizeAssumption
       DEF Init, Consent, Warranted, Unshared, HasDecision, At
<1>2. ASSUME Typed /\ Consent, [Next]_vars
      PROVE  (Typed /\ Consent)'
  BY <1>2, Steps, DoesTyped, ElapsesTyped, ConsentStep, AuthorizeAssumption
<1>3. ASSUME Typed, Consent
      PROVE  CodeFollowsConsent
  <2> SUFFICES ASSUME requireConsent
               PROVE  CodeFollowsConsent
    BY DEF CodeFollowsConsent
  <2>1. \A c \in DOMAIN issued :
          Warrants(issued[c].decision, issued[c].params, issued[c].sub)
    BY <1>3 DEF Consent, Warranted
  <2>2. ASSUME NEW cd \in Earlier(issued)
        PROVE  issued[cd[1]].decision # issued[cd[2]].decision
    <3>1. cd[1] \in DOMAIN issued /\ cd[2] \in DOMAIN issued /\ cd[1] < cd[2]
      BY DEF Earlier
    <3>2. cd[1] \in Nat /\ cd[2] \in Nat
      BY <1>3, <3>1 DEF Typed, TypeOK
    <3> QED
      BY <1>3, <3>1, <3>2 DEF Consent, Unshared
  <2> QED
    BY <2>1, <2>2 DEF CodeFollowsConsent, Warrants, TicketBehind
<1> QED
  BY <1>1, <1>2, <1>3, PTL DEF Spec
=============================================================================
