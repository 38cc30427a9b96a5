------------------------------ MODULE Tickets ------------------------------
(***************************************************************************)
(* The one-time connection tickets: ticket() of services/bootstrap/main.go *)
(* issues them, POST /api/verify of services/Api/Program.cs spends them.   *)
(* Requests run concurrently on the API's thread pool and share only the   *)
(* dictionary of used tickets; the clock may move between any two lines of *)
(* a request, and the caller may send one ticket more than once (a retried *)
(* or duplicated request).  Time is in the whole seconds the code compares.*)
(***************************************************************************)
EXTENDS Naturals

CONSTANTS
    Nonces,      \* nonces of tickets
    Requests,    \* requests to /api/verify; each is one call
    Lifetime,    \* seconds a ticket is good for (120 in the code)
    MaxAhead,    \* how far in the future an expiry may lie (180 in the code)
    SecretKept,  \* the API restarts with the same BOOTSTRAP_SECRET (hosted), or a new one (launcher)
    MaxTime      \* bound on the clock

ASSUME TimesAssumption ==
    /\ Lifetime \in Nat \ {0} /\ MaxAhead \in Nat /\ MaxTime \in Nat
    /\ Lifetime =< MaxAhead
ASSUME SecretAssumption == SecretKept \in BOOLEAN

VARIABLES
    now,       \* the clock
    issued,    \* nonces of the tickets signed with the API's present secret
    expires,   \* the expiry of each ticket
    used,      \* usedTickets
    pc,        \* where each request stands
    ticket,    \* the nonce each request carries
    doomed     \* the entries a request has found expired and is about to remove

ticketsVars == <<now, issued, expires, used, pc, ticket, doomed>>

Times == 0 .. MaxTime + Lifetime
Final == {"unauthorized", "conflict", "verified", "lost"}
Positions == {"unsent", "received", "signed", "purging", "purged"} \cup Final

-----------------------------------------------------------------------------
(***************************************************************************)
(* Faulty variants of operators below.                                     *)
(***************************************************************************)
\* The nonce is stored whether or not it is there already.
AddsAnyway(n) == TRUE

-----------------------------------------------------------------------------
TicketsInit ==
    /\ now = 0
    /\ issued = {} /\ expires = [n \in Nonces |-> 0]
    /\ used = {}
    /\ pc = [r \in Requests |-> "unsent"]
    /\ ticket \in [Requests -> Nonces]
    /\ doomed = [r \in Requests |-> {}]

\* GET /v1/bootstrap
Expiry == now + Lifetime

Issue(n) ==
    /\ n \notin issued /\ expires[n] = 0
    /\ issued' = issued \cup {n}
    /\ expires' = [expires EXCEPT ![n] = Expiry]
    /\ UNCHANGED <<now, used, pc, ticket, doomed>>

\* A ticket is refused after its expiry and more than three minutes before it.
InTime(n) == now =< expires[n] /\ expires[n] =< now + MaxAhead

Receive(r) ==
    /\ pc[r] = "unsent" /\ expires[ticket[r]] # 0
    /\ pc' = [pc EXCEPT ![r] = IF InTime(ticket[r]) THEN "received" ELSE "unauthorized"]
    /\ UNCHANGED <<now, issued, expires, used, ticket, doomed>>

CheckSignature(r) ==
    /\ pc[r] = "received"
    /\ pc' = [pc EXCEPT ![r] = IF ticket[r] \in issued THEN "signed" ELSE "unauthorized"]
    /\ UNCHANGED <<now, issued, expires, used, ticket, doomed>>

\* The clock is read again to find the entries to forget.
Expired(n) == expires[n] < now

FindExpired(r) ==
    /\ pc[r] = "signed"
    /\ doomed' = [doomed EXCEPT ![r] = {n \in used : Expired(n)}]
    /\ pc' = [pc EXCEPT ![r] = "purging"]
    /\ UNCHANGED <<now, issued, expires, used, ticket>>

RemoveExpired(r) ==
    /\ pc[r] = "purging"
    /\ used' = used \ doomed[r]
    /\ doomed' = [doomed EXCEPT ![r] = {}]
    /\ pc' = [pc EXCEPT ![r] = "purged"]
    /\ UNCHANGED <<now, issued, expires, ticket>>

\* TryAdd is atomic.
Adds(n) == n \notin used

Spend(r) ==
    /\ pc[r] = "purged"
    /\ pc' = [pc EXCEPT ![r] = IF Adds(ticket[r]) THEN "verified" ELSE "conflict"]
    /\ used' = used \cup {ticket[r]}
    /\ UNCHANGED <<now, issued, expires, ticket, doomed>>

\* The API is restarted: the used tickets were in memory, and requests under way are lost.
Restart ==
    /\ used' = {}
    /\ issued' = IF SecretKept THEN issued ELSE {}
    /\ pc' = [r \in Requests |-> IF pc[r] \in {"unsent"} \cup Final THEN pc[r] ELSE "lost"]
    /\ doomed' = [r \in Requests |-> {}]
    /\ UNCHANGED <<now, expires, ticket>>

Tick ==
    /\ now < MaxTime
    /\ now' = now + 1
    /\ UNCHANGED <<issued, expires, used, pc, ticket, doomed>>

Serve(r) == Receive(r) \/ CheckSignature(r) \/ FindExpired(r) \/ RemoveExpired(r) \/ Spend(r)

TicketsNext ==
    \/ \E n \in Nonces : Issue(n)
    \/ \E r \in Requests : Serve(r)
    \/ Restart \/ Tick

TicketsSpec == TicketsInit /\ [][TicketsNext]_ticketsVars

-----------------------------------------------------------------------------
TicketsTypeOK ==
    /\ now \in 0 .. MaxTime
    /\ issued \in SUBSET Nonces /\ expires \in [Nonces -> Times]
    /\ \A n \in Nonces : expires[n] =< now + Lifetime
    /\ used \in SUBSET Nonces
    /\ pc \in [Requests -> Positions] /\ ticket \in [Requests -> Nonces]
    /\ doomed \in [Requests -> SUBSET Nonces]

SameTicketTwice(r, s) ==
    r # s /\ pc[r] = "verified" /\ pc[s] = "verified" /\ ticket[r] = ticket[s]

\* README.md:65, "Reused and expired tickets are rejected": of all the requests that ever
\* carry one ticket, at most one is verified.  The code keeps this only until the last second
\* of the ticket (SpentOnceInTime): README.md of this directory, "Disagreements found".
SpentOnce == \A r, s \in Requests : ~SameTicketTwice(r, s)

\* Until its expiry a ticket is spent at most once, however many requests carry it at a time
\* and however they interleave with each other and with a purge that another one runs.
SpentOnceInTime ==
    \A r, s \in Requests : SameTicketTwice(r, s) => expires[ticket[r]] < now

\* What SpentOnceInTime rests on: while a ticket signed with the present secret is good, the
\* API remembers that it was spent, and no purge under way is about to forget it.
SpentIsRemembered ==
    \A r \in Requests :
        pc[r] = "verified" /\ ticket[r] \in issued /\ now =< expires[ticket[r]]
          => /\ ticket[r] \in used
             /\ \A s \in Requests : ticket[r] \notin doomed[s]

-----------------------------------------------------------------------------
(***************************************************************************)
(* The invariant that is inductive.                                        *)
(***************************************************************************)
\* The API has only seen nonces that were issued, and those have an expiry and are not
\* issued again.
ExpiryIsKept ==
    /\ \A n \in issued \cup used : expires[n] # 0
    /\ \A r \in Requests : \A n \in doomed[r] : expires[n] # 0
    /\ \A r \in Requests : pc[r] # "unsent" => expires[ticket[r]] # 0

\* A request past the signature check carries a ticket of the present secret.
ServedIsSigned ==
    \A r \in Requests : pc[r] \in {"signed", "purging", "purged"} => ticket[r] \in issued

\* Whatever a purge is about to forget had expired when the purge looked.
DoomedIsExpired == \A r \in Requests : \A n \in doomed[r] : expires[n] < now

TicketsInv ==
    /\ TicketsTypeOK /\ ExpiryIsKept /\ ServedIsSigned /\ DoomedIsExpired
    /\ SpentIsRemembered /\ SpentOnceInTime
=============================================================================
