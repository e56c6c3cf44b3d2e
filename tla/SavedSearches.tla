--------------------------- MODULE SavedSearches ---------------------------
(***************************************************************************)
(* Sessions and saved searches: backend/internal/api/auth.go and saved.go, *)
(* and controlstore/postgres/saved_search.go.  A request looks its session *)
(* up twice, in authMiddleware and again in the handler, which takes the   *)
(* owner from it; the second result of that look-up is dropped.            *)
(*                                                                         *)
(* A saved search is named by the request that created it.  A restart      *)
(* loses the sessions, the handlers that run and, unless the control store *)
(* is enabled, the saved searches; it may turn authentication on or off.   *)
(***************************************************************************)
EXTENDS Naturals, FiniteSets

CONSTANTS Tokens,      \* session tokens: 32 random bytes, issued at most once
          Requests,    \* requests that clients send
          MaxRestarts  \* bound: restarts

VARIABLES durable,   \* savedStore # nil: PostgreSQL, or else a map in memory
          enabled,   \* authManager.enabled
          session,   \* each token: "unissued", "valid", "expired", "revoked"
          saved,     \* owner of each saved search, or "absent"
          restarts,
          request    \* each request

vars == <<durable, enabled, session, saved, restarts, request>>

Unsent == [op |-> "none", token |-> "none", item |-> "none", stage |-> "none",
           owner |-> "none", code |-> 0, late |-> FALSE, epoch |-> 0,
           known |-> {}, result |-> {}]

Init ==
    /\ durable \in BOOLEAN /\ enabled \in BOOLEAN
    /\ session = [t \in Tokens |-> "unissued"]
    /\ saved = [i \in Requests |-> "absent"]
    /\ restarts = 0
    /\ request = [r \in Requests |-> Unsent]

Sent(r, op) == request[r].op = op /\ request[r].stage # "none"
-----------------------------------------------------------------------------
(* Sessions *)

\* login: issue; it answers 401 when authentication is off.
Login(t) ==
    /\ enabled /\ session[t] = "unissued"
    /\ session' = [session EXCEPT ![t] = "valid"]
    /\ UNCHANGED <<durable, enabled, saved, restarts, request>>

\* Twelve hours pass; the session stays in the map.
Expire(t) ==
    /\ session[t] = "valid"
    /\ session' = [session EXCEPT ![t] = "expired"]
    /\ UNCHANGED <<durable, enabled, saved, restarts, request>>

\* The cookie t, or none, names a session that is in one of these states.
Names(t, states) == t \in Tokens /\ session[t] \in states

\* The two results of get.
Valid(t) == ~enabled \/ Names(t, {"valid"})

UserIfValid(t) ==
    IF ~enabled THEN "development"
    ELSE IF Names(t, {"valid"}) THEN "admin" ELSE ""

User(t) ==
    IF ~enabled THEN "development"
    ELSE IF Names(t, {"valid", "expired"}) THEN "admin" ELSE ""
-----------------------------------------------------------------------------
(* Requests *)

\* Searches that the client was told of and that nobody has asked to delete.
Known == {i \in Requests : /\ Sent(i, "create") /\ request[i].code = 201
                           /\ \A d \in Requests : Sent(d, "delete") => request[d].item # i}

\* The session of token t was ended by a logout that the client saw succeed.
LoggedOut(t) ==
    \E l \in Requests : t # "none" /\ Sent(l, "logout") /\ request[l].token = t /\ request[l].code = 204

\* A client uses a token that was issued, or none, and the id of a search.
Send(r, op, t, i) ==
    /\ request[r] = Unsent
    /\ t # "none" => session[t] # "unissued"
    /\ op = "delete" => Sent(i, "create")
    /\ request' = [request EXCEPT ![r] =
           [op |-> op, token |-> t, item |-> IF op = "delete" THEN i ELSE r,
            stage |-> "auth", owner |-> "none", code |-> 0,
            late |-> enabled /\ LoggedOut(t), epoch |-> restarts, known |-> Known, result |-> {}]]
    /\ UNCHANGED <<durable, enabled, session, saved, restarts>>

At(r, stage) == request[r].stage = stage

Reply(r, code) == request' = [request EXCEPT ![r].stage = "replied", ![r].code = code]

\* authMiddleware
Authorize(r) ==
    /\ At(r, "auth")
    /\ IF Valid(request[r].token)
       THEN request' = [request EXCEPT ![r].stage = "handler"]
       ELSE Reply(r, 401)
    /\ UNCHANGED <<durable, enabled, session, saved, restarts>>

LogoutClearsCookie(r) ==
    /\ At(r, "handler") /\ request[r].op = "logout"
    /\ Reply(r, 204)
    /\ UNCHANGED <<durable, enabled, session, saved, restarts>>

Logout(r) ==
    /\ At(r, "handler") /\ request[r].op = "logout"
    /\ session' = [t \in Tokens |-> IF t = request[r].token THEN "revoked" ELSE session[t]]
    /\ Reply(r, 204)
    /\ UNCHANGED <<durable, enabled, saved, restarts>>

\* owner, _ := s.auth.get(r); createSaved has checked the body before.
TakeOwner(r) ==
    /\ At(r, "handler") /\ request[r].op # "logout"
    /\ \/ request' = [request EXCEPT ![r].stage = "store",
                                     ![r].owner = User(request[r].token)]
       \/ request[r].op = "create" /\ Reply(r, 400)
    /\ UNCHANGED <<durable, enabled, session, saved, restarts>>

Insert(r) == saved' = [saved EXCEPT ![r] = request[r].owner]

Create(r) ==
    /\ At(r, "store") /\ request[r].op = "create"
    /\ Insert(r)
    /\ Reply(r, 201)
    /\ UNCHANGED <<durable, enabled, session, restarts>>

\* WHERE id = $1 AND created_by = $2
Found(r) == saved[request[r].item] = request[r].owner

RemoveOwned(r) ==
    saved' = [i \in Requests |-> IF saved[i] = request[r].owner THEN "absent" ELSE saved[i]]

RemoveOwnedInMemory(r) ==
    saved' = [i \in Requests |->
                 IF i = request[r].item \/ (~durable /\ saved[i] = request[r].owner)
                 THEN "absent" ELSE saved[i]]

Remove(r) == saved' = [saved EXCEPT ![request[r].item] = "absent"]

DeleteRepliesAlike(r) ==
    /\ At(r, "store") /\ request[r].op = "delete"
    /\ IF Found(r) THEN Remove(r) ELSE UNCHANGED saved
    /\ Reply(r, 204)
    /\ UNCHANGED <<durable, enabled, session, restarts>>

Delete(r) ==
    /\ At(r, "store") /\ request[r].op = "delete"
    /\ IF Found(r) THEN Remove(r) /\ Reply(r, 204)
                   ELSE UNCHANGED saved /\ Reply(r, 404)
    /\ UNCHANGED <<durable, enabled, session, restarts>>

ListThisProcess(r) ==
    /\ At(r, "store") /\ request[r].op = "list"
    /\ request' = [request EXCEPT ![r].stage = "replied", ![r].code = 200,
                       ![r].result = {i \in Requests : /\ saved[i] = request[r].owner
                                                       /\ request[i].epoch = restarts}]
    /\ UNCHANGED <<durable, enabled, session, saved, restarts>>

List(r) ==
    /\ At(r, "store") /\ request[r].op = "list"
    /\ request' = [request EXCEPT ![r].stage = "replied", ![r].code = 200,
                       ![r].result = {i \in Requests : saved[i] = request[r].owner}]
    /\ UNCHANGED <<durable, enabled, session, saved, restarts>>

\* The control store reports an error: its statement took effect or did not.  A
\* statement that a restart cuts off after it took effect is also taken here: the
\* client sees no answer then, which no property tells from 503.
StoreFails(r) ==
    /\ durable /\ At(r, "store")
    /\ \/ UNCHANGED saved
       \/ request[r].op = "create" /\ Insert(r)
       \/ request[r].op = "delete" /\ Found(r) /\ Remove(r)
    /\ Reply(r, 503)
    /\ UNCHANGED <<durable, enabled, session, restarts>>

Restart ==
    /\ restarts < MaxRestarts /\ restarts' = restarts + 1
    /\ enabled' \in BOOLEAN /\ UNCHANGED durable
    /\ session' = [t \in Tokens |-> IF session[t] = "unissued" THEN "unissued" ELSE "revoked"]
    /\ saved' = IF durable THEN saved ELSE [i \in Requests |-> "absent"]
    /\ request' = [r \in Requests |->
           IF request[r].stage \in {"auth", "handler", "store"}
           THEN [request[r] EXCEPT !.stage = "lost"] ELSE request[r]]

Rest == (\A r \in Requests : request[r].stage \in {"replied", "lost"}) /\ UNCHANGED vars

Next ==
    \/ \E t \in Tokens : Login(t) \/ Expire(t)
    \/ \E r \in Requests :
        \/ \E op \in {"create", "delete", "list", "logout"}, t \in Tokens \cup {"none"}, i \in Requests :
             Send(r, op, t, i)
        \/ Authorize(r) \/ Logout(r) \/ TakeOwner(r)
        \/ Create(r) \/ Delete(r) \/ List(r) \/ StoreFails(r)
    \/ Restart
    \/ Rest

Spec == Init /\ [][Next]_vars
-----------------------------------------------------------------------------
(* Properties *)

\* A saved search belongs to the user of the session that created it.  The one way
\* to lose it to the empty owner is a logout between the two look-ups: expiry
\* between them is harmless, because get returns the expired session's user.
OrphanOnlyByLogout ==
    \A i \in Requests : saved[i] = "" => Names(request[i].token, {"revoked"})

\* Once a create is answered 201 the search exists until a request deletes it, or,
\* without a control store, until a restart.
CreatedStays ==
    \A i \in Requests :
        Sent(i, "create") /\ request[i].code = 201 =>
            \/ saved[i] = request[i].owner
            \/ \E d \in Requests : Sent(d, "delete") /\ request[d].item = i
            \/ ~durable /\ request[i].epoch < restarts

\* A delete is answered 204 at most once for a search, to its owner, and the search
\* does not come back.
DeletedOnce ==
    \A i, d \in Requests :
        Sent(d, "delete") /\ request[d].item = i /\ request[d].code = 204 =>
            /\ saved[i] = "absent"
            /\ request[d].owner = request[i].owner
            /\ \A e \in Requests \ {d} :
                 Sent(e, "delete") /\ request[e].item = i => request[e].code # 204

\* After a logout that was answered 204 its token is refused for good: no request
\* sent later with it gets past the middleware while authentication is on.
LogoutRevokes == \A r \in Requests : request[r].late => request[r].code \in {0, 401}

\* A list shows its user every search of theirs that they knew of when they asked,
\* unless a delete or a restart intervened.
ListShowsKnown ==
    \A r \in Requests :
        Sent(r, "list") /\ request[r].code = 200 =>
            \A i \in request[r].known :
                \/ i \in request[r].result
                \/ request[i].owner # request[r].owner
                \/ \E d \in Requests : Sent(d, "delete") /\ request[d].item = i
                \/ ~durable /\ request[i].epoch < restarts

\* What createSaved, deleteSaved and listSaved have told their clients stays true.
SearchesAreKept == CreatedStays /\ DeletedOnce /\ ListShowsKnown

\* Logging out takes a token's rights away at once, and nothing else but that takes
\* them from requests that the middleware has let through.
SessionsAreRespected == LogoutRevokes /\ OrphanOnlyByLogout
=============================================================================
