----------------------- MODULE SavedSearchesProofs ------------------------
(***************************************************************************)
(* Sessions and saved searches, for any set of tokens and requests, any    *)
(* number of restarts, and with or without a control store.                *)
(***************************************************************************)
EXTENDS SavedSearches, TLAPS

Users == {"", "admin", "development"}
Codes == {0, 200, 201, 204, 400, 401, 404, 503}
Stages == {"none", "auth", "handler", "store", "replied", "lost"}

Record ==
    [op : {"none", "create", "delete", "list", "logout"}, token : Tokens \cup {"none"},
     item : Requests \cup {"none"}, stage : Stages, owner : Users \cup {"none"}, code : Codes,
     late : BOOLEAN, epoch : Nat, known : SUBSET Requests, result : SUBSET Requests]

Typed ==
    /\ session \in [Tokens -> {"unissued", "valid", "expired", "revoked"}]
    /\ saved \in [Requests -> Users \cup {"absent"}]
    /\ restarts \in Nat
    /\ request \in [Requests -> Record]

\* What the stage of a request and its reply say of each other.
Replies(r) ==
    /\ request[r].stage # "replied" => request[r].code = 0
    /\ request[r].code = 200 => request[r].op = "list"
    /\ request[r].code = 201 => request[r].op = "create"
    /\ request[r].code = 204 => request[r].op \in {"delete", "logout"}
    /\ request[r].stage = "store" => request[r].owner \in Users
    /\ request[r].epoch <= restarts
    /\ request[r].stage \in {"auth", "handler", "store"} => request[r].epoch = restarts
    /\ \A i \in request[r].known : Sent(i, "create") /\ request[i].code = 201

\* A saved search is one that its request inserted; a delete is of a search that
\* some request asked to create.
Origin(r) ==
    /\ saved[r] # "absent" => /\ request[r].op = "create" /\ request[r].stage = "replied"
                              /\ request[r].owner = saved[r]
    /\ Sent(r, "delete") => request[r].item \in Requests /\ Sent(request[r].item, "create")
    /\ Sent(r, "delete") /\ request[r].code = 204 => request[request[r].item].stage = "replied"

\* What a request knows of its session.
Session(r) ==
    /\ request[r].op = "logout" /\ request[r].code = 204 /\ request[r].token \in Tokens =>
           session[request[r].token] = "revoked"
    /\ request[r].stage = "handler" /\ enabled =>
           Names(request[r].token, {"valid", "expired", "revoked"})
    /\ request[r].owner = "" => Names(request[r].token, {"revoked"})

\* A request sent after the logout of its token.
Late(r) ==
    request[r].late =>
        /\ request[r].code \in {0, 401} /\ request[r].stage \in {"auth", "replied", "lost"}
        /\ request[r].stage = "auth" => enabled /\ Names(request[r].token, {"revoked"})

Inv ==
    /\ Typed
    /\ \A r \in Requests : Replies(r) /\ Origin(r) /\ Session(r) /\ Late(r)
    /\ CreatedStays /\ DeletedOnce /\ ListShowsKnown

\* A step of the request r that leaves the others alone and of r changes at most the
\* stage, the owner, the code and the result.
Step(r) ==
    /\ request' \in [Requests -> Record]
    /\ \A x \in Requests \ {r} : request'[x] = request[x]
    /\ request'[r].op = request[r].op /\ request'[r].token = request[r].token
    /\ request'[r].item = request[r].item /\ request'[r].late = request[r].late
    /\ request'[r].epoch = request[r].epoch /\ request'[r].known = request[r].known

\* Nothing has happened yet.
LEMMA InitInv == Init => Inv
  <1> SUFFICES ASSUME Init PROVE Inv
    OBVIOUS
  <1>1. Typed
    BY DEF Init, Typed, Record, Unsent, Users, Codes, Stages
  <1>2. \A r \in Requests : request[r] = Unsent /\ saved[r] = "absent"
    BY DEF Init
  <1>3. \A r \in Requests : Replies(r)
    BY <1>2 DEF Init, Replies, Unsent
  <1>4. \A r \in Requests : Origin(r) /\ Session(r) /\ Late(r)
    <2> TAKE r \in Requests
    <2>1. /\ request[r].stage = "none" /\ request[r].code = 0 /\ request[r].op = "none"
          /\ request[r].owner = "none" /\ saved[r] = "absent"
      BY <1>2 DEF Unsent
    <2>2. ~request[r].late
      BY <1>2 DEF Unsent
    <2> QED
      BY <2>1, <2>2 DEF Origin, Session, Late, Sent
  <1>5. CreatedStays /\ DeletedOnce /\ ListShowsKnown
    BY <1>2 DEF CreatedStays, DeletedOnce, ListShowsKnown, Sent, Unsent
  <1> QED
    BY <1>1, <1>3, <1>4, <1>5 DEF Inv

\* An update of r in the fields that Step leaves free.
LEMMA Updated ==
  ASSUME Typed, NEW r \in Requests, NEW q \in Record, request' = [request EXCEPT ![r] = q],
         q.op = request[r].op, q.token = request[r].token, q.item = request[r].item,
         q.late = request[r].late, q.epoch = request[r].epoch, q.known = request[r].known
  PROVE  Step(r) /\ request'[r] = q
  <1>1. request \in [Requests -> Record]
    BY DEF Typed
  <1>2. /\ request' \in [Requests -> Record] /\ request'[r] = q
        /\ \A x \in Requests \ {r} : request'[x] = request[x]
    BY <1>1
  <1> QED
    BY <1>2, Zenon DEF Step

\* A reply changes the stage and the code.
LEMMA ReplyStep ==
  ASSUME Typed, NEW r \in Requests, NEW c \in Codes,
         Reply(r, c)
  PROVE  /\ Step(r) /\ request'[r].stage = "replied" /\ request'[r].code = c
         /\ request'[r].owner = request[r].owner /\ request'[r].result = request[r].result
  <1> DEFINE q == [request[r] EXCEPT !.stage = "replied", !.code = c]
  <1>1. request[r] \in Record /\ request \in [Requests -> Record]
    BY DEF Typed
  <1>0. "replied" \in Stages
    BY DEF Stages
  <1>2. q \in Record
    BY <1>0, <1>1 DEF Record
  <1>3. /\ q.op = request[r].op /\ q.token = request[r].token /\ q.item = request[r].item
        /\ q.late = request[r].late /\ q.epoch = request[r].epoch /\ q.known = request[r].known
        /\ q.stage = "replied" /\ q.code = c /\ q.owner = request[r].owner
        /\ q.result = request[r].result
    BY <1>1 DEF Record
  <1>4. request' = [request EXCEPT ![r] = q]
    BY <1>1 DEF Reply
  <1> HIDE DEF q
  <1>5. Step(r) /\ request'[r] = q
    BY <1>2, <1>3, <1>4, Updated
  <1> QED
    BY <1>3, <1>5

\* A step of the middleware.
LEMMA AuthorizeStep ==
  ASSUME Typed, NEW r \in Requests, Authorize(r)
  PROVE  /\ Step(r) /\ request'[r].owner = request[r].owner
         /\ request'[r].result = request[r].result
         /\ \/ /\ Valid(request[r].token)
               /\ request'[r].stage = "handler" /\ request'[r].code = request[r].code
            \/ /\ ~Valid(request[r].token)
               /\ request'[r].stage = "replied" /\ request'[r].code = 401
  <1>1. CASE Valid(request[r].token)
    <2>1. "handler" \in Stages
      BY DEF Stages
    <2> QED
      BY <1>1, <2>1 DEF Typed, Authorize, Step, Record
  <1>2. CASE ~Valid(request[r].token)
    <2>1. 401 \in Codes
      BY DEF Codes
    <2> QED
      BY <1>2, <2>1, ReplyStep DEF Authorize
  <1> QED
    BY <1>1, <1>2

\* The owner is looked up, or the body of a create is refused.
LEMMA TakeOwnerStep ==
  ASSUME Typed, NEW r \in Requests, TakeOwner(r)
  PROVE  /\ Step(r) /\ request'[r].result = request[r].result
         /\ \/ /\ request'[r].stage = "store" /\ request'[r].code = request[r].code
               /\ request'[r].owner = User(request[r].token)
            \/ /\ request'[r].stage = "replied" /\ request'[r].code = 400
               /\ request'[r].owner = request[r].owner /\ request[r].op = "create"
  <1>1. User(request[r].token) \in Users
    BY DEF User, Users
  <1>2. CASE request' = [request EXCEPT ![r].stage = "store", ![r].owner = User(request[r].token)]
    <2> DEFINE q == [request[r] EXCEPT !.stage = "store", !.owner = User(request[r].token)]
    <2>1. request[r] \in Record /\ request \in [Requests -> Record]
      BY DEF Typed
    <2>0. "store" \in Stages /\ User(request[r].token) \in Users \cup {"none"}
      BY <1>1 DEF Stages
    <2>2. q \in Record
      BY <2>0, <2>1 DEF Record
    <2>3. /\ q.op = request[r].op /\ q.token = request[r].token /\ q.item = request[r].item
          /\ q.late = request[r].late /\ q.epoch = request[r].epoch /\ q.known = request[r].known
          /\ q.stage = "store" /\ q.code = request[r].code
          /\ q.owner = User(request[r].token) /\ q.result = request[r].result
      BY <2>1 DEF Record
    <2>4. request' = [request EXCEPT ![r] = q]
      BY <2>1, <1>2
    <2> HIDE DEF q
    <2>5. Step(r) /\ request'[r] = q
      BY <2>2, <2>3, <2>4, Updated
    <2> QED
      BY <2>3, <2>5
  <1>3. CASE request[r].op = "create" /\ Reply(r, 400)
    <2>1. 400 \in Codes
      BY DEF Codes
    <2> QED
      BY <1>3, <2>1, ReplyStep
  <1> QED
    BY <1>2, <1>3 DEF TakeOwner

\* A list takes its result from the store.
LEMMA ListStep ==
  ASSUME Typed, NEW r \in Requests, List(r)
  PROVE  /\ Step(r) /\ request'[r].owner = request[r].owner
         /\ request'[r].stage = "replied" /\ request'[r].code = 200
         /\ request'[r].result = {i \in Requests : saved[i] = request[r].owner}
  <1> DEFINE s == {i \in Requests : saved[i] = request[r].owner}
             q == [request[r] EXCEPT !.stage = "replied", !.code = 200, !.result = s]
  <1>1. request[r] \in Record /\ request \in [Requests -> Record] /\ s \in SUBSET Requests
    BY DEF Typed
  <1>2. request' = [request EXCEPT ![r] = q]
    BY ZenonT(60), <1>1 DEF List
  <1> HIDE DEF s
  <1>0. "replied" \in Stages /\ 200 \in Codes
    BY DEF Stages, Codes
  <1>3. q \in Record
    BY ZenonT(60), <1>0, <1>1 DEF Record
  <1>4. /\ q.op = request[r].op /\ q.token = request[r].token /\ q.item = request[r].item
        /\ q.late = request[r].late /\ q.epoch = request[r].epoch /\ q.known = request[r].known
        /\ q.stage = "replied" /\ q.code = 200 /\ q.owner = request[r].owner /\ q.result = s
    BY <1>1 DEF Record
  <1> HIDE DEF q
  <1>5. Step(r) /\ request'[r] = q
    BY <1>2, <1>3, <1>4, Updated
  <1> QED
    BY <1>4, <1>5 DEF s

\* What a step of r keeps of every request: replies are final, and what was sent.
Keeps ==
    /\ \A x \in Requests : request[x].stage = "replied" => request'[x] = request[x]
    /\ \A x \in Requests : /\ request'[x].op = request[x].op
                           /\ request'[x].item = request[x].item
                           /\ (request'[x].stage = "none" <=> request[x].stage = "none")

\* A step of a request that was sent and not answered.
Live(r) ==
    /\ Step(r) /\ request[r].stage \in {"auth", "handler", "store"}
    /\ request'[r].stage \in {"handler", "store", "replied"}
    /\ request'[r].stage = "store" => request'[r].owner \in Users
    /\ request[r].stage = "store" => request'[r].owner = request[r].owner
    /\ request'[r].stage # "replied" => request'[r].code = request[r].code
    /\ durable' = durable /\ restarts' = restarts

\* What it does to the store: nothing, an insert or a removal.
Effect(r) ==
    \/ /\ saved' = saved
       /\ request'[r].code # 201
       /\ request'[r].code = 204 => request[r].op = "logout"
       /\ request'[r].code = 200 =>
            /\ request[r].op = "list" /\ request[r].stage = "store"
            /\ request'[r].result = {i \in Requests : saved[i] = request[r].owner}
    \/ /\ Insert(r) /\ request[r].op = "create" /\ request[r].stage = "store"
       /\ request'[r].stage = "replied" /\ request'[r].code \in {201, 503}
    \/ /\ Remove(r) /\ Found(r) /\ request[r].op = "delete" /\ request[r].stage = "store"
       /\ request'[r].stage = "replied" /\ request'[r].code \in {204, 503}

\* Live steps keep what was sent and answered.
LEMMA LiveKeeps ==
  ASSUME NEW r \in Requests, Live(r)
  PROVE  Keeps
  BY DEF Live, Step, Keeps

\* ... and the form of the requests.
LEMMA LiveShape ==
  ASSUME Inv, NEW r \in Requests, Live(r), Effect(r)
  PROVE  request' \in [Requests -> Record] /\ saved' \in [Requests -> Users \cup {"absent"}]
         /\ \A x \in Requests : Replies(x)' /\ Origin(x)'
  <1>1. Keeps
    BY LiveKeeps
  <1>2. Typed /\ (\A x \in Requests : Replies(x) /\ Origin(x)) /\ restarts' = restarts
    BY DEF Inv, Live
  <1>3. request' \in [Requests -> Record] /\ request \in [Requests -> Record]
    BY <1>2 DEF Live, Step, Typed
  <1>4. /\ saved \in [Requests -> Users \cup {"absent"}]
        /\ (request[r].stage = "store" => request[r].owner \in Users)
    BY <1>2 DEF Typed, Replies
  <1>5. saved' \in [Requests -> Users \cup {"absent"}]
    BY <1>4 DEF Effect, Insert, Remove, Typed
  <1>6. ASSUME NEW x \in Requests PROVE Replies(x)'
    <2>1. ASSUME NEW i \in request[x].known PROVE Sent(i, "create")' /\ request'[i].code = 201
      <3>1. Sent(i, "create") /\ request[i].code = 201 /\ i \in Requests
        BY <1>2, <1>3 DEF Replies, Record
      <3>2. request[i].stage = "replied"
        BY <3>1, <1>2 DEF Replies
      <3> QED
        BY <3>1, <3>2, <1>1 DEF Keeps, Sent
    <2>2. request'[x].known = request[x].known /\ request'[x].epoch = request[x].epoch
      BY DEF Live, Step
    <2>3. CASE x # r
      <3>1. request'[x] = request[x]
        BY <2>3 DEF Live, Step
      <3> QED
        BY <3>1, <2>1, <1>2 DEF Replies
    <2>4. CASE x = r
      <3>1. /\ request'[r].stage # "replied" => request'[r].code = 0
            /\ request'[r].code = 200 => request'[r].op = "list"
            /\ request'[r].code = 201 => request'[r].op = "create"
            /\ request'[r].code = 204 => request'[r].op \in {"delete", "logout"}
        BY <1>2 DEF Live, Step, Effect, Replies
      <3>2. /\ request'[r].stage = "store" => request'[r].owner \in Users
            /\ request'[r].epoch <= restarts' /\ request'[r].epoch = restarts'
        BY <1>2, <2>2, <2>4 DEF Live, Replies, Typed
      <3> QED
        BY <3>1, <3>2, <2>1, <2>2, <2>4 DEF Replies
    <2> QED
      BY <2>3, <2>4
  <1>7. ASSUME NEW x \in Requests PROVE Origin(x)'
    <2>1. saved'[x] # "absent" => /\ request'[x].op = "create" /\ request'[x].stage = "replied"
                                  /\ request'[x].owner = saved'[x]
      <3>1. CASE saved'[x] = saved[x]
        <4>1. CASE saved[x] # "absent"
          BY <3>1, <4>1, <1>1, <1>2 DEF Origin, Keeps
        <4> QED
          BY <4>1, <3>1
      <3>2. CASE saved'[x] # saved[x]
        BY <3>2, <1>4 DEF Effect, Insert, Remove, Live, Step
      <3> QED
        BY <3>1, <3>2
    <2>2. ASSUME Sent(x, "delete")'
          PROVE  /\ request'[x].item \in Requests /\ Sent(request[x].item, "create")'
                 /\ request'[x].code = 204 => request'[request'[x].item].stage = "replied"
      <3>1. Sent(x, "delete") /\ request'[x].item = request[x].item
        BY <2>2, <1>1 DEF Keeps, Sent
      <3>2. request[x].item \in Requests /\ Sent(request[x].item, "create")
        BY <3>1, <1>2 DEF Origin
      <3>3. /\ request'[request[x].item].op = "create"
            /\ request'[request[x].item].stage # "none"
        BY <3>2, <1>1 DEF Keeps, Sent
      <3>4. ASSUME request'[x].code = 204 PROVE request[request[x].item].stage = "replied"
        <4>1. CASE request[x].code = 204
          BY <4>1, <3>1, <1>2 DEF Origin
        <4>2. CASE request[x].code # 204
          <5>1. x = r
            BY <3>4, <4>2 DEF Live, Step
          <5>2. Found(r) /\ request[r].owner \in Users
            BY <5>1, <3>1, <3>4, <1>4 DEF Effect, Sent
          <5>3. saved[request[r].item] # "absent"
            BY <5>2 DEF Found, Users
          <5> QED
            BY <5>1, <5>3, <3>2, <1>2 DEF Origin
        <4> QED
          BY <4>1, <4>2
      <3> QED
        BY <3>1, <3>2, <3>3, <3>4, <1>1 DEF Keeps, Sent
    <2> QED
      BY <2>1, <2>2 DEF Origin
  <1> QED
    BY <1>3, <1>5, <1>6, <1>7

\* A live step keeps the promises made to the clients.
LEMMA LivePromises ==
  ASSUME Inv, NEW r \in Requests, Live(r), Effect(r)
  PROVE  CreatedStays' /\ DeletedOnce' /\ ListShowsKnown'
  <1>1. Keeps
    BY LiveKeeps
  <1>2. /\ Typed /\ durable' = durable /\ restarts' = restarts
        /\ \A x \in Requests : Replies(x) /\ Origin(x)
        /\ CreatedStays /\ DeletedOnce /\ ListShowsKnown
    BY DEF Inv, Live
  <1>3. request[r].stage # "replied" /\ (request[r].stage = "store" => request[r].owner \in Users)
    BY <1>2 DEF Live, Replies
  <1>4. \A x \in Requests \ {r} : request'[x] = request[x]
    BY DEF Live, Step
  <1>5. \A x \in Requests : Sent(x, "delete")' <=> Sent(x, "delete")
    BY <1>1 DEF Keeps, Sent
  <1>6. /\ saved \in [Requests -> Users \cup {"absent"}] /\ "absent" \notin Users
        /\ request \in [Requests -> Record]
    BY <1>2 DEF Typed, Users
  <1>7. CreatedStays'
    <2> SUFFICES ASSUME NEW i \in Requests, Sent(i, "create")', request'[i].code = 201
                 PROVE  \/ saved'[i] = request'[i].owner
                        \/ \E d \in Requests : Sent(d, "delete")' /\ request'[d].item = i
                        \/ ~durable' /\ request'[i].epoch < restarts'
      BY DEF CreatedStays
    <2>1. CASE request[i].code = 201
      <3>1. request[i].stage = "replied" /\ request'[i] = request[i] /\ i # r
        BY <2>1, <1>1, <1>2, <1>3 DEF Replies, Keeps
      <3>2. \/ saved[i] = request[i].owner
            \/ \E d \in Requests : Sent(d, "delete") /\ request[d].item = i
            \/ ~durable /\ request[i].epoch < restarts
        BY <2>1, <3>1, <1>2 DEF CreatedStays, Sent
      <3>3. CASE saved[i] = request[i].owner
        <4>1. CASE saved'[i] = saved[i]
          BY <4>1, <3>1, <3>3
        <4>2. CASE saved'[i] # saved[i]
          <5>1. Remove(r) /\ request[r].op = "delete" /\ request[r].item = i
            BY <4>2, <3>1, <1>6 DEF Effect, Insert, Remove
          <5>2. Sent(r, "delete") /\ request'[r].item = i
            BY <5>1, <1>1 DEF Sent, Live, Keeps
          <5> QED
            BY <5>2, <1>5
        <4> QED
          BY <4>1, <4>2
      <3>4. CASE \E d \in Requests : Sent(d, "delete") /\ request[d].item = i
        BY <3>4, <1>1, <1>5 DEF Keeps
      <3>5. CASE ~durable /\ request[i].epoch < restarts
        BY <3>5, <3>1, <1>2
      <3> QED
        BY <3>2, <3>3, <3>4, <3>5
    <2>2. CASE request[i].code # 201
      <3>1. i = r
        BY <2>2, <1>4
      <3>2. Insert(r) /\ request'[r].owner = request[r].owner
        BY <3>1 DEF Effect, Live
      <3> QED
        BY <3>1, <3>2, <1>6 DEF Insert
    <2> QED
      BY <2>1, <2>2
  <1>8. DeletedOnce'
    <2> SUFFICES ASSUME NEW i \in Requests, NEW d \in Requests, Sent(d, "delete")',
                        request'[d].item = i, request'[d].code = 204
                 PROVE  /\ saved'[i] = "absent"
                        /\ request'[d].owner = request'[i].owner
                        /\ \A e \in Requests \ {d} :
                             Sent(e, "delete")' /\ request'[e].item = i => request'[e].code # 204
      BY DEF DeletedOnce
    <2>1. Sent(d, "delete") /\ request[d].item = i
      BY <1>1, <1>5 DEF Keeps
    <2>2. CASE request[d].code = 204
      <3>1. request[d].stage = "replied" /\ request'[d] = request[d] /\ d # r
        BY <2>2, <1>1, <1>2, <1>3 DEF Replies, Keeps
      <3>2. request[i].stage = "replied" /\ request'[i] = request[i] /\ i # r
        BY <2>1, <2>2, <1>1, <1>2, <1>3 DEF Origin, Keeps
      <3>3. /\ saved[i] = "absent" /\ request[d].owner = request[i].owner
            /\ \A e \in Requests \ {d} :
                 Sent(e, "delete") /\ request[e].item = i => request[e].code # 204
        BY <2>1, <2>2, <1>2 DEF DeletedOnce
      <3>4. saved'[i] = "absent"
        BY <3>2, <3>3, <1>6 DEF Effect, Insert, Remove
      <3>5. ASSUME NEW e \in Requests \ {d}, Sent(e, "delete")', request'[e].item = i
            PROVE  request'[e].code # 204
        <4>1. Sent(e, "delete") /\ request[e].item = i
          BY <3>5, <1>1, <1>5 DEF Keeps
        <4>2. CASE e # r
          BY <4>1, <4>2, <3>3, <1>4
        <4>3. CASE e = r
          <5>1. request[r].op = "delete" /\ saved[request[r].item] = "absent"
            BY <4>1, <4>3, <3>3 DEF Sent
          <5>2. ~(Found(r) /\ request[r].stage = "store")
            BY <5>1, <1>3, <1>6 DEF Found
          <5> QED
            BY <4>3, <5>1, <5>2 DEF Effect
        <4> QED
          BY <4>2, <4>3
      <3> QED
        BY <3>1, <3>2, <3>3, <3>4, <3>5
    <2>3. CASE request[d].code # 204
      <3>1. d = r
        BY <2>3, <1>4
      <3>2. Remove(r) /\ Found(r) /\ request[r].stage = "store" /\ request[r].item = i
        BY <3>1, <2>1 DEF Effect, Sent
      <3>3. saved[i] = request[r].owner /\ saved[i] # "absent"
        BY <3>2, <1>3, <1>6 DEF Found
      <3>4. saved'[i] = "absent"
        BY <3>2, <1>6 DEF Remove
      <3>5. request[i].owner = saved[i] /\ request[i].stage = "replied" /\ request'[i] = request[i]
        BY <3>3, <1>1, <1>2 DEF Origin, Keeps
      <3>6. request'[d].owner = request'[i].owner
        BY <3>1, <3>2, <3>3, <3>5 DEF Live
      <3>7. ASSUME NEW e \in Requests \ {d}, Sent(e, "delete")', request'[e].item = i
            PROVE  request'[e].code # 204
        <4>1. Sent(e, "delete") /\ request[e].item = i /\ request'[e] = request[e]
          BY <3>1, <3>7, <1>1, <1>4, <1>5 DEF Keeps
        <4> QED
          BY <4>1, <3>3, <1>2 DEF DeletedOnce
      <3> QED
        BY <3>4, <3>6, <3>7
    <2> QED
      BY <2>2, <2>3
  <1>9. ListShowsKnown'
    <2> SUFFICES ASSUME NEW x \in Requests, Sent(x, "list")', request'[x].code = 200,
                        NEW i \in request'[x].known
                 PROVE  \/ i \in request'[x].result
                        \/ request'[i].owner # request'[x].owner
                        \/ \E d \in Requests : Sent(d, "delete")' /\ request'[d].item = i
                        \/ ~durable' /\ request'[i].epoch < restarts'
      BY DEF ListShowsKnown
    <2>1. i \in request[x].known /\ i \in Requests
      BY <1>4, <1>6 DEF Live, Step, Record
    <2>2. Sent(i, "create") /\ request[i].code = 201
      BY <2>1, <1>2 DEF Replies
    <2>3. request[i].stage = "replied" /\ request'[i] = request[i]
      BY <2>1, <2>2, <1>1, <1>2 DEF Replies, Keeps
    <2>4. (\E d \in Requests : Sent(d, "delete") /\ request[d].item = i)
            => \E d \in Requests : Sent(d, "delete")' /\ request'[d].item = i
      BY <1>1, <1>5 DEF Keeps
    <2>5. CASE request[x].code = 200
      <3>1. request[x].stage = "replied" /\ request'[x] = request[x] /\ Sent(x, "list")
        BY <2>5, <1>1, <1>2 DEF Replies, Keeps, Sent
      <3>2. \/ i \in request[x].result \/ request[i].owner # request[x].owner
            \/ \E d \in Requests : Sent(d, "delete") /\ request[d].item = i
            \/ ~durable /\ request[i].epoch < restarts
        BY <2>1, <2>5, <3>1, <1>2 DEF ListShowsKnown
      <3> QED
        BY <3>1, <3>2, <2>3, <2>4, <1>2
    <2>6. CASE request[x].code # 200
      <3>1. x = r
        BY <2>6, <1>4
      <3>2. /\ request'[r].result = {k \in Requests : saved[k] = request[r].owner}
            /\ request'[r].owner = request[r].owner
        BY <3>1 DEF Effect, Live
      <3>3. \/ saved[i] = request[i].owner
            \/ \E d \in Requests : Sent(d, "delete") /\ request[d].item = i
            \/ ~durable /\ request[i].epoch < restarts
        BY <2>1, <2>2, <1>2 DEF CreatedStays
      <3>4. CASE saved[i] = request[i].owner
        BY <3>1, <3>2, <3>4, <2>1, <2>3
      <3> QED
        BY <3>3, <3>4, <2>3, <2>4, <1>2
    <2> QED
      BY <2>5, <2>6
  <1> QED
    BY <1>7, <1>8, <1>9

\* Sessions go from unissued over valid and expired to revoked.
Ages ==
    /\ session' \in [Tokens -> {"unissued", "valid", "expired", "revoked"}]
    /\ \A t \in Tokens : /\ session[t] = "revoked" => session'[t] = "revoked"
                         /\ session[t] # "unissued" => session'[t] # "unissued"

\* A request that does not move keeps what it knows of its session.
LEMMA OtherSession ==
  ASSUME Inv, Ages, enabled' = enabled, NEW x \in Requests, request'[x] = request[x]
  PROVE  Session(x)' /\ Late(x)'
  <1>1. Session(x) /\ Late(x) /\ Typed
    BY DEF Inv
  <1>2. Names(request[x].token, {"revoked"}) => Names(request[x].token, {"revoked"})'
    BY DEF Names, Ages
  <1>3. Names(request[x].token, {"valid", "expired", "revoked"})
          => Names(request[x].token, {"valid", "expired", "revoked"})'
    BY DEF Names, Ages
  <1>4. Session(x)'
    <2>1. request[x].op = "logout" /\ request[x].code = 204 /\ request[x].token \in Tokens =>
              session'[request[x].token] = "revoked"
      BY <1>1 DEF Session, Ages
    <2>2. request[x].stage = "handler" /\ enabled =>
              Names(request[x].token, {"valid", "expired", "revoked"})'
      BY <1>1, <1>3 DEF Session
    <2>3. request[x].owner = "" => Names(request[x].token, {"revoked"})'
      BY <1>1, <1>2 DEF Session
    <2> QED
      BY <2>1, <2>2, <2>3 DEF Session
  <1>5. Late(x)'
    BY <1>1, <1>2 DEF Late
  <1> QED
    BY <1>4, <1>5

\* The parts of the invariant, after a step of r.
LEMMA LiveInv ==
  ASSUME Inv, NEW r \in Requests, Live(r), Effect(r), Ages, enabled' = enabled,
         Session(r)', Late(r)'
  PROVE  Inv'
  <1>1. \A x \in Requests : Session(x)' /\ Late(x)'
    <2> TAKE x \in Requests
    <2>1. CASE x = r
      BY <2>1
    <2>2. CASE x # r
      <3>1. request'[x] = request[x]
        BY <2>2 DEF Live, Step
      <3> QED
        BY <3>1, OtherSession
    <2> QED
      BY <2>1, <2>2
  <1>2. Typed'
    BY LiveShape DEF Inv, Typed, Ages, Live
  <1> QED
    BY <1>1, <1>2, LiveShape, LivePromises DEF Inv

\* A late request that has passed the middleware does not exist.
LEMMA LateStops ==
  ASSUME Inv, NEW r \in Requests, request[r].stage \in {"handler", "store"}
  PROVE  ~request[r].late
  BY DEF Inv, Late

\* The middleware.
LEMMA AuthorizeInv ==
  ASSUME Inv, NEW r \in Requests, Authorize(r)
  PROVE  Inv'
  <1>1. /\ Step(r) /\ request'[r].owner = request[r].owner
        /\ \/ /\ Valid(request[r].token)
              /\ request'[r].stage = "handler" /\ request'[r].code = request[r].code
           \/ /\ ~Valid(request[r].token)
              /\ request'[r].stage = "replied" /\ request'[r].code = 401
    BY AuthorizeStep DEF Inv
  <1>2. /\ request[r].stage = "auth"
        /\ durable' = durable /\ enabled' = enabled /\ session' = session /\ saved' = saved
        /\ restarts' = restarts
    BY DEF Authorize, At
  <1>3. Typed /\ Replies(r) /\ Session(r) /\ Late(r)
    BY DEF Inv
  <1>4. request[r].code = 0
    BY <1>2, <1>3 DEF Replies
  <1>5. Live(r) /\ Effect(r)
    BY <1>1, <1>2, <1>4 DEF Live, Effect
  <1>6. Ages
    BY <1>2, <1>3 DEF Ages, Typed
  <1>7. Session(r)'
    <2>1. request'[r].token = request[r].token /\ request'[r].op = request[r].op
      BY <1>1 DEF Step
    <2>2. ASSUME request'[r].stage = "handler", enabled
          PROVE  Names(request[r].token, {"valid", "expired", "revoked"})
      BY <2>2, <1>1 DEF Valid, Names
    <2>3. ~(request[r].op = "logout" /\ request'[r].code = 204)
      BY <1>1, <1>4
    <2>4. request[r].owner = "" => Names(request[r].token, {"revoked"})
      BY <1>3 DEF Session
    <2>5. request[r].owner = "" => Names(request[r].token, {"revoked"})'
      BY <2>1, <2>4, <1>2 DEF Names
    <2>6. request'[r].stage = "handler" /\ enabled =>
              Names(request[r].token, {"valid", "expired", "revoked"})'
      BY <2>1, <2>2, <1>2 DEF Names
    <2>7. request'[r].owner = request[r].owner /\ enabled' = enabled
      BY <1>1, <1>2
    <2> QED
      BY <2>1, <2>3, <2>5, <2>6, <2>7 DEF Session
  <1>8. Late(r)'
    <2>1. request'[r].late = request[r].late
      BY <1>1 DEF Step
    <2>2. ASSUME request[r].late PROVE ~Valid(request[r].token)
      BY <2>2, <1>2, <1>3 DEF Late, Valid, Names
    <2> QED
      BY <2>1, <2>2, <1>1 DEF Late
  <1> QED
    BY <1>2, <1>5, <1>6, <1>7, <1>8, LiveInv

\* A logout.
LEMMA LogoutInv ==
  ASSUME Inv, NEW r \in Requests, Logout(r)
  PROVE  Inv'
  <1>1. /\ Step(r) /\ request'[r].owner = request[r].owner
        /\ request'[r].stage = "replied" /\ request'[r].code = 204
    <2>1. 204 \in Codes
      BY DEF Codes
    <2> QED
      BY <2>1, ReplyStep DEF Inv, Logout
  <1>2. /\ request[r].stage = "handler" /\ request[r].op = "logout"
        /\ session' = [t \in Tokens |-> IF t = request[r].token THEN "revoked" ELSE session[t]]
        /\ durable' = durable /\ enabled' = enabled /\ saved' = saved /\ restarts' = restarts
    BY DEF Logout, At
  <1>3. Typed /\ Replies(r) /\ Session(r)
    BY DEF Inv
  <1>4. Live(r) /\ Effect(r)
    BY <1>1, <1>2 DEF Live, Effect
  <1>5. Ages
    BY <1>2, <1>3 DEF Ages, Typed
  <1>6. Session(r)'
    <2>1. request'[r].token = request[r].token /\ request'[r].op = request[r].op
      BY <1>1 DEF Step
    <2> QED
      BY <2>1, <1>1, <1>2, <1>3 DEF Session, Names
  <1>7. Late(r)'
    BY ZenonT(60), <1>1, <1>2, LateStops DEF Late, Step
  <1> QED
    BY <1>2, <1>4, <1>5, <1>6, <1>7, LiveInv

\* The handler's look-up of the owner.
LEMMA TakeOwnerInv ==
  ASSUME Inv, NEW r \in Requests, TakeOwner(r)
  PROVE  Inv'
  <1>1. /\ Step(r)
        /\ \/ /\ request'[r].stage = "store" /\ request'[r].code = request[r].code
              /\ request'[r].owner = User(request[r].token)
           \/ /\ request'[r].stage = "replied" /\ request'[r].code = 400
              /\ request'[r].owner = request[r].owner /\ request[r].op = "create"
    BY TakeOwnerStep DEF Inv
  <1>2. /\ request[r].stage = "handler" /\ request[r].op # "logout"
        /\ durable' = durable /\ enabled' = enabled /\ session' = session /\ saved' = saved
        /\ restarts' = restarts
    BY DEF TakeOwner, At
  <1>3. Typed /\ Replies(r) /\ Session(r)
    BY DEF Inv
  <1>4. request[r].code = 0 /\ User(request[r].token) \in Users
    BY <1>2, <1>3 DEF Replies, User, Users
  <1>5. Live(r) /\ Effect(r)
    BY <1>1, <1>2, <1>4 DEF Live, Effect
  <1>6. Ages
    BY <1>2, <1>3 DEF Ages, Typed
  <1>7. Session(r)'
    <2>1. request'[r].token = request[r].token /\ request'[r].op = request[r].op
      BY <1>1 DEF Step
    <2>2. ASSUME User(request[r].token) = ""
          PROVE  Names(request[r].token, {"revoked"})
      BY <2>2, <1>2, <1>3 DEF User, Session, Names
    <2> QED
      BY <2>1, <2>2, <1>1, <1>2, <1>3 DEF Session, Names
  <1>8. Late(r)'
    BY <1>1, <1>2, LateStops DEF Late, Step
  <1> QED
    BY <1>2, <1>5, <1>6, <1>7, <1>8, LiveInv

\* A step at the store that keeps the session and the owner.
LEMMA StoreInv ==
  ASSUME Inv, NEW r \in Requests, Step(r), request[r].stage = "store",
         request'[r].stage = "replied", request'[r].owner = request[r].owner,
         request'[r].code = 204 => request[r].op # "logout",
         Effect(r), UNCHANGED <<durable, enabled, session, restarts>>
  PROVE  Inv'
  <1>1. Live(r)
    BY DEF Live
  <1>2. Ages
    BY DEF Ages, Inv, Typed
  <1>3. Session(r)'
    BY DEF Inv, Session, Names, Step
  <1>4. Late(r)'
    BY LateStops DEF Late, Step
  <1> QED
    BY <1>1, <1>2, <1>3, <1>4, LiveInv

\* create, delete, list and the failures of the control store.
LEMMA StoreStepsInv ==
  ASSUME Inv, NEW r \in Requests, Create(r) \/ Delete(r) \/ List(r) \/ StoreFails(r)
  PROVE  Inv'
  <1>1. request[r].stage = "store" /\ UNCHANGED <<durable, enabled, session, restarts>> /\ Typed
    BY DEF Create, Delete, List, StoreFails, At, Inv
  <1>2. 201 \in Codes /\ 204 \in Codes /\ 404 \in Codes /\ 503 \in Codes
    BY DEF Codes
  <1>3. CASE Create(r)
    <2>1. /\ Step(r) /\ request'[r].stage = "replied" /\ request'[r].code = 201
          /\ request'[r].owner = request[r].owner
      BY <1>1, <1>2, <1>3, ReplyStep DEF Create
    <2>2. Effect(r)
      BY <2>1, <1>1, <1>3 DEF Create, Effect
    <2> QED
      BY <2>1, <2>2, <1>1, StoreInv
  <1>4. CASE Delete(r) /\ Found(r)
    <2>1. /\ Step(r) /\ request'[r].stage = "replied" /\ request'[r].code = 204
          /\ request'[r].owner = request[r].owner
      BY <1>1, <1>2, <1>4, ReplyStep DEF Delete
    <2>2. Effect(r) /\ request[r].op = "delete"
      BY <2>1, <1>1, <1>4 DEF Delete, Effect
    <2> QED
      BY <2>1, <2>2, <1>1, StoreInv
  <1>5. CASE Delete(r) /\ ~Found(r)
    <2>1. /\ Step(r) /\ request'[r].stage = "replied" /\ request'[r].code = 404
          /\ request'[r].owner = request[r].owner
      BY <1>1, <1>2, <1>5, ReplyStep DEF Delete
    <2>2. Effect(r)
      BY <2>1, <1>1, <1>5 DEF Delete, Effect
    <2> QED
      BY <2>1, <2>2, <1>1, StoreInv
  <1>6. CASE List(r)
    <2>1. /\ Step(r) /\ request'[r].stage = "replied" /\ request'[r].code = 200
          /\ request'[r].owner = request[r].owner
          /\ request'[r].result = {i \in Requests : saved[i] = request[r].owner}
      BY <1>1, <1>6, ListStep
    <2>2. Effect(r)
      BY <2>1, <1>1, <1>6 DEF List, Effect
    <2> QED
      BY <2>1, <2>2, <1>1, StoreInv
  <1>7. CASE StoreFails(r)
    <2>1. /\ Step(r) /\ request'[r].stage = "replied" /\ request'[r].code = 503
          /\ request'[r].owner = request[r].owner
      BY <1>1, <1>2, <1>7, ReplyStep DEF StoreFails
    <2>2. Effect(r)
      BY <2>1, <1>1, <1>7 DEF StoreFails, Effect
    <2> QED
      BY <2>1, <2>2, <1>1, StoreInv
  <1> QED
    BY <1>3, <1>4, <1>5, <1>6, <1>7

\* A client sends a request.
LEMMA SendInv ==
  ASSUME Inv, NEW r \in Requests, NEW op \in {"create", "delete", "list", "logout"},
         NEW t \in Tokens \cup {"none"}, NEW i \in Requests, Send(r, op, t, i)
  PROVE  Inv'
  <1> DEFINE late == enabled /\ LoggedOut(t)
             q == [op |-> op, token |-> t, item |-> IF op = "delete" THEN i ELSE r,
                   stage |-> "auth", owner |-> "none", code |-> 0, late |-> late,
                   epoch |-> restarts, known |-> Known, result |-> {}]
  <1>1. /\ Typed /\ CreatedStays /\ DeletedOnce /\ ListShowsKnown
        /\ \A x \in Requests : Replies(x) /\ Origin(x) /\ Session(x)
    BY DEF Inv
  <1>2. /\ request[r].stage = "none" /\ request[r].op = "none"
        /\ UNCHANGED <<durable, enabled, session, saved, restarts>>
        /\ (op = "delete" => Sent(i, "create"))
    BY SMTT(30) DEF Send, Unsent
  <1>3. request' = [request EXCEPT ![r] = q]
    BY DEF Send
  <1>4. q \in Record
    <2>1. late \in BOOLEAN /\ Known \in SUBSET Requests /\ restarts \in Nat
      BY <1>1 DEF Known, Typed
    <2>2. "auth" \in Stages /\ 0 \in Codes
      BY DEF Stages, Codes
    <2> HIDE DEF late
    <2> QED
      BY <2>1, <2>2 DEF Record
  <1>5. /\ q.op = op /\ q.token = t /\ q.item = (IF op = "delete" THEN i ELSE r)
        /\ q.stage = "auth" /\ q.owner = "none" /\ q.code = 0 /\ (q.late <=> late)
        /\ q.epoch = restarts /\ q.known = Known
    OBVIOUS
  <1> HIDE DEF q
  <1>6. /\ request' \in [Requests -> Record] /\ request'[r] = q
        /\ \A x \in Requests \ {r} : request'[x] = request[x]
    BY <1>1, <1>3, <1>4 DEF Typed
  <1>7. \A x \in Requests, o \in {"create", "delete", "list"} :
          Sent(x, o) => x # r /\ Sent(x, o)' /\ request'[x] = request[x]
    BY <1>2, <1>6 DEF Sent
  <1>8. Typed'
    BY <1>1, <1>2, <1>6 DEF Typed
  <1>9. \A x \in Requests : Replies(x)'
    <2> TAKE x \in Requests
    <2>1. CASE x = r
      <3>1. \A k \in Known : Sent(k, "create")' /\ request'[k].code = 201
        BY <1>7 DEF Known
      <3> QED
        BY <2>1, <3>1, <1>1, <1>2, <1>5, <1>6 DEF Replies, Typed
    <2>2. CASE x # r
      <3>1. request'[x] = request[x] /\ request[x].known \subseteq Requests
        BY <2>2, <1>1, <1>6 DEF Typed, Record
      <3>2. \A k \in request[x].known : Sent(k, "create")' /\ request'[k].code = 201
        BY <3>1, <1>1, <1>7 DEF Replies
      <3> QED
        BY <3>1, <3>2, <1>1, <1>2 DEF Replies
    <2> QED
      BY <2>1, <2>2
  <1>10. \A x \in Requests : Origin(x)'
    <2> TAKE x \in Requests
    <2>1. CASE x = r
      <3>1. saved'[r] = "absent"
        BY <1>1, <1>2 DEF Origin
      <3>2. request'[r].code # 204
        BY <1>5, <1>6
      <3>3. ASSUME op = "delete"
            PROVE  request'[r].item = i /\ request'[i].op = "create" /\ request'[i].stage # "none"
        BY <3>3, <1>2, <1>5, <1>6, <1>7 DEF Sent
      <3>4. request'[r].op = op
        BY <1>5, <1>6
      <3> QED
        BY <2>1, <3>1, <3>2, <3>3, <3>4 DEF Origin, Sent
    <2>2. CASE x # r
      <3>1. request'[x] = request[x] /\ saved'[x] = saved[x]
        BY <2>2, <1>2, <1>6
      <3>2. ASSUME Sent(x, "delete")
            PROVE  /\ request[x].item \in Requests
                   /\ request'[request[x].item] = request[request[x].item]
                   /\ Sent(request[x].item, "create")
        BY <3>2, <1>1, <1>7 DEF Origin
      <3> QED
        BY <3>1, <3>2, <1>1 DEF Origin, Sent
    <2> QED
      BY <2>1, <2>2
  <1>11. Ages
    BY <1>1, <1>2 DEF Ages, Typed
  <1>12. Session(r)'
    <2>1. request'[r].code = 0 /\ request'[r].stage = "auth" /\ request'[r].owner = "none"
      BY <1>5, <1>6, Zenon
    <2>2. request'[r].code # 204
      BY <2>1
    <2>3. request'[r].stage # "handler" /\ request'[r].owner # ""
      BY <2>1
    <2> QED
      BY <2>2, <2>3, Zenon DEF Session
  <1>13. Late(r)'
    <2>1. ASSUME late PROVE enabled /\ Names(t, {"revoked"})
      <3>1. PICK l \in Requests : t # "none" /\ Sent(l, "logout") /\ request[l].token = t
                                  /\ request[l].code = 204
        BY <2>1 DEF LoggedOut
      <3>2. t \in Tokens /\ session[t] = "revoked"
        BY <3>1, <1>1 DEF Session, Sent
      <3> QED
        BY <2>1, <3>2 DEF Names
    <2> HIDE DEF late
    <2>2. ASSUME request'[r].late
          PROVE  enabled' /\ Names(request[r].token, {"revoked"})'
      <3>1. enabled /\ Names(t, {"revoked"})
        BY <2>1, <2>2, <1>5, <1>6
      <3> QED
        BY <3>1, <1>2, <1>5, <1>6 DEF Names
    <2> QED
      BY <2>2, <1>5, <1>6 DEF Late
  <1>14. \A x \in Requests : Session(x)' /\ Late(x)'
    <2> TAKE x \in Requests
    <2>1. CASE x # r
      BY <2>1, <1>2, <1>6, <1>11, OtherSession
    <2> QED
      BY <2>1, <1>12, <1>13
  <1>15. \A x \in Requests : request'[x].code # 0 => x # r /\ request'[x] = request[x]
    BY <1>5, <1>6
  <1>16. CreatedStays'
    <2> SUFFICES ASSUME NEW x \in Requests, Sent(x, "create")', request'[x].code = 201
                 PROVE  \/ saved'[x] = request'[x].owner
                        \/ \E d \in Requests : Sent(d, "delete")' /\ request'[d].item = x
                        \/ ~durable' /\ request'[x].epoch < restarts'
      BY DEF CreatedStays
    <2>1. request'[x] = request[x] /\ Sent(x, "create")
      BY <1>15 DEF Sent
    <2>2. \/ saved[x] = request[x].owner
          \/ \E d \in Requests : Sent(d, "delete") /\ request[d].item = x
          \/ ~durable /\ request[x].epoch < restarts
      BY <2>1, <1>1 DEF CreatedStays
    <2> QED
      BY <2>1, <2>2, <1>2, <1>7
  <1>17. DeletedOnce'
    <2> SUFFICES ASSUME NEW x \in Requests, NEW d \in Requests, Sent(d, "delete")',
                        request'[d].item = x, request'[d].code = 204
                 PROVE  /\ saved'[x] = "absent"
                        /\ request'[d].owner = request'[x].owner
                        /\ \A e \in Requests \ {d} :
                             Sent(e, "delete")' /\ request'[e].item = x => request'[e].code # 204
      BY DEF DeletedOnce
    <2>1. request'[d] = request[d] /\ Sent(d, "delete")
      BY <1>15 DEF Sent
    <2>2. request'[x] = request[x]
      BY <2>1, <1>1, <1>7 DEF Origin
    <2>3. /\ saved[x] = "absent" /\ request[d].owner = request[x].owner
          /\ \A e \in Requests \ {d} :
               Sent(e, "delete") /\ request[e].item = x => request[e].code # 204
      BY <2>1, <1>1 DEF DeletedOnce
    <2>4. ASSUME NEW e \in Requests \ {d}, Sent(e, "delete")', request'[e].item = x
          PROVE  request'[e].code # 204
      <3>1. CASE e = r
        BY <3>1, <1>5, <1>6
      <3>2. CASE e # r
        BY <3>2, <2>3, <2>4, <1>6 DEF Sent
      <3> QED
        BY <3>1, <3>2
    <2> QED
      BY <2>1, <2>2, <2>3, <2>4, <1>2
  <1>18. ListShowsKnown'
    <2> SUFFICES ASSUME NEW x \in Requests, Sent(x, "list")', request'[x].code = 200,
                        NEW k \in request'[x].known
                 PROVE  \/ k \in request'[x].result
                        \/ request'[k].owner # request'[x].owner
                        \/ \E d \in Requests : Sent(d, "delete")' /\ request'[d].item = k
                        \/ ~durable' /\ request'[k].epoch < restarts'
      BY DEF ListShowsKnown
    <2>1. request'[x] = request[x] /\ Sent(x, "list") /\ k \in request[x].known /\ k \in Requests
      BY <1>1, <1>15 DEF Sent, Typed, Record
    <2>2. request'[k] = request[k]
      BY <2>1, <1>1, <1>7 DEF Replies
    <2>3. \/ k \in request[x].result \/ request[k].owner # request[x].owner
          \/ \E d \in Requests : Sent(d, "delete") /\ request[d].item = k
          \/ ~durable /\ request[k].epoch < restarts
      BY <2>1, <1>1 DEF ListShowsKnown
    <2> QED
      BY <2>1, <2>2, <2>3, <1>2, <1>7
  <1> QED
    BY <1>8, <1>9, <1>10, <1>14, <1>16, <1>17, <1>18 DEF Inv

\* A session begins or expires; no request moves.
LEMMA SessionStepInv ==
  ASSUME Inv, NEW t \in Tokens, Login(t) \/ Expire(t)
  PROVE  Inv'
  <1>1. UNCHANGED <<durable, enabled, saved, restarts, request>>
    BY DEF Login, Expire
  <1>2. Ages
    BY DEF Inv, Typed, Login, Expire, Ages
  <1>3. \A x \in Requests : Session(x)' /\ Late(x)'
    BY <1>1, <1>2, OtherSession
  <1>4. Typed'
    BY <1>1, <1>2 DEF Inv, Typed, Ages
  <1>5. \A x \in Requests : Replies(x)' /\ Origin(x)'
    BY SMTT(30), <1>1 DEF Inv, Replies, Origin, Sent
  <1>6. CreatedStays' /\ DeletedOnce' /\ ListShowsKnown'
    BY <1>1 DEF Inv, CreatedStays, DeletedOnce, ListShowsKnown, Sent
  <1> QED
    BY <1>3, <1>4, <1>5, <1>6 DEF Inv

\* A restart of the service.
LEMMA RestartInv ==
  ASSUME Inv, Restart
  PROVE  Inv'
  <1> DEFINE Moved(x) == request[x].stage \in {"auth", "handler", "store"}
  <1>1. /\ Typed /\ CreatedStays /\ DeletedOnce /\ ListShowsKnown
        /\ \A x \in Requests : Replies(x) /\ Origin(x) /\ Session(x) /\ Late(x)
    BY DEF Inv
  <1>2. /\ durable' = durable /\ restarts' = restarts + 1 /\ restarts \in Nat
        /\ saved' = IF durable THEN saved ELSE [i \in Requests |-> "absent"]
    BY <1>1 DEF Restart, Typed
  <1>3. \A x \in Requests :
          request'[x] = IF Moved(x) THEN [request[x] EXCEPT !.stage = "lost"] ELSE request[x]
    BY DEF Restart
  <1>4. "lost" \in Stages
    BY DEF Stages
  <1>5. \A x \in Requests : /\ request'[x].op = request[x].op /\ request'[x].token = request[x].token
                            /\ request'[x].item = request[x].item /\ request'[x].owner = request[x].owner
                            /\ request'[x].code = request[x].code /\ request'[x].late = request[x].late
                            /\ request'[x].epoch = request[x].epoch
                            /\ request'[x].known = request[x].known
                            /\ request'[x].result = request[x].result
                            /\ request'[x].stage = (IF Moved(x) THEN "lost" ELSE request[x].stage)
    <2> TAKE x \in Requests
    <2>1. request[x] \in Record
      BY <1>1 DEF Typed
    <2> HIDE DEF Moved
    <2>2. CASE Moved(x)
      <3>1. request'[x] = [request[x] EXCEPT !.stage = "lost"]
        BY <2>2, <1>3
      <3> QED
        BY <3>1, <2>1, <2>2 DEF Record
    <2>3. CASE ~Moved(x)
      BY <2>3, <1>3
    <2> QED
      BY <2>2, <2>3
  <1>6. request' \in [Requests -> Record]
    <2>1. \A x \in Requests : request'[x] \in Record
      <3> TAKE x \in Requests
      <3>1. request[x] \in Record
        BY <1>1 DEF Typed
      <3>2. [request[x] EXCEPT !.stage = "lost"] \in Record
        BY <3>1, <1>4 DEF Record
      <3> QED
        BY <3>1, <3>2, <1>3
    <2> QED
      BY <2>1 DEF Restart
  <1>7. saved' \in [Requests -> Users \cup {"absent"}] /\ \A x \in Requests : saved'[x] \in {saved[x], "absent"}
    BY <1>1, <1>2 DEF Typed
  <1>8. Ages
    BY <1>1 DEF Restart, Ages, Typed
  <1> HIDE DEF Moved
  <1>9. Typed'
    BY <1>2, <1>6, <1>7, <1>8 DEF Typed, Ages
  <1>10. \A x \in Requests, o \in {"create", "delete", "list"} : Sent(x, o)' <=> Sent(x, o)
    BY <1>5 DEF Sent, Moved
  <1>11. \A x \in Requests : /\ request[x].stage = "replied" => request'[x].stage = "replied"
                             /\ request'[x].stage = "replied" => request[x].stage = "replied"
                             /\ request'[x].stage \notin {"auth", "handler", "store"}
    BY <1>5 DEF Moved
  <1>12. \A x \in Requests : Replies(x)'
    <2> TAKE x \in Requests
    <2>1. \A k \in request'[x].known : Sent(k, "create")' /\ request'[k].code = 201
      <3> TAKE k \in request'[x].known
      <3>1. k \in Requests /\ k \in request[x].known
        BY <1>1, <1>5 DEF Typed, Record
      <3> QED
        BY <3>1, <1>1, <1>5, <1>10 DEF Replies
    <2>2. request[x].epoch <= restarts + 1
      BY SMTT(30), <1>1, <1>2 DEF Replies, Typed, Record
    <2>3. request'[x].stage # "replied" => request'[x].code = 0
      BY <1>1, <1>5, <1>11 DEF Replies
    <2> QED
      BY <2>1, <2>2, <2>3, <1>1, <1>2, <1>5, <1>11 DEF Replies
  <1>13. \A x \in Requests : Origin(x)'
    <2> TAKE x \in Requests
    <2>1. saved'[x] # "absent" => /\ request'[x].op = "create" /\ request'[x].stage = "replied"
                                  /\ request'[x].owner = saved'[x]
      BY <1>1, <1>5, <1>7, <1>11 DEF Origin
    <2>2. ASSUME Sent(x, "delete")'
          PROVE  /\ request'[x].item \in Requests /\ request'[request'[x].item].op = "create"
                 /\ request'[request'[x].item].stage # "none"
                 /\ request'[x].code = 204 => request'[request'[x].item].stage = "replied"
      <3>1. Sent(x, "delete") /\ request'[x].item = request[x].item /\ request'[x].code = request[x].code
        BY <2>2, <1>5, <1>10
      <3>2. /\ request[x].item \in Requests /\ Sent(request[x].item, "create")
            /\ request[x].code = 204 => request[request[x].item].stage = "replied"
        BY <3>1, <1>1 DEF Origin
      <3>3. request'[request[x].item].op = "create" /\ request'[request[x].item].stage # "none"
        BY <3>2, <1>5 DEF Sent, Moved
      <3> QED
        BY <3>1, <3>2, <3>3, <1>11
    <2> QED
      BY <2>1, <2>2 DEF Origin, Sent
  <1>14. \A x \in Requests : Session(x)' /\ Late(x)'
    <2> TAKE x \in Requests
    <2>1. Names(request[x].token, {"revoked"}) => Names(request[x].token, {"revoked"})'
      BY <1>5, <1>8 DEF Names, Ages
    <2>2. request[x].op = "logout" /\ request[x].code = 204 /\ request[x].token \in Tokens =>
              session'[request[x].token] = "revoked"
      BY <1>1, <1>8 DEF Session, Ages
    <2>3. request[x].owner = "" => Names(request[x].token, {"revoked"})'
      BY <2>1, <1>1 DEF Session
    <2>4. Session(x)'
      BY ZenonT(60), <2>2, <2>3, <1>5, <1>11 DEF Session
    <2>5. ASSUME request'[x].late
          PROVE  request'[x].code \in {0, 401} /\ request'[x].stage \in {"replied", "lost"}
      <3>1. request[x].late
        BY <2>5, <1>5
      <3>2. request[x].code \in {0, 401} /\ request[x].stage \in {"auth", "replied", "lost"}
        BY <3>1, <1>1 DEF Late
      <3> QED
        BY <3>2, <1>5 DEF Moved
    <2>6. Late(x)'
      BY <2>5 DEF Late
    <2> QED
      BY <2>4, <2>6
  <1>15. CreatedStays'
    <2> SUFFICES ASSUME NEW x \in Requests, Sent(x, "create")', request'[x].code = 201
                 PROVE  \/ saved'[x] = request'[x].owner
                        \/ \E d \in Requests : Sent(d, "delete")' /\ request'[d].item = x
                        \/ ~durable' /\ request'[x].epoch < restarts'
      BY DEF CreatedStays
    <2>1. CASE ~durable
      <3>1. request[x].epoch <= restarts /\ request[x].epoch \in Nat
        BY <1>1 DEF Replies, Typed, Record
      <3> QED
        BY <2>1, <3>1, <1>2, <1>5
    <2>2. CASE durable
      <3>1. \/ saved[x] = request[x].owner
            \/ \E d \in Requests : Sent(d, "delete") /\ request[d].item = x
        BY SMTT(30), <2>2, <1>1, <1>5, <1>10 DEF CreatedStays
      <3> QED
        BY SMTT(30), <2>2, <3>1, <1>2, <1>5, <1>10
    <2> QED
      BY <2>1, <2>2
  <1>16. DeletedOnce'
    BY SMTT(30), <1>1, <1>5, <1>7, <1>10 DEF DeletedOnce
  <1>17. ListShowsKnown'
    <2> SUFFICES ASSUME NEW x \in Requests, Sent(x, "list")', request'[x].code = 200,
                        NEW k \in request'[x].known
                 PROVE  \/ k \in request'[x].result
                        \/ request'[k].owner # request'[x].owner
                        \/ \E d \in Requests : Sent(d, "delete")' /\ request'[d].item = k
                        \/ ~durable' /\ request'[k].epoch < restarts'
      BY DEF ListShowsKnown
    <2>1. k \in request[x].known /\ k \in Requests /\ Sent(x, "list") /\ request[x].code = 200
      BY <1>1, <1>5, <1>10 DEF Typed, Record
    <2>2. \/ k \in request[x].result \/ request[k].owner # request[x].owner
          \/ \E d \in Requests : Sent(d, "delete") /\ request[d].item = k
          \/ ~durable /\ request[k].epoch < restarts
      BY <2>1, <1>1 DEF ListShowsKnown
    <2>3. ~durable /\ request[k].epoch < restarts => ~durable' /\ request'[k].epoch < restarts'
      BY <2>1, <1>1, <1>2, <1>5 DEF Typed, Record
    <2> QED
      BY <2>1, <2>2, <2>3, <1>5, <1>10
  <1> QED
    BY <1>9, <1>12, <1>13, <1>14, <1>15, <1>16, <1>17 DEF Inv

\* Nothing moves.
LEMMA StutterInv ==
  ASSUME Inv, UNCHANGED vars
  PROVE  Inv'
  <1>1. UNCHANGED <<durable, enabled, session, saved, restarts, request>>
    BY SMTT(30) DEF vars
  <1>2. Typed' /\ \A x \in Requests : Replies(x)' /\ Origin(x)'
    BY <1>1 DEF Inv, Typed, Replies, Origin, Sent
  <1>3. Ages
    BY <1>1 DEF Inv, Typed, Ages
  <1>4. \A x \in Requests : Session(x)' /\ Late(x)'
    BY SMTT(30), <1>1, <1>3, OtherSession
  <1>5. CreatedStays' /\ DeletedOnce' /\ ListShowsKnown'
    BY <1>1 DEF Inv, CreatedStays, DeletedOnce, ListShowsKnown, Sent
  <1> QED
    BY <1>2, <1>4, <1>5 DEF Inv

\* Every behaviour keeps the inductive invariant.
LEMMA InvHolds == Spec => []Inv
  <1>1. Inv /\ [Next]_vars => Inv'
    <2> SUFFICES ASSUME Inv, [Next]_vars PROVE Inv'
      OBVIOUS
    <2>1. ASSUME NEW t \in Tokens, Login(t) \/ Expire(t) PROVE Inv'
      BY <2>1, SessionStepInv
    <2>2. ASSUME NEW r \in Requests, NEW op \in {"create", "delete", "list", "logout"},
                 NEW t \in Tokens \cup {"none"}, NEW i \in Requests, Send(r, op, t, i)
          PROVE  Inv'
      BY <2>2, SendInv
    <2>3. ASSUME NEW r \in Requests, Authorize(r) \/ Logout(r) \/ TakeOwner(r)
          PROVE  Inv'
      BY <2>3, AuthorizeInv, LogoutInv, TakeOwnerInv
    <2>4. ASSUME NEW r \in Requests, Create(r) \/ Delete(r) \/ List(r) \/ StoreFails(r)
          PROVE  Inv'
      BY <2>4, StoreStepsInv
    <2>5. CASE Restart
      BY <2>5, RestartInv
    <2>6. CASE Rest \/ UNCHANGED vars
      BY <2>6, StutterInv DEF Rest
    <2> QED
      BY <2>1, <2>2, <2>3, <2>4, <2>5, <2>6 DEF Next
  <1> QED
    BY <1>1, InitInv, PTL DEF Spec

\* A search whose creation was answered 201 stays until a delete, or without a
\* control store until a restart.
THEOREM CreatedSearchesStay == Spec => []CreatedStays
  <1>1. Inv => CreatedStays
    BY DEF Inv
  <1> QED
    BY <1>1, InvHolds, PTL

\* At most one delete of a search is answered 204, its owner's, and for good.
THEOREM DeletesAreFinal == Spec => []DeletedOnce
  <1>1. Inv => DeletedOnce
    BY DEF Inv
  <1> QED
    BY <1>1, InvHolds, PTL

\* listSaved shows every search of its user that was known when the request was sent.
THEOREM ListsAreComplete == Spec => []ListShowsKnown
  <1>1. Inv => ListShowsKnown
    BY DEF Inv
  <1> QED
    BY <1>1, InvHolds, PTL

\* No request sent after the logout of its session is served.
THEOREM LogoutIsFinal == Spec => []LogoutRevokes
  <1>1. Inv => LogoutRevokes
    BY DEF Inv, Late, LogoutRevokes
  <1> QED
    BY <1>1, InvHolds, PTL

\* A saved search has an empty owner only if a logout came between the look-up of
\* authMiddleware and that of createSaved.
THEOREM OrphansComeFromLogouts == Spec => []OrphanOnlyByLogout
  <1>1. Inv => OrphanOnlyByLogout
    BY ZenonT(60) DEF Inv, Origin, Session, OrphanOnlyByLogout
  <1> QED
    BY <1>1, InvHolds, PTL

\* What the handlers of saved.go told their clients stays true.
THEOREM AnswersStayTrue == Spec => []SearchesAreKept
  <1>1. CreatedStays /\ DeletedOnce /\ ListShowsKnown => SearchesAreKept
    BY DEF SearchesAreKept
  <1> QED
    BY <1>1, CreatedSearchesStay, DeletesAreFinal, ListsAreComplete, PTL

\* A logout ends a session for every later request, and only a logout takes the owner
\* from a request that authMiddleware has let through.
THEOREM SessionsEndByLogout == Spec => []SessionsAreRespected
  <1>1. LogoutRevokes /\ OrphanOnlyByLogout => SessionsAreRespected
    BY DEF SessionsAreRespected
  <1> QED
    BY <1>1, LogoutIsFinal, OrphansComeFromLogouts, PTL
=============================================================================
