---------------------------- MODULE AccessProofs ----------------------------
(***************************************************************************)
(* Proofs about the access tokens of module Access: for any users, clients *)
(* and tokens, what the creator of a token was told of it is true as long  *)
(* as no two calls for the user overlap.                                   *)
(***************************************************************************)
EXTENDS Access, TLAPS

(* A user's attributes hold the user's own tokens, and so does what a call *)
(* has read of them.                                                       *)
OwnTokens ==
  /\ \A u \in TokenUsers : \A n \in Entries(attributes[u]) : creator[n] = u
  /\ \A k \in TokenClients : request[k] # None =>
       /\ creator[request[k].token] = request[k].user
       /\ \A n \in Entries(request[k].attributes) : creator[n] = request[k].user

(* As long as the calls for a user do not overlap, a call under way has    *)
(* read what is stored, and nothing is known of its token.                 *)
ReadIsCurrent(k) ==
  request[k] # None /\ request[k].user \notin overlapped =>
    /\ request[k].attributes = attributes[request[k].user]
    /\ status[request[k].token] = "unknown"

Told(n) ==
  creator[n] # None /\ creator[n] \notin overlapped =>
    /\ status[n] = "created" => n \in Entries(attributes[creator[n]])
    /\ status[n] = "deleted" => n \notin Entries(attributes[creator[n]])

(* The inductive invariant.                                                *)
TokenIInv ==
  /\ TokenTypeOK /\ OwnTokens
  /\ \A n \in Tokens : creator[n] = None => status[n] = "unknown"
  /\ \A k \in TokenClients : ReadIsCurrent(k)
  /\ \A n \in Tokens : Told(n)

-----------------------------------------------------------------------------
LEMMA EntriesAreTokens == \A a \in Attributes : Entries(a) \subseteq Tokens
BY DEF Attributes, Entries

LEMMA TokenInvInit == TokenInit => TokenIInv
<1> SUFFICES ASSUME TokenInit PROVE TokenIInv
    OBVIOUS
<1>1. TokenTypeOK
      BY DEF TokenInit, TokenTypeOK, Attributes
<1>2. QED
      BY <1>1 DEF TokenInit, TokenIInv, OwnTokens, ReadIsCurrent, Told, Entries, Attributes

LEMMA CreateGetKeeps ==
  ASSUME TokenIInv, NEW k \in TokenClients, NEW u \in TokenUsers, NEW n \in Tokens,
         CreateGet(k, u, n)
  PROVE  TokenIInv'
<1> USE DEF TokenIInv
<1> DEFINE r == [op |-> "create", user |-> u, token |-> n, attributes |-> attributes[u]]
<1>1. r \in TokenCalls /\ r # None /\ attributes[u] \in Attributes
      BY TokenAssumption DEF TokenTypeOK, TokenCalls
<1>2. /\ request' = [request EXCEPT ![k] = r]
      /\ creator' = [creator EXCEPT ![n] = u]
      /\ UNCHANGED <<attributes, status, overlapped>>
      BY DEF CreateGet
<1>3. creator[n] = None
      BY DEF CreateGet, Created
<1>4. TokenTypeOK'
      BY <1>1, <1>2 DEF TokenTypeOK
<1>5. /\ creator'[n] = u
      /\ \A m \in Tokens \ {n} : creator'[m] = creator[m]
      /\ request'[k] = r
      /\ \A d \in TokenClients \ {k} : request'[d] = request[d]
      BY <1>2 DEF TokenTypeOK
<1>6. status[n] = "unknown" /\ u # None
      BY <1>3, TokenAssumption
<1>7. \A v \in TokenUsers : attributes[v] \in Attributes /\ n \notin Entries(attributes[v])
      BY <1>3, TokenAssumption DEF OwnTokens, TokenTypeOK
<1>8. \A v \in TokenUsers : \A m \in Entries(attributes[v]) : m \in Tokens \ {n} /\ creator'[m] = v
      BY <1>5, <1>7, EntriesAreTokens DEF OwnTokens
<1>9. ASSUME NEW d \in TokenClients \ {k}, request[d] # None
      PROVE  /\ creator'[request[d].token] = request[d].user
             /\ \A m \in Entries(request[d].attributes) : creator'[m] = request[d].user
  <2>1. request[d] \in TokenCalls
        BY <1>9 DEF TokenTypeOK
  <2>2. request[d].token \in Tokens /\ request[d].attributes \in Attributes /\ request[d].user # None
        BY <2>1, TokenAssumption DEF TokenCalls
  <2>3. QED
        BY <1>3, <1>5, <1>9, <2>2, EntriesAreTokens DEF OwnTokens
<1>10. OwnTokens'
       BY <1>1, <1>2, <1>5, <1>8, <1>9 DEF OwnTokens
<1>11. \A d \in TokenClients : ReadIsCurrent(d)'
       BY <1>1, <1>2, <1>5, <1>6 DEF ReadIsCurrent
<1>12. \A m \in Tokens : Told(m)'
       BY <1>2, <1>5, <1>6 DEF Told
<1>13. QED
       BY <1>2, <1>4, <1>5, <1>6, <1>10, <1>11, <1>12

LEMMA DeleteGetKeeps ==
  ASSUME TokenIInv, NEW k \in TokenClients, NEW u \in TokenUsers, NEW n \in Tokens,
         DeleteGet(k, u, n)
  PROVE  TokenIInv'
<1> USE DEF TokenIInv
<1>0. UNCHANGED <<attributes, creator, overlapped>>
      BY DEF DeleteGet
<1>1. CASE n \in Entries(attributes[u])
  <2> DEFINE r == [op |-> "delete", user |-> u, token |-> n, attributes |-> attributes[u]]
  <2>1. r \in TokenCalls /\ r # None
        BY TokenAssumption DEF TokenTypeOK, TokenCalls
  <2>2. /\ request' = [request EXCEPT ![k] = r]
        /\ status' = [status EXCEPT ![n] = "unknown"]
        BY <1>1 DEF DeleteGet
  <2>3. TokenTypeOK'
        BY <1>0, <2>1, <2>2 DEF TokenTypeOK
  <2>4. /\ request'[k] = r
        /\ \A d \in TokenClients \ {k} : request'[d] = request[d]
        /\ status'[n] = "unknown"
        /\ \A m \in Tokens \ {n} : status'[m] = status[m]
        BY <2>2 DEF TokenTypeOK
  <2>5. OwnTokens'
        BY <1>0, <1>1, <2>4 DEF OwnTokens
  <2>6. \A d \in TokenClients : request[d] # None => request[d].token \in Tokens
        BY DEF TokenTypeOK, TokenCalls
  <2>7. \A d \in TokenClients : ReadIsCurrent(d)'
        BY <1>0, <2>4, <2>6 DEF ReadIsCurrent
  <2>8. \A m \in Tokens : Told(m)'
        BY <1>0, <2>4 DEF Told
  <2>9. QED
        BY <1>0, <2>3, <2>4, <2>5, <2>7, <2>8
<1>2. CASE n \notin Entries(attributes[u])
  <2>1. status[n] # "unknown" /\ UNCHANGED request
        BY <1>2 DEF DeleteGet, ListTokens
  <2>2. status' = [status EXCEPT ![n] = IF creator[n] = u THEN "deleted" ELSE status[n]]
        BY <1>2 DEF DeleteGet
  <2>3. /\ status'[n] = IF creator[n] = u THEN "deleted" ELSE status[n]
        /\ \A m \in Tokens \ {n} : status'[m] = status[m]
        BY <2>2 DEF TokenTypeOK
  <2>4. TokenTypeOK'
        BY <1>0, <2>1, <2>2 DEF TokenTypeOK
  <2>5. \A d \in TokenClients : request[d] # None => request[d].token \in Tokens
        BY DEF TokenTypeOK, TokenCalls
  <2>6. \A d \in TokenClients : ReadIsCurrent(d)'
        BY <1>0, <2>1, <2>3, <2>5 DEF ReadIsCurrent
  <2>7. \A m \in Tokens : Told(m)'
        BY <1>0, <1>2, <2>3 DEF Told
  <2>8. creator[n] # None
        BY <2>1
  <2>9. QED
        BY <1>0, <2>1, <2>3, <2>4, <2>6, <2>7, <2>8 DEF OwnTokens
<1>3. QED
      BY <1>1, <1>2

(* A put that nobody overlaps changes the user's attributes by the token   *)
(* of its call only.                                                       *)
LEMMA PutKeeps ==
  ASSUME TokenIInv, NEW k \in TokenClients, PutAnswered(k) \/ PutUnanswered(k)
  PROVE  TokenIInv'
<1> USE DEF TokenIInv
<1> DEFINE r == request[k]
           u == r.user
           n == r.token
<1>1. /\ r # None /\ r \in TokenCalls
      /\ u \in TokenUsers /\ n \in Tokens /\ r.attributes \in Attributes
      /\ u # None /\ r.op \in {"create", "delete"}
      BY TokenAssumption DEF PutAnswered, PutUnanswered, Put, TokenTypeOK, TokenCalls
<1>2. /\ attributes' = [attributes EXCEPT ![u] = Changed(r)]
      /\ request' = [request EXCEPT ![k] = None]
      /\ creator' = creator
      /\ NoteOverlap(k, u)
      BY DEF PutAnswered, PutUnanswered, Put
<1>3. /\ status'[n] = status[n] \/ status'[n] = (IF r.op = "create" THEN "created" ELSE "deleted")
      /\ \A m \in Tokens \ {n} : status'[m] = status[m]
      /\ status' \in [Tokens -> {"unknown", "created", "deleted"}]
      BY <1>1 DEF PutAnswered, PutUnanswered, TokenTypeOK
<1>4. Changed(r) \in SUBSET Tokens /\ Changed(r) # None
      BY <1>1, EntriesAreTokens, TokenAssumption DEF Changed
<1>5. /\ overlapped' \subseteq TokenUsers /\ overlapped \subseteq overlapped'
      /\ overlapped' \subseteq overlapped \cup {u}
      /\ \A d \in TokenClients \ {k} : request[d] # None /\ request[d].user = u => u \in overlapped'
      BY <1>1, <1>2 DEF NoteOverlap, TokenTypeOK
<1>6. TokenTypeOK'
      BY <1>1, <1>2, <1>3, <1>4, <1>5 DEF TokenTypeOK, Attributes
<1>7. /\ attributes'[u] = Changed(r) /\ Entries(attributes'[u]) = Changed(r)
      /\ \A v \in TokenUsers \ {u} : attributes'[v] = attributes[v]
      /\ request'[k] = None
      /\ \A d \in TokenClients \ {k} : request'[d] = request[d]
      BY <1>1, <1>2, <1>4 DEF TokenTypeOK, Entries
<1>8. creator[n] = u /\ \A m \in Changed(r) : creator[m] = u
      BY <1>1 DEF OwnTokens, Changed
<1>9. OwnTokens'
      BY <1>2, <1>7, <1>8 DEF OwnTokens
<1>10. \A m \in Tokens : creator'[m] = None => status'[m] = "unknown"
       BY <1>1, <1>2, <1>3, <1>8
<1>11. ASSUME NEW d \in TokenClients
       PROVE  ReadIsCurrent(d)'
  <2>1. CASE d = k
        BY <1>7, <2>1 DEF ReadIsCurrent
  <2>2. CASE d # k
    <3> SUFFICES ASSUME request'[d] # None, request'[d].user \notin overlapped'
                 PROVE  /\ request'[d].attributes = attributes'[request'[d].user]
                        /\ status'[request'[d].token] = "unknown"
        BY DEF ReadIsCurrent
    <3>1. request'[d] = request[d] /\ request[d] # None /\ request[d].user \notin overlapped
          BY <1>5, <1>7, <2>2
    <3>2. request[d].user # u /\ request[d].user \in TokenUsers /\ request[d].token \in Tokens
          BY <1>5, <2>2, <3>1 DEF TokenTypeOK, TokenCalls
    <3>3. request[d].token # n
          BY <1>8, <3>1, <3>2 DEF OwnTokens
    <3>4. QED
          BY <1>3, <1>7, <3>1, <3>2, <3>3 DEF ReadIsCurrent
  <2>3. QED
        BY <2>1, <2>2
<1>12. ASSUME NEW m \in Tokens
       PROVE  Told(m)'
  <2>1. CASE creator[m] # u
    <3>1. m # n
          BY <1>8, <2>1
    <3>2. creator[m] # None => creator[m] \in TokenUsers \ {u}
          BY <2>1 DEF TokenTypeOK
    <3>3. QED
          BY <1>2, <1>3, <1>5, <1>7, <3>1, <3>2 DEF Told
  <2>2. CASE creator[m] = u
    <3> SUFFICES ASSUME u \notin overlapped'
                 PROVE  /\ status'[m] = "created" => m \in Changed(r)
                        /\ status'[m] = "deleted" => m \notin Changed(r)
        BY <1>2, <1>7, <2>2 DEF Told
    <3>1. r.attributes = attributes[u] /\ status[n] = "unknown"
          BY <1>1, <1>5 DEF ReadIsCurrent
    <3>2. u \notin overlapped
          BY <1>5
    <3>3. CASE m = n
          BY <1>1, <1>3, <3>1, <3>3 DEF Changed
    <3>4. CASE m # n
      <4>1. status'[m] = status[m]
            BY <1>3, <3>4
      <4>2. m \in Changed(r) <=> m \in Entries(attributes[u])
            BY <1>1, <3>1, <3>4 DEF Changed
      <4>3. QED
            BY <1>1, <2>2, <3>2, <4>1, <4>2 DEF Told
    <3>5. QED
          BY <3>3, <3>4
  <2>3. QED
        BY <2>1, <2>2
<1>13. QED
       BY <1>6, <1>9, <1>10, <1>11, <1>12

LEMMA PutFailedKeeps ==
  ASSUME TokenIInv, NEW k \in TokenClients, PutFailed(k)
  PROVE  TokenIInv'
<1> USE DEF TokenIInv
<1>1. TokenTypeOK'
      BY DEF PutFailed, TokenTypeOK
<1>2. \A d \in TokenClients : request'[d] = request[d] \/ request'[d] = None
      BY DEF PutFailed, TokenTypeOK
<1>3. UNCHANGED <<attributes, creator, status, overlapped>>
      BY DEF PutFailed
<1>4. QED
      BY <1>1, <1>2, <1>3 DEF OwnTokens, ReadIsCurrent, Told

LEMMA TokenInvNext == TokenIInv /\ [TokenNext]_tokenVars => TokenIInv'
<1> SUFFICES ASSUME TokenIInv, [TokenNext]_tokenVars PROVE TokenIInv'
    OBVIOUS
<1>1. CASE TokenNext
      BY <1>1, CreateGetKeeps, DeleteGetKeeps, PutKeeps, PutFailedKeeps DEF TokenNext
<1>2. CASE UNCHANGED tokenVars
      BY <1>2 DEF tokenVars, TokenIInv, TokenTypeOK, OwnTokens, ReadIsCurrent, Told
<1>3. QED
      BY <1>1, <1>2

-----------------------------------------------------------------------------
(* In the whole system, tokens are only touched by the token service.      *)
THEOREM AccessImplementsTokens == AccessSpec => TokenSpec
<1>1. AccessInit => TokenInit
      BY DEF AccessInit
<1>2. [AccessNext]_allVars => [TokenNext]_tokenVars
      BY DEF AccessNext, allVars
<1>3. QED
      BY <1>1, <1>2, PTL DEF AccessSpec, TokenSpec

(* The invariant holds whatever the callers of the token service do.       *)
THEOREM TokenInvariant == TokenSpec => []TokenIInv
BY TokenInvInit, TokenInvNext, PTL DEF TokenSpec

(* What the creator of a token was told of it is true, unless two calls    *)
(* for the user overlapped, for any number of users, callers and tokens,   *)
(* whatever answers of Keycloak are lost.                                  *)
THEOREM ToldRemainsTrue == AccessSpec => []ToldIsTrue
<1>1. TokenIInv => ToldIsTrue
  <2> SUFFICES ASSUME TokenIInv, NEW n \in Created, NEW u \in TokenUsers
               PROVE  /\ AuthenticateToken(u, n) => creator[n] = u
                      /\ creator[n] = u /\ u \notin overlapped =>
                           /\ status[n] = "created" => AuthenticateToken(u, n)
                           /\ status[n] = "deleted" => ~AuthenticateToken(u, n)
      BY DEF ToldIsTrue
  <2>1. AuthenticateToken(u, n) => creator[n] = u
        BY DEF TokenIInv, OwnTokens, AuthenticateToken
  <2>2. creator[n] # None /\ n \in Tokens
        BY DEF Created
  <2>3. QED
        BY <2>1, <2>2 DEF TokenIInv, Told, AuthenticateToken
<1>2. QED
      BY <1>1, AccessImplementsTokens, TokenInvariant, PTL

=============================================================================
