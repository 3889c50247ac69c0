---------------------------- MODULE AccessTokens ----------------------------
(***************************************************************************)
(* Access tokens (access-token-service).  The tokens of a user are         *)
(* attributes of the user in Keycloak, one per token, holding the token's  *)
(* hash under its prefix.  To create or to delete one, the service gets    *)
(* the user with all attributes, changes the attributes, and puts the user *)
(* back.                                                                   *)
(*                                                                         *)
(* A token is its number, since its prefix and key are drawn at random:    *)
(* two tokens never have the same prefix, and nothing but the token itself *)
(* has its hash.  status is what the callers were told of a token:         *)
(*   "unknown"  not created yet, or the outcome of a call was not learned; *)
(*   "created", "deleted"  as the last call for it was answered.           *)
(***************************************************************************)
EXTENDS Option, Naturals

CONSTANTS TokenUsers,    \* users who create tokens
          TokenClients,  \* concurrent callers of the token API
          MaxTokens      \* bound: number of tokens created

VARIABLES attributes,  \* the attributes of each user in Keycloak: tokens, or None
          request,     \* the token call each client has in progress, or None
          creator,     \* who each token was drawn for, or None
          status,      \* see above
          overlapped   \* users for whom a put was based on an outdated get

tokenVars == <<attributes, request, creator, status, overlapped>>

Tokens == 1..MaxTokens

Attributes == {None} \cup SUBSET Tokens

TokenCalls == [op : {"create", "delete"}, user : TokenUsers, token : Tokens, attributes : Attributes]

ASSUME TokenAssumption ==
  /\ MaxTokens \in Nat
  /\ None \notin TokenUsers \cup TokenCalls
  /\ \A T \in SUBSET Tokens : T # None

Created == {n \in Tokens : creator[n] # None}

Entries(a) == IF a = None THEN {} ELSE a

ListTokens(u) == Entries(attributes[u])

\* Others who have read the user's attributes will put back what they read.
NoteOverlap(k, u) ==
  overlapped' = IF \E d \in TokenClients \ {k} : request[d] # None /\ request[d].user = u
                THEN overlapped \cup {u} ELSE overlapped

\* The get of the user that a call starts with.
CreateGet(k, u, n) ==
  /\ request[k] = None
  /\ n \notin Created /\ \A m \in 1..(n - 1) : m \in Created
  /\ creator' = [creator EXCEPT ![n] = u]
  /\ request' = [request EXCEPT ![k] = [op |-> "create", user |-> u, token |-> n,
                                        attributes |-> attributes[u]]]
  /\ UNCHANGED <<attributes, status, overlapped>>

\* The caller knows the token from its creation or from the list.  Nothing is
\* put when the user has no such attribute.
DeleteGet(k, u, n) ==
  /\ request[k] = None
  /\ n \in Created
  /\ status[n] # "unknown" \/ n \in ListTokens(u)
  /\ IF n \in Entries(attributes[u])
     THEN /\ request' = [request EXCEPT ![k] = [op |-> "delete", user |-> u, token |-> n,
                                                attributes |-> attributes[u]]]
          /\ status' = [status EXCEPT ![n] = "unknown"]
     ELSE status' = [status EXCEPT ![n] = IF creator[n] = u THEN "deleted" ELSE @]
          /\ UNCHANGED request
  /\ UNCHANGED <<attributes, creator, overlapped>>

\* A faulty variant: the attributes of a new token replace the ones there were.
ChangedToNew(r) == IF r.op = "create" THEN {r.token} ELSE Entries(r.attributes) \ {r.token}

\* The attributes a call puts back: insert_entry, or remove of the key.
Changed(r) ==
  IF r.op = "create" THEN Entries(r.attributes) \cup {r.token}
  ELSE Entries(r.attributes) \ {r.token}

Put(k) ==
  /\ request[k] # None
  /\ attributes' = [attributes EXCEPT ![request[k].user] = Changed(request[k])]
  /\ NoteOverlap(k, request[k].user)
  /\ request' = [request EXCEPT ![k] = None]
  /\ UNCHANGED creator

PutAnswered(k) ==
  /\ Put(k)
  /\ status' = [status EXCEPT ![request[k].token] = IF request[k].op = "create" THEN "created" ELSE "deleted"]

\* The put took effect, but its answer was lost.
PutUnanswered(k) == Put(k) /\ UNCHANGED status

\* The put, or the caller, failed.
PutFailed(k) ==
  /\ request[k] # None
  /\ request' = [request EXCEPT ![k] = None]
  /\ UNCHANGED <<attributes, creator, status, overlapped>>

\* authenticate: the token is one of the user's; the details of the user have
\* no roles, whatever roles the user has.
AuthenticateToken(u, n) == n \in Entries(attributes[u])

TokenIdentity(u) == [id |-> u, admin |-> FALSE]

TokenInit ==
  /\ attributes = [u \in TokenUsers |-> None]
  /\ request = [k \in TokenClients |-> None]
  /\ creator = [n \in Tokens |-> None]
  /\ status = [n \in Tokens |-> "unknown"]
  /\ overlapped = {}

TokenNext ==
  \E k \in TokenClients :
    \/ \E u \in TokenUsers, n \in Tokens : CreateGet(k, u, n) \/ DeleteGet(k, u, n)
    \/ PutAnswered(k) \/ PutUnanswered(k) \/ PutFailed(k)

TokenSpec == TokenInit /\ [][TokenNext]_tokenVars

(* Properties *************************************************************)

TokenTypeOK ==
  /\ attributes \in [TokenUsers -> Attributes]
  /\ request \in [TokenClients -> TokenCalls \cup {None}]
  /\ creator \in [Tokens -> TokenUsers \cup {None}]
  /\ status \in [Tokens -> {"unknown", "created", "deleted"}]
  /\ overlapped \subseteq TokenUsers

\* What the creator of a token was told of it is true, unless two calls for
\* the user overlapped: a created token authenticates its creator until its
\* deletion is answered, and never afterwards; and it authenticates nobody
\* else.  create and delete put back all attributes of the user, so they must
\* keep every other token.
ToldIsTrue ==
  \A n \in Created, u \in TokenUsers :
    /\ AuthenticateToken(u, n) => creator[n] = u
    /\ creator[n] = u /\ u \notin overlapped =>
         /\ status[n] = "created" => AuthenticateToken(u, n)
         /\ status[n] = "deleted" => ~AuthenticateToken(u, n)

=============================================================================
