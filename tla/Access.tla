------------------------------- MODULE Access -------------------------------
(***************************************************************************)
(* Users and applications: a request reaches the admin and the management  *)
(* API with the identity of a login (openid_validator: the roles of the    *)
(* OpenID token tell whether it is a system administrator's) or of an      *)
(* access token; it works on the application's owner and members; and      *)
(* applications are listed to the users who may read them.                 *)
(***************************************************************************)
EXTENDS Ownership, AccessTokens, Selectors, FiniteSets

CONSTANTS Admins,    \* users whose login carries the role of a system administrator
          Name,      \* the name of the application that app is the row of
          OtherApps  \* further applications, a function from names to rows

allVars == <<vars, tokenVars>>

\* A user of the console, or a user of the API with an access token.
LoginIdentity(u) == [id |-> u, admin |-> u \in Admins]

WorkingIdentities ==
  {LoginIdentity(u) : u \in Users}
  \cup {TokenIdentity(u) : u \in {v \in TokenUsers : \E n \in Tokens : AuthenticateToken(v, n)}}

(* Listing ****************************************************************)

Rows == (IF app = None THEN <<>> ELSE Name :> app) @@ OtherApps

\* list of the accessor: the rows of a select, in the order of their names.
SelectApps(who, ops, limit, offset) ==
  LET found == {n \in DOMAIN Rows : Selects(Rows[n].labels, ops) /\ AuthRead(Rows[n], who)}
      all   == SetToSortSeq(found, <)
  IN SubSeq(all, offset + 1, Min({offset + limit, Len(all)}))

\* list_apps: filters the page once more.
ListApps(who, ops, limit, offset) ==
  SelectSeq(SelectApps(who, ops, limit, offset), LAMBDA n : Authorize(Rows[n], who, "read"))

\* The texts of selectors that are tried, and what each is parsed to.
Texts ==
  UNION {{<<>>, <<l>>, <<"!", l>>, <<l, "=", v>>, <<l, " ", "!=", " ", v>>,
          <<l, " ", "in", " ", "(", v, ")">>, <<l, " ", "notin", "(", v, ")">>,
          <<l, " ", "in", " ", "(", v, ",", " ", "in", ")">>,
          <<l, " ", "notin", " ", "(", v, ",", "in", " ", ")">>,
          <<l, "=", v, ",", " ", v>>} : l \in Words, v \in Words}

Parsed == [text \in Texts |-> ParseFrom(text)]

\* list of the API: a text that cannot be parsed is a bad request.
List(who, text, limit, offset) ==
  IF Parsed[text] = None THEN None ELSE ListApps(who, Parsed[text], limit, offset)

(* The system *************************************************************)

AccessInit == Init /\ TokenInit

AccessNext ==
  \/ \E c \in Clients : /\ (\E who \in WorkingIdentities : Request(c, who)) \/ Serve(c)
                        /\ UNCHANGED tokenVars
  \/ TokenNext /\ UNCHANGED vars

AccessSpec == AccessInit /\ [][AccessNext]_allVars

(* Properties *************************************************************)

AccessTypeOK == TypeOK /\ TokenTypeOK

\* Listing depends on the rows alone: it is looked at between calls, and while
\* no token exists.
Quiet == Created = {} /\ \A c \in Clients : call[c] = None

\* All that is listed, nothing for a bad request.
AllOf(who, text) ==
  LET list == List(who, text, Cardinality(DOMAIN Rows), 0)
  IN IF list = None THEN {} ELSE ToSet(list)

\* A user who goes through the pages of list_apps finds every application
\* once for which the user authorization service would let them read it, and
\* no other.  The condition auth_read gives the select, which the pages are cut
\* from, has to agree with authorize, which filters the pages and answers the
\* other services.
PagesHoldReadable ==
  Quiet =>
    \A u \in Users, limit \in 1..2 :
      LET who   == LoginIdentity(u)
          pages == [i \in 0..Cardinality(DOMAIN Rows) |-> List(who, <<>>, limit, i * limit)]
      IN \A n \in DOMAIN Rows :
           Cardinality({i \in DOMAIN pages : n \in ToSet(pages[i])})
             = IF AuthorizeRequest(Rows[n], who, "read") THEN 1 ELSE 0

\* For each label, the applications a user may read are either without the
\* label, or among the given values, or not among them: the selectors "!l",
\* "l in (...)" and "l notin (...)" split what is listed without a selector.
\* "l=v" and "l!=v" are the same as lists of one value, "l" is what "!l" leaves
\* out, and a second operation selects among what the first one selected.
SelectorsSplit ==
  Quiet =>
    \A u \in Users :
      LET L == [s \in Texts |-> AllOf(LoginIdentity(u), s)]
      IN \A l \in Words, v \in Words :
           LET In  == L[<<l, " ", "in", " ", "(", v, ",", " ", "in", ")">>]
               Out == L[<<l, " ", "notin", " ", "(", v, ",", "in", " ", ")">>]
               Has == L[<<l>>]
           IN /\ In \cap Out = {} /\ In \cup Out = Has
              /\ Has = L[<<>>] \ L[<<"!", l>>]
              /\ L[<<l, "=", v>>] = L[<<l, " ", "in", " ", "(", v, ")">>]
              /\ L[<<l, " ", "!=", " ", v>>] = L[<<l, " ", "notin", "(", v, ")">>]
              /\ L[<<l, "=", v, ",", " ", v>>] = L[<<l, "=", v>>] \cap L[<<v>>]

=============================================================================
