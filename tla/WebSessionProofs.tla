-------------------------- MODULE WebSessionProofs --------------------------
(***************************************************************************)
(* Theorems about WebSession, for any users, tokens, web sessions and any  *)
(* number of requests under way.  The argument: whoever has still to       *)
(* insert is among those who came, also when a logout starts the history   *)
(* anew; and whoever is under way beside a request that is going to log    *)
(* out has been marked, so a user that is missing after an insert is       *)
(* missing for a marked request.                                           *)
(***************************************************************************)
EXTENDS WebSession, TLAPS

Under == {"populate", "find", "get", "done", "erase", "remove", "insert"}

Reqs == [at : {"idle"} \cup Under, kind : {"act", "logout", "login"},
         tok : Tokens \cup {NoToken}, web : Webs \cup {NoWeb}, me : Maybe, user : Maybe]

(* Who has still to insert has come. *)
Announced == \A p \in Requests : Inserting(p) => req[p].me \in came[req[p].web]

(* Whoever is under way beside a logout to come is marked. *)
Marked ==
    \A p, q \in Requests :
        /\ LoggingOut(p) /\ req[q].at # "idle" /\ req[p].web = req[q].web
        => q \in disturbed

(* Only a logout erases. *)
Erasing == \A r \in Requests : req[r].at = "erase" => req[r].kind = "logout"

(* A request that has inserted finds a user unless it is marked. *)
Found ==
    \A r \in Requests :
        /\ req[r].at \in {"find", "get"} /\ web[req[r].web] = NoUser => r \in disturbed
        /\ req[r].at # "done" => req[r].user = NoUser

WebInv ==
    TypeOK /\ Announced /\ Marked /\ Found /\ Erasing /\ LogoutForgets /\ RefusedByLogout

-----------------------------------------------------------------------------
(* Types *)

LEMMA TypeInit == Init => TypeOK
  BY DEF Init, TypeOK, NoRequest, Maybe

LEMMA UnderWay ==
    ASSUME TypeOK, NEW r \in Requests, req[r].at # "idle"
    PROVE  /\ req[r] \in Reqs /\ req[r].web \in Webs /\ req[r].tok \in Tokens
           /\ req[r].me \in Users
  BY DEF TypeOK, Reqs, Under

LEMMA ComeTypes ==
    ASSUME TypeOK, NEW r \in Requests, NEW t \in Tokens, NEW w \in Webs, NEW user \in Users,
           NEW at \in {"populate", "insert"}, NEW kind \in {"act", "logout", "login"},
           Come(r, at, kind, t, w, user), entry' \in [Tokens -> Maybe], UNCHANGED web
    PROVE  TypeOK'
  <1> DEFINE new == [at |-> at, kind |-> kind, tok |-> t, web |-> w, me |-> user,
                     user |-> NoUser]
  <1>1. req' = [req EXCEPT ![r] = new]
    BY DEF Come
  <1>2. /\ new \in Reqs /\ new.web \in Webs /\ new.tok \in Tokens /\ new.me \in Users
    BY DEF Reqs, Under, Maybe
  <1>3. came' \in [Webs -> SUBSET Users]
    BY DEF Come, TypeOK
  <1>4. disturbed' \subseteq Requests
    BY DEF Come, TypeOK, With
  <1> HIDE DEF new
  <1>5. req' \in [Requests -> Reqs]
    BY <1>1, <1>2 DEF TypeOK, Reqs, Under
  <1>6. \A q \in Requests : req'[q].at # "idle" =>
           req'[q].web \in Webs /\ req'[q].tok \in Tokens /\ req'[q].me \in Users
    BY <1>1, <1>2 DEF TypeOK
  <1> QED  BY <1>3, <1>4, <1>5, <1>6 DEF TypeOK, Reqs, Under

LEMMA EndTypes ==
    ASSUME TypeOK, NEW r \in Requests, End(r), entry' \in [Tokens -> Maybe],
           web' \in [Webs -> Maybe]
    PROVE  TypeOK'
  BY DEF TypeOK, End, NoRequest, Maybe

LEMMA GotoTypes ==
    ASSUME TypeOK, NEW r \in Requests, NEW from \in Under, NEW at \in Under, Goto(r, from, at),
           UNCHANGED entry, web' \in [Webs -> Maybe], came' \in [Webs -> SUBSET Users]
    PROVE  TypeOK'
  <1>1. req' \in [Requests -> Reqs]
    BY DEF TypeOK, Goto, Reqs, Under
  <1>2. \A q \in Requests : req'[q].at # "idle" =>
           req'[q].web \in Webs /\ req'[q].tok \in Tokens /\ req'[q].me \in Users
    BY DEF TypeOK, Goto, Under
  <1> QED  BY <1>1, <1>2 DEF TypeOK, Goto, Reqs, Under

(* What an insert leaves *)
LEMMA InsertIs ==
    ASSUME TypeOK, NEW r \in Requests, req[r].at # "idle", Insert(r)
    PROVE  /\ web' \in [Webs -> Maybe]
           /\ web'[req[r].web] # NoUser
           /\ web'[req[r].web] \in {req[r].me, web[req[r].web]}
           /\ \A w \in Webs : web'[w] \in {req[r].me, web[w]}
           /\ \A w \in Webs : web'[w] = NoUser => web[w] = NoUser
           /\ \A w \in Webs : w # req[r].web => web'[w] = web[w]
  BY UnderWay, WebAssumption DEF Insert, TypeOK, Maybe

LEMMA EraseIs ==
    ASSUME TypeOK, NEW r \in Requests, Erase(r)
    PROVE  /\ req[r].at = "erase" /\ req[r].web \in Webs
           /\ web' \in [Webs -> Maybe] /\ came' \in [Webs -> SUBSET Users]
           /\ web'[req[r].web] = NoUser
           /\ \A p \in Requests : Inserting(p) /\ req[p].web = req[r].web =>
                 req[p].me \in came'[req[r].web]
           /\ \A w \in Webs : w # req[r].web => web'[w] = web[w] /\ came'[w] = came[w]
  <1> DEFINE w == req[r].web
             late == {req[p].me : p \in {p \in With(w) : Inserting(p)}}
  <1>1. req[r].at = "erase" /\ w \in Webs
    BY UnderWay DEF Erase, Goto
  <1>2. late \subseteq Users
    BY UnderWay DEF With
  <1>3. \A p \in Requests : Inserting(p) /\ req[p].web = w => req[p].me \in late
    BY DEF With, Inserting
  <1>4. came' = [came EXCEPT ![w] = late] /\ web' = [web EXCEPT ![w] = NoUser]
    BY DEF Erase, EraseUser, LoggedOut
  <1> HIDE DEF w, late
  <1>5. /\ web' \in [Webs -> Maybe] /\ came' \in [Webs -> SUBSET Users]
        /\ web'[w] = NoUser /\ came'[w] = late
        /\ \A v \in Webs : v # w => web'[v] = web[v] /\ came'[v] = came[v]
    BY <1>1, <1>2, <1>4 DEF TypeOK, Maybe
  <1> QED  BY <1>1, <1>3, <1>5 DEF w

LEMMA TypeNext == ASSUME TypeOK, [Next]_vars PROVE TypeOK'
  <1>1. ASSUME NEW r \in Requests, NEW t \in Tokens, NEW w \in Webs,
               NEW kind \in {"act", "logout"}, Admit(r, t, w, kind)
        PROVE  TypeOK'
    <2>1. entry[t] \in Users /\ entry' \in [Tokens -> Maybe] /\ UNCHANGED web
      BY <1>1 DEF TypeOK, Maybe, Admit
    <2>2. Come(r, "populate", kind, t, w, entry[t])  BY <1>1 DEF Admit
    <2> QED  BY <2>1, <2>2, ComeTypes
  <1>2. ASSUME NEW r \in Requests, NEW t \in Tokens, NEW w \in Webs, NEW user \in Users,
               Login(r, t, w, user)
        PROVE  TypeOK'
    <2>1. entry' \in [Tokens -> Maybe] /\ UNCHANGED web
      BY <1>2 DEF Login, TypeOK, Maybe
    <2>2. Come(r, "insert", "login", t, w, user)  BY <1>2 DEF Login
    <2> QED  BY <2>1, <2>2, ComeTypes
  <1>3. ASSUME NEW r \in Requests, TurnAway(r) \/ Answer(r)
        PROVE  TypeOK'
    BY <1>3, EndTypes DEF TurnAway, Answer, TypeOK
  <1>4. ASSUME NEW r \in Requests, Populate(r)
        PROVE  TypeOK'
    <2>1. PICK at \in {"erase", "find"} : Goto(r, "populate", at)
      BY <1>4 DEF Populate, Populated
    <2>2. web' \in [Webs -> Maybe] /\ UNCHANGED entry /\ came' \in [Webs -> SUBSET Users]
      BY <1>4, <2>1, InsertIs DEF Populate, Goto, TypeOK
    <2> QED  BY <2>1, <2>2, GotoTypes DEF Under
  <1>5. ASSUME NEW r \in Requests, FindUser(r)
        PROVE  TypeOK'
    <2>1. PICK at \in {"done", "get"} : Goto(r, "find", at)
      BY <1>5 DEF FindUser
    <2> QED  BY <1>5, <2>1, GotoTypes DEF FindUser, Under, TypeOK
  <1>6. ASSUME NEW r \in Requests, GetUser(r)
        PROVE  TypeOK'
    <2>1. web[req[r].web] \in Maybe  BY <1>6, UnderWay DEF GetUser, TypeOK
    <2>2. req' \in [Requests -> Reqs]
      <3> DEFINE u == web[req[r].web]
      <3>1. u \in Maybe  BY <2>1
      <3> DEFINE mid == [req EXCEPT ![r].at = "done"]
      <3>2. mid \in [Requests -> Reqs]  BY DEF TypeOK, Reqs, Under
      <3>3. req' = [mid EXCEPT ![r].user = u]  BY <1>6 DEF GetUser
      <3> HIDE DEF mid, u
      <3> QED  BY <3>1, <3>2, <3>3 DEF Reqs
    <2>3. \A q \in Requests : req'[q].at # "idle" =>
             req'[q].web \in Webs /\ req'[q].tok \in Tokens /\ req'[q].me \in Users
      BY <1>6 DEF TypeOK, GetUser
    <2> QED  BY <1>6, <2>2, <2>3 DEF GetUser, TypeOK, Reqs, Under
  <1>7. ASSUME NEW r \in Requests, Erase(r)
        PROVE  TypeOK'
    BY <1>7, EraseIs, GotoTypes DEF Erase, Under
  <1>8. ASSUME NEW r \in Requests, Remove(r)
        PROVE  TypeOK'
    <2>1. entry' \in [Tokens -> Maybe] /\ web' \in [Webs -> Maybe] /\ End(r)
      BY <1>8 DEF Remove, TypeOK, Maybe
    <2> QED  BY <2>1, EndTypes
  <1>9. ASSUME NEW r \in Requests, InsertUser(r)
        PROVE  TypeOK'
    <2>1. web' \in [Webs -> Maybe] /\ entry' \in [Tokens -> Maybe] /\ End(r)
      BY <1>9, InsertIs DEF InsertUser, TypeOK
    <2> QED  BY <2>1, EndTypes
  <1>10. ASSUME NEW t \in Tokens, Evict(t)
         PROVE  TypeOK'
    BY <1>10 DEF Evict, TypeOK, Maybe
  <1>11. CASE UNCHANGED vars
    BY <1>11 DEF vars, TypeOK
  <1> QED
    BY <1>1, <1>2, <1>3, <1>4, <1>5, <1>6, <1>7, <1>8, <1>9, <1>10, <1>11 DEF Next

(* Every variable keeps its type; a request under way has a token, a web    *)
(* session and a user.                                                      *)
THEOREM TypeCorrect == Spec => []TypeOK
  BY TypeInit, TypeNext, PTL DEF Spec
-----------------------------------------------------------------------------
(* Logouts and inserts *)

(* Other requests stay as they are, r goes on with no more to do than       *)
(* before, and who is still under way stays marked.                         *)
Keeps(r) ==
    /\ \A q \in Requests \ {r} : req'[q] = req[q]
    /\ req'[r].at # "idle" =>
          /\ req[r].at # "idle"
          /\ req'[r].web = req[r].web /\ req'[r].me = req[r].me
          /\ Inserting(r)' => Inserting(r)
          /\ LoggingOut(r)' => LoggingOut(r)
    /\ \A q \in disturbed : req'[q].at # "idle" => q \in disturbed'

LEMMA Keep ==
    ASSUME NEW r \in Requests, Keeps(r), NEW q \in Requests, req'[q].at # "idle"
    PROVE  /\ req[q].at # "idle"
           /\ req'[q].web = req[q].web /\ req'[q].me = req[q].me
           /\ Inserting(q)' => Inserting(q)
           /\ LoggingOut(q)' => LoggingOut(q)
           /\ q \in disturbed => q \in disturbed'
  BY DEF Keeps, Inserting, LoggingOut

LEMMA KeepsMarked ==
    ASSUME Marked, NEW r \in Requests, Keeps(r)
    PROVE  Marked'
  <1> SUFFICES ASSUME NEW p \in Requests, NEW q \in Requests, LoggingOut(p)',
                      req'[q].at # "idle", req'[p].web = req'[q].web
               PROVE  q \in disturbed'
    BY DEF Marked
  <1>1. req'[p].at # "idle"
    BY DEF LoggingOut
  <1>2. LoggingOut(p) /\ req[q].at # "idle" /\ req[p].web = req[q].web
    BY <1>1, Keep
  <1> QED  BY <1>2, Keep DEF Marked

LEMMA KeepsAnnounced ==
    ASSUME Announced, NEW r \in Requests, Keeps(r), UNCHANGED came
    PROVE  Announced'
  <1> SUFFICES ASSUME NEW p \in Requests, Inserting(p)'
               PROVE  req'[p].me \in came'[req'[p].web]
    BY DEF Announced
  <1>1. req'[p].at # "idle"
    BY DEF Inserting
  <1>2. Inserting(p) /\ req'[p].web = req[p].web /\ req'[p].me = req[p].me
    BY <1>1, Keep
  <1> QED  BY <1>2 DEF Announced

LEMMA GotoKeeps ==
    ASSUME TypeOK, NEW r \in Requests, NEW from \in Under, NEW at \in Under, Goto(r, from, at),
           at \notin {"populate", "insert"},
           at = "erase" => from = "populate" /\ req[r].kind = "logout"
    PROVE  /\ Keeps(r) /\ disturbed' = disturbed /\ req[r].at = from
           /\ req'[r].at = at /\ req'[r].user = req[r].user /\ req'[r].web = req[r].web
  <1>1. /\ req'[r].at = at /\ req'[r].web = req[r].web /\ req'[r].kind = req[r].kind
        /\ req'[r].me = req[r].me /\ req'[r].user = req[r].user
        /\ \A q \in Requests \ {r} : req'[q] = req[q]
        /\ disturbed' = disturbed /\ req[r].at = from
    BY DEF Goto, TypeOK
  <1> QED  BY <1>1 DEF Keeps, Under, Inserting, LoggingOut

LEMMA EndKeeps ==
    ASSUME TypeOK, NEW r \in Requests, End(r)
    PROVE  Keeps(r) /\ req'[r] = NoRequest /\ UNCHANGED came
  BY DEF End, Keeps, TypeOK, NoRequest

(* Who is past its insert and not marked still finds a user when nobody's   *)
(* was taken away.                                                          *)
LEMMA KeepsFound ==
    ASSUME TypeOK, Found, RefusedByLogout, NEW r \in Requests, Keeps(r),
           \A w \in Webs : web'[w] = NoUser => web[w] = NoUser,
           req'[r].at \in {"find", "get"} =>
                web'[req[r].web] # NoUser \/ req[r].at = "find",
           req'[r].at # "done" => req'[r].user = NoUser,
           req'[r].at = "done" /\ req'[r].user = NoUser => r \in disturbed'
    PROVE  Found' /\ RefusedByLogout'
  <1>1. ASSUME NEW q \in Requests, req'[q].at \in {"find", "get"}, web'[req'[q].web] = NoUser
        PROVE  q \in disturbed'
    <2>1. /\ req[q].at # "idle" /\ req'[q].web = req[q].web
          /\ q \in disturbed => q \in disturbed'
      BY <1>1, Keep
    <2>2. web[req[q].web] = NoUser
      BY <1>1, <2>1, UnderWay
    <2>3. req[q].at \in {"find", "get"}
      BY <1>1, <2>1 DEF Keeps
    <2> QED  BY <2>1, <2>2, <2>3 DEF Found
  <1>2. ASSUME NEW q \in Requests
        PROVE  req'[q].at # "done" => req'[q].user = NoUser
    BY <1>2 DEF Keeps, Found
  <1>3. ASSUME NEW q \in Requests, req'[q].at = "done", req'[q].user = NoUser
        PROVE  q \in disturbed'
    <2>1. q # r => req'[q] = req[q] /\ (q \in disturbed => q \in disturbed')
      BY <1>3, Keep DEF Keeps
    <2> QED  BY <1>3, <2>1 DEF RefusedByLogout
  <1> QED  BY <1>1, <1>2, <1>3 DEF Found, RefusedByLogout

LEMMA ComeInv ==
    ASSUME WebInv, NEW r \in Requests, NEW t \in Tokens, NEW w \in Webs, NEW user \in Users,
           NEW at \in {"populate", "insert"}, NEW kind \in {"act", "logout", "login"},
           kind = "logout" => at = "populate",
           Come(r, at, kind, t, w, user), UNCHANGED web
    PROVE  Announced' /\ Marked' /\ Found' /\ LogoutForgets' /\ RefusedByLogout'
  <1>1. /\ req'[r].at = at /\ req'[r].kind = kind /\ req'[r].web = w /\ req'[r].me = user
        /\ req'[r].user = NoUser /\ req[r].at = "idle"
        /\ \A q \in Requests \ {r} : req'[q] = req[q]
    BY DEF Come, WebInv, TypeOK
  <1>2. /\ came'[w] = came[w] \cup {user}
        /\ \A v \in Webs : came[v] \subseteq came'[v]
    BY DEF Come, WebInv, TypeOK
  <1>3. /\ disturbed \subseteq disturbed'
        /\ kind = "logout" => {r} \cup With(w) \subseteq disturbed'
        /\ (\E p \in With(w) : LoggingOut(p)) => r \in disturbed'
    BY DEF Come
  <1>4. Announced'
    <2> SUFFICES ASSUME NEW p \in Requests, Inserting(p)'
                 PROVE  req'[p].me \in came'[req'[p].web]
      BY DEF Announced
    <2>1. CASE p = r
      BY <1>1, <1>2, <2>1
    <2>2. CASE p # r
      <3>1. Inserting(p) /\ req'[p] = req[p]
        BY <1>1, <2>2 DEF Inserting
      <3>2. req[p].web \in Webs
        BY <3>1, UnderWay DEF Inserting, WebInv
      <3> QED  BY <1>2, <3>1, <3>2 DEF WebInv, Announced
    <2> QED  BY <2>1, <2>2
  <1>5. Marked'
    <2> SUFFICES ASSUME NEW p \in Requests, NEW q \in Requests, LoggingOut(p)',
                        req'[q].at # "idle", req'[p].web = req'[q].web
                 PROVE  q \in disturbed'
      BY DEF Marked
    <2>1. CASE p = r
      <3>1. kind = "logout" /\ req'[q].web = w
        BY <1>1, <2>1 DEF LoggingOut
      <3>2. q = r \/ q \in With(w)
        BY <1>1, <3>1 DEF With
      <3> QED  BY <1>3, <3>1, <3>2
    <2>2. CASE p # r
      <3>1. LoggingOut(p) /\ req'[p] = req[p] /\ req[p].at # "idle"
        BY <1>1, <2>2 DEF LoggingOut
      <3>2. CASE q = r
        BY <1>1, <1>3, <3>1, <3>2 DEF With
      <3>3. CASE q # r
        BY <1>1, <1>3, <3>1, <3>3 DEF WebInv, Marked
      <3> QED  BY <3>2, <3>3
    <2> QED  BY <2>1, <2>2
  <1>6. Found' /\ RefusedByLogout'
    BY <1>1, <1>3 DEF WebInv, Found, RefusedByLogout
  <1>7. LogoutForgets'
    BY <1>2 DEF WebInv, LogoutForgets
  <1> QED  BY <1>4, <1>5, <1>6, <1>7

LEMMA ErasingNext == ASSUME TypeOK, Erasing, [Next]_vars PROVE Erasing'
  <1>1. ASSUME NEW r \in Requests, NEW t, NEW w, NEW kind \in {"act", "logout"},
               Admit(r, t, w, kind)
        PROVE  Erasing'
    BY <1>1 DEF Admit, Come, TypeOK, Erasing
  <1>2. ASSUME NEW r \in Requests, NEW t, NEW w, NEW user \in Users, Login(r, t, w, user)
        PROVE  Erasing'
    BY <1>2 DEF Login, Come, TypeOK, Erasing
  <1>3. ASSUME NEW r \in Requests, End(r)
        PROVE  Erasing'
    BY <1>3 DEF End, NoRequest, TypeOK, Erasing
  <1>4. ASSUME NEW r \in Requests, NEW from, NEW at, Goto(r, from, at),
               at = "erase" => req[r].kind = "logout"
        PROVE  Erasing'
    BY <1>4 DEF Goto, TypeOK, Erasing
  <1>5. ASSUME NEW r \in Requests, GetUser(r)
        PROVE  Erasing'
    BY <1>5 DEF GetUser, TypeOK, Erasing
  <1>6. ASSUME NEW r \in Requests, Populate(r) \/ FindUser(r) \/ Erase(r)
        PROVE  Erasing'
    BY <1>4, <1>6 DEF Populate, Populated, FindUser, Erase
  <1>7. UNCHANGED req => Erasing'
    BY DEF Erasing
  <1> QED
    BY <1>1, <1>2, <1>3, <1>5, <1>6, <1>7
       DEF Next, TurnAway, Answer, Remove, InsertUser, Evict, vars

LEMMA WebNext ==
    ASSUME WebInv, [Next]_vars
    PROVE  Announced' /\ Marked' /\ Found' /\ LogoutForgets' /\ RefusedByLogout'
  <1> USE DEF WebInv
  <1>1. ASSUME NEW r \in Requests, NEW t \in Tokens, NEW w \in Webs,
               NEW kind \in {"act", "logout"}, Admit(r, t, w, kind)
        PROVE  Announced' /\ Marked' /\ Found' /\ LogoutForgets' /\ RefusedByLogout'
    <2>1. entry[t] \in Users  BY <1>1 DEF TypeOK, Maybe, Admit
    <2>2. Come(r, "populate", kind, t, w, entry[t]) /\ UNCHANGED web
      BY <1>1 DEF Admit
    <2> QED  BY <2>1, <2>2, ComeInv
  <1>2. ASSUME NEW r \in Requests, NEW t \in Tokens, NEW w \in Webs, NEW user \in Users,
               Login(r, t, w, user)
        PROVE  Announced' /\ Marked' /\ Found' /\ LogoutForgets' /\ RefusedByLogout'
    BY <1>2, ComeInv DEF Login
  <1>3. ASSUME NEW r \in Requests, End(r), UNCHANGED web
        PROVE  Announced' /\ Marked' /\ Found' /\ LogoutForgets' /\ RefusedByLogout'
    <2>1. Keeps(r) /\ req'[r] = NoRequest /\ UNCHANGED came  BY <1>3, EndKeeps
    <2>2. Found' /\ RefusedByLogout'
      BY <1>3, <2>1, KeepsFound DEF NoRequest
    <2> QED  BY <1>3, <2>1, <2>2, KeepsMarked, KeepsAnnounced DEF LogoutForgets
  <1>4. ASSUME NEW r \in Requests, Populate(r)
        PROVE  Announced' /\ Marked' /\ Found' /\ LogoutForgets' /\ RefusedByLogout'
    <2>1. PICK at \in {"erase", "find"} :
             Goto(r, "populate", at) /\ (at = "erase" => req[r].kind = "logout")
      BY <1>4 DEF Populate, Populated
    <2>2. /\ Keeps(r) /\ req'[r].at = at /\ req'[r].user = req[r].user
          /\ req[r].at = "populate" /\ UNCHANGED came
      BY <1>4, <2>1, GotoKeeps DEF Under, Populate
    <2>3. /\ web'[req[r].web] # NoUser
          /\ \A w \in Webs : web'[w] = NoUser => web[w] = NoUser
          /\ web'[req[r].web] \in {req[r].me, web[req[r].web]}
          /\ \A w \in Webs : w # req[r].web => web'[w] = web[w]
      BY <1>4, <2>2, InsertIs DEF Populate
    <2>4. Found' /\ RefusedByLogout'
      BY <2>2, <2>3, KeepsFound DEF Found
    <2>5. LogoutForgets'
      BY <2>2, <2>3 DEF LogoutForgets, Announced, Inserting
    <2> QED  BY <2>2, <2>4, <2>5, KeepsMarked, KeepsAnnounced
  <1>5. ASSUME NEW r \in Requests, FindUser(r)
        PROVE  Announced' /\ Marked' /\ Found' /\ LogoutForgets' /\ RefusedByLogout'
    <2> DEFINE at == IF web[req[r].web] = NoUser THEN "done" ELSE "get"
    <2>1. Goto(r, "find", at) /\ UNCHANGED <<web, came>>
      BY <1>5 DEF FindUser
    <2>2. /\ Keeps(r) /\ req'[r].at = at /\ req'[r].user = req[r].user
          /\ req'[r].web = req[r].web /\ req[r].at = "find" /\ disturbed' = disturbed
      BY <2>1, GotoKeeps DEF Under
    <2>3. req[r].user = NoUser /\ (web[req[r].web] = NoUser => r \in disturbed)
      BY <2>2 DEF Found
    <2>4. Found' /\ RefusedByLogout'
      BY <2>1, <2>2, <2>3, KeepsFound
    <2> QED  BY <2>1, <2>2, <2>4, KeepsMarked, KeepsAnnounced DEF LogoutForgets
  <1>6. ASSUME NEW r \in Requests, GetUser(r)
        PROVE  Announced' /\ Marked' /\ Found' /\ LogoutForgets' /\ RefusedByLogout'
    <2>1. /\ req[r].at = "get" /\ UNCHANGED <<web, came, disturbed>>
          /\ req'[r].at = "done" /\ req'[r].user = web[req[r].web]
          /\ req'[r].web = req[r].web /\ req'[r].me = req[r].me
          /\ \A q \in Requests \ {r} : req'[q] = req[q]
      BY <1>6 DEF GetUser, TypeOK
    <2>2. Keeps(r)  BY <2>1 DEF Keeps, Inserting, LoggingOut
    <2>3. Found' /\ RefusedByLogout'
      BY <2>1, <2>2, KeepsFound DEF Found
    <2> QED  BY <2>1, <2>2, <2>3, KeepsMarked, KeepsAnnounced DEF LogoutForgets
  <1>7. ASSUME NEW r \in Requests, Erase(r)
        PROVE  Announced' /\ Marked' /\ Found' /\ LogoutForgets' /\ RefusedByLogout'
    <2> DEFINE v == req[r].web
    <2>1. /\ Keeps(r) /\ req'[r].at = "remove" /\ req'[r].user = req[r].user
          /\ req[r].at = "erase" /\ disturbed' = disturbed
      BY <1>7, GotoKeeps DEF Under, Erase
    <2>2. LoggingOut(r)
      <3>1. req[r].kind = "logout"
        BY <2>1 DEF Erasing
      <3> QED  BY <2>1, <3>1 DEF LoggingOut
    <2>3. Announced'
      <3> SUFFICES ASSUME NEW p \in Requests, Inserting(p)'
                   PROVE  req'[p].me \in came'[req'[p].web]
        BY DEF Announced
      <3>1. /\ Inserting(p) /\ req'[p].web = req[p].web /\ req'[p].me = req[p].me
            /\ req[p].web \in Webs
        BY <2>1, Keep, UnderWay DEF Inserting
      <3> QED  BY <1>7, <3>1, EraseIs DEF Announced
    <2>4. LogoutForgets'
      BY <1>7, EraseIs DEF LogoutForgets
    <2>5. Found' /\ RefusedByLogout'
      <3>1. ASSUME NEW q \in Requests, req'[q].at \in {"find", "get"},
                   web'[req'[q].web] = NoUser
            PROVE  q \in disturbed'
        <4>1. q # r /\ req'[q] = req[q] /\ req[q].web \in Webs
          BY <2>1, <3>1, UnderWay DEF Keeps
        <4>2. CASE req[q].web = v
          BY <2>1, <2>2, <3>1, <4>1, <4>2 DEF Marked
        <4>3. CASE req[q].web # v
          BY <1>7, <2>1, <3>1, <4>1, <4>3, EraseIs DEF Found
        <4> QED  BY <4>2, <4>3
      <3> QED  BY <2>1, <3>1 DEF Keeps, Found, RefusedByLogout
    <2> QED  BY <2>1, <2>3, <2>4, <2>5, KeepsMarked
  <1>8. ASSUME NEW r \in Requests, InsertUser(r)
        PROVE  Announced' /\ Marked' /\ Found' /\ LogoutForgets' /\ RefusedByLogout'
    <2>1. Keeps(r) /\ req'[r] = NoRequest /\ req[r].at = "insert" /\ UNCHANGED came
      BY <1>8, EndKeeps DEF InsertUser
    <2>2. /\ \A w \in Webs : web'[w] = NoUser => web[w] = NoUser
          /\ web'[req[r].web] \in {req[r].me, web[req[r].web]}
          /\ \A w \in Webs : w # req[r].web => web'[w] = web[w]
      BY <1>8, <2>1, InsertIs DEF InsertUser
    <2>3. Found' /\ RefusedByLogout'
      BY <2>1, <2>2, KeepsFound DEF NoRequest
    <2>4. LogoutForgets'
      BY <2>1, <2>2 DEF LogoutForgets, Announced, Inserting
    <2> QED  BY <2>1, <2>3, <2>4, KeepsMarked, KeepsAnnounced
  <1>9. ASSUME UNCHANGED <<req, web, came, disturbed>>
        PROVE  Announced' /\ Marked' /\ Found' /\ LogoutForgets' /\ RefusedByLogout'
    BY <1>9 DEF Announced, Marked, Found, LogoutForgets, RefusedByLogout, Inserting, LoggingOut
  <1> QED
    BY <1>1, <1>2, <1>3, <1>4, <1>5, <1>6, <1>7, <1>8, <1>9
       DEF Next, TurnAway, Answer, Remove, Evict, vars

LEMMA WebStart == Init => WebInv
  <1> SUFFICES ASSUME Init PROVE WebInv
    OBVIOUS
  <1>1. \A r \in Requests : req[r].at = "idle" /\ req[r].user = NoUser
    BY DEF Init, NoRequest
  <1> QED
    BY <1>1, TypeInit
       DEF Init, WebInv, Announced, Marked, Found, Erasing, LogoutForgets, RefusedByLogout, Inserting,
           LoggingOut

LEMMA WebInvariant == Spec => []WebInv
  <1>1. WebInv /\ [Next]_vars => WebInv'
    BY WebNext, ErasingNext, TypeNext DEF WebInv
  <1> QED  BY WebStart, <1>1, PTL DEF Spec

(* A logout ends what the web session held: afterwards it holds no user but *)
(* of a request that came since, or that had then still to insert, however  *)
(* many requests overlap with it.                                           *)
THEOREM LogoutEndsIt == Spec => []LogoutForgets
  BY WebInvariant, PTL DEF WebInv

(* No handler is refused its user without a logout beside it, however many  *)
(* others insert between the middleware and its two look-ups.               *)
THEOREM RefusalsExplained == Spec => []RefusedByLogout
  BY WebInvariant, PTL DEF WebInv
=============================================================================
