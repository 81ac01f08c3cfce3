---------------------------- MODULE BoardsProofs ----------------------------
(***************************************************************************)
(* Proofs about the maintainer's logins (module Login), the rooms (module  *)
(* Rooms), the decision board with its archive and export (module          *)
(* Decisions) and the memory of a repository (module Memory).              *)
(***************************************************************************)
EXTENDS Login, Rooms, Decisions, Memory, FiniteSetTheorems, WellFoundedInduction, TLAPS
LOCAL INSTANCE FiniteSetsExt

-----------------------------------------------------------------------------
(* Logins *)

Tokens == [kind : {"secret", "link"}, n : Nat]

\* A sequence that holds each link at most once.
LinksOnce(s) == \A i, j \in DOMAIN s : s[i].kind = "link" /\ s[i] = s[j] => i = j

\* What is left of a sequence when some of its items go.
Thinned(t, s) ==
    /\ t \in Seq(Tokens)
    /\ \A i \in DOMAIN t : Has(s, t[i])
    /\ LinksOnce(s) => LinksOnce(t)

LEMMA TailThins ==
    ASSUME NEW s \in Seq(Tokens), s # <<>>
    PROVE  Thinned(Tail(s), s)
<1>1. /\ Tail(s) \in Seq(Tokens) /\ Len(Tail(s)) = Len(s) - 1
      /\ \A i \in DOMAIN Tail(s) : i + 1 \in DOMAIN s /\ Tail(s)[i] = s[i + 1]
  OBVIOUS
<1>. QED
  BY <1>1 DEF Thinned, Has, LinksOnce

LEMMA RoomThins ==
    ASSUME NEW s \in Seq(Tokens), NEW limit \in Nat \ {0}
    PROVE  Thinned(Room(s, limit), s)
<1>1. Len(s) >= limit => s # <<>>
  OBVIOUS
<1>2. Thinned(s, s)
  BY DEF Thinned, Has
<1>. QED
  BY <1>1, <1>2, TailThins DEF Room

LEMMA WithoutThins ==
    ASSUME NEW s \in Seq(Tokens), NEW k \in DOMAIN s
    PROVE  /\ Thinned(WithoutAt(s, k), s)
           /\ LinksOnce(s) /\ s[k].kind = "link" => ~Has(WithoutAt(s, k), s[k])
<1>1. k \in 1 .. Len(s)
  OBVIOUS
<1>2. /\ SubSeq(s, 1, k - 1) \in Seq(Tokens) /\ Len(SubSeq(s, 1, k - 1)) = k - 1
      /\ \A i \in 1 .. (k - 1) : SubSeq(s, 1, k - 1)[i] = s[i]
  BY <1>1
<1>3. /\ SubSeq(s, k + 1, Len(s)) \in Seq(Tokens) /\ Len(SubSeq(s, k + 1, Len(s))) = Len(s) - k
      /\ \A i \in 1 .. (Len(s) - k) : SubSeq(s, k + 1, Len(s))[i] = s[i + k]
  BY <1>1
<1>4. /\ WithoutAt(s, k) \in Seq(Tokens) /\ Len(WithoutAt(s, k)) = Len(s) - 1
      /\ \A i \in 1 .. (Len(s) - 1) : WithoutAt(s, k)[i] = IF i < k THEN s[i] ELSE s[i + 1]
  <2>. DEFINE a == SubSeq(s, 1, k - 1)
              b == SubSeq(s, k + 1, Len(s))
  <2>. HIDE DEF a, b
  <2>0. Len(s) \in Nat /\ k \in Nat
    BY <1>1
  <2>1. /\ a \in Seq(Tokens) /\ Len(a) = k - 1 /\ \A i \in 1 .. (k - 1) : a[i] = s[i]
        /\ b \in Seq(Tokens) /\ Len(b) = Len(s) - k /\ \A i \in 1 .. (Len(s) - k) : b[i] = s[i + k]
    BY <1>2, <1>3 DEF a, b
  <2>2. /\ a \o b \in Seq(Tokens) /\ Len(a \o b) = Len(a) + Len(b)
        /\ \A i \in 1 .. (Len(a) + Len(b)) : (a \o b)[i] = IF i <= Len(a) THEN a[i] ELSE b[i - Len(a)]
    BY <2>1
  <2>3. WithoutAt(s, k) = a \o b
    BY DEF WithoutAt, a, b
  <2>4. Len(a \o b) = Len(s) - 1
    BY <1>1, <2>0, <2>1, <2>2
  <2>5. ASSUME NEW i \in 1 .. (Len(s) - 1) PROVE (a \o b)[i] = IF i < k THEN s[i] ELSE s[i + 1]
    <3>1. (a \o b)[i] = IF i <= Len(a) THEN a[i] ELSE b[i - Len(a)]
      <4>1. i \in 1 .. (Len(a) + Len(b))
        BY <1>1, <2>0, <2>1
      <4>. QED
        BY <2>2, <4>1, Zenon
    <3>2. CASE i < k
      BY <1>1, <2>0, <2>1, <3>1, <3>2
    <3>3. CASE ~(i < k)
      <4>1. i - Len(a) \in 1 .. (Len(s) - k) /\ i - Len(a) + k = i + 1 /\ ~(i <= Len(a))
        BY <1>1, <2>0, <2>1, <3>3
      <4>2. b[i - Len(a)] = s[i + 1]
        BY <2>1, <4>1
      <4>. QED
        BY <3>1, <3>3, <4>1, <4>2
    <3>. QED
      BY <3>2, <3>3
  <2>. QED
    BY <2>2, <2>3, <2>4, <2>5
<1>5. DOMAIN WithoutAt(s, k) = 1 .. (Len(s) - 1) /\ DOMAIN s = 1 .. Len(s) /\ Len(s) \in Nat
  BY <1>4
<1>6. \A i \in DOMAIN WithoutAt(s, k) : \E j \in DOMAIN s : WithoutAt(s, k)[i] = s[j] /\ j # k
                                                           /\ j = IF i < k THEN i ELSE i + 1
  BY <1>1, <1>4, <1>5
<1>. HIDE DEF WithoutAt
<1>7. \A i \in DOMAIN WithoutAt(s, k) : Has(s, WithoutAt(s, k)[i])
  BY <1>6 DEF Has
<1>8. LinksOnce(s) => LinksOnce(WithoutAt(s, k))
  BY <1>1, <1>5, <1>6 DEF LinksOnce
<1>9. LinksOnce(s) /\ s[k].kind = "link" => ~Has(WithoutAt(s, k), s[k])
  BY <1>6 DEF LinksOnce, Has
<1>. QED
  BY <1>4, <1>7, <1>8, <1>9 DEF Thinned

LEMMA AppendKeepsOnce ==
    ASSUME NEW s \in Seq(Tokens), NEW x \in Tokens, LinksOnce(s), x.kind = "link" => ~Has(s, x)
    PROVE  /\ Append(s, x) \in Seq(Tokens) /\ LinksOnce(Append(s, x))
           /\ \A i \in DOMAIN Append(s, x) : Append(s, x)[i] = x \/ Has(s, Append(s, x)[i])
<1>1. /\ Append(s, x) \in Seq(Tokens)
      /\ \A i \in DOMAIN Append(s, x) : \/ i \in DOMAIN s /\ Append(s, x)[i] = s[i]
                                        \/ i = Len(s) + 1 /\ Append(s, x)[i] = x
  OBVIOUS
<1>. QED
  BY <1>1 DEF LinksOnce, Has

Requests == [step : {"idle", "gate", "match", "start"}, with : Tokens]

LoginShapes ==
    /\ secret \in Nat /\ changed \in Nat /\ issued \in Nat
    /\ links \in Seq(Tokens) /\ logins \in Seq(Tokens)
    /\ request \in [LoginClients -> Requests]

\* A check that has begun, and the login that it starts, hold the gate, and so does a change.
SecretStarts(c) == request[c].step = "start" /\ request[c].with.kind = "secret"
LinkStarts(c) == request[c].step = "start" /\ request[c].with.kind = "link"

GateHeld ==
    /\ change # "idle" => gate = "change"
    /\ \A c \in LoginClients : request[c].step = "match" \/ SecretStarts(c) => gate = c

\* What a login was started by, or is about to be, is the stored secret until a change stores another.
StartsCurrent == \A c \in LoginClients : SecretStarts(c) => request[c].with.n = secret
LoginsCurrent == change # "end" => \A i \in DOMAIN logins : logins[i].kind = "secret" => logins[i].n = secret

\* A link is outstanding, at a request that consumed it, or at a login, and in one place only.
LinksIssued ==
    /\ \A i \in DOMAIN links : links[i].kind = "link" /\ links[i].n <= issued
    /\ \A i \in DOMAIN logins : logins[i].kind = "link" => logins[i].n <= issued
    /\ \A c \in LoginClients : LinkStarts(c) => request[c].with.n <= issued

LinksApart ==
    /\ LinksOnce(links) /\ LinksOnce(logins)
    /\ \A i \in DOMAIN logins : logins[i].kind = "link" => ~Has(links, logins[i])
    /\ \A c \in LoginClients : LinkStarts(c) => ~Has(links, request[c].with) /\ ~Has(logins, request[c].with)
    /\ \A c, d \in LoginClients : LinkStarts(c) /\ LinkStarts(d) /\ request[c].with = request[d].with => c = d

LoginInv == LoginShapes /\ GateHeld /\ StartsCurrent /\ LoginsCurrent /\ LinksIssued /\ LinksApart

LEMMA LoginInitInv == LoginInit => LoginInv
<1>. SUFFICES ASSUME LoginInit PROVE LoginInv
  OBVIOUS
<1>1. NoRequest \in Requests /\ NoRequest.step = "idle"
  BY DEF NoRequest, Requests, Tokens, Secret
<1>2. LoginShapes
  BY <1>1 DEF LoginInit, LoginShapes
<1>3. \A c \in LoginClients : request[c].step = "idle"
  BY <1>1 DEF LoginInit
<1>. HIDE DEF NoRequest
<1>4. GateHeld /\ StartsCurrent /\ LoginsCurrent
  BY <1>3 DEF LoginInit, GateHeld, StartsCurrent, LoginsCurrent, SecretStarts
<1>5. LinksIssued /\ LinksApart
  BY <1>3 DEF LoginInit, LinksIssued, LinksApart, LinkStarts, LinksOnce, Has
<1>. QED
  BY <1>2, <1>4, <1>5 DEF LoginInv

\* Items that leave the links or the logins leave the rest as it was.
LEMMA ThinningKeeps ==
    ASSUME LoginInv, Thinned(links', links), Thinned(logins', logins),
           UNCHANGED <<secret, changed, gate, issued, request, change>>
    PROVE  LoginInv'
<1>1. /\ \A x : Has(links', x) => Has(links, x)
      /\ \A x : Has(logins', x) => Has(logins, x)
  BY DEF Thinned, Has
<1>2. LoginShapes'
  BY DEF LoginInv, LoginShapes, Thinned
<1>3. GateHeld' /\ StartsCurrent'
  BY DEF LoginInv, GateHeld, StartsCurrent, SecretStarts
<1>4. LoginsCurrent'
  BY DEF LoginInv, LoginsCurrent, Thinned, Has
<1>5. LinksIssued'
  BY DEF LoginInv, LinksIssued, LinkStarts, Thinned, Has
<1>6. LinksOnce(links') /\ LinksOnce(logins')
  BY DEF LoginInv, LinksApart, Thinned
<1>7. \A i \in DOMAIN logins' : logins'[i].kind = "link" => ~Has(links', logins'[i])
  BY <1>1 DEF LoginInv, LinksApart, Thinned, Has
<1>8. LinksApart'
  BY <1>1, <1>6, <1>7 DEF LoginInv, LinksApart, LinkStarts
<1>. QED
  BY <1>2, <1>3, <1>4, <1>5, <1>8 DEF LoginInv

LEMMA ThinsItself ==
    ASSUME LoginInv
    PROVE  Thinned(links, links) /\ Thinned(logins, logins)
BY DEF LoginInv, LoginShapes, Thinned, Has

\* A request that moves without a login of its own.
LEMMA RequestKeeps ==
    ASSUME LoginInv, NEW c \in LoginClients, NEW r \in Requests, request' = [request EXCEPT ![c] = r],
           r.step = "start" => r.with.kind = "secret" /\ r.with.n = secret,
           UNCHANGED <<secret, changed, issued, links, logins, change>>,
           change # "idle" => gate' = "change",
           r.step \in {"match", "start"} => gate' = c,
           \A d \in LoginClients : d # c /\ (request[d].step = "match" \/ SecretStarts(d)) => gate' = d
    PROVE  LoginInv'
<1>1. /\ request' \in [LoginClients -> Requests] /\ request'[c] = r
      /\ \A d \in LoginClients : d # c => request'[d] = request[d]
  BY DEF LoginInv, LoginShapes
<1>2. LoginShapes'
  BY <1>1 DEF LoginInv, LoginShapes
<1>3. GateHeld' /\ StartsCurrent'
  BY <1>1 DEF LoginInv, GateHeld, StartsCurrent, SecretStarts
<1>4. LoginsCurrent'
  BY DEF LoginInv, LoginsCurrent
<1>5. \A d \in LoginClients : LinkStarts(d)' => d # c /\ LinkStarts(d) /\ request'[d] = request[d]
  BY <1>1 DEF LinkStarts
<1>6. LinksIssued' /\ LinksApart'
  BY <1>5 DEF LoginInv, LinksIssued, LinksApart, LinkStarts
<1>. QED
  BY <1>2, <1>3, <1>4, <1>6 DEF LoginInv

LEMMA IssueLinkKeeps ==
    ASSUME LoginInv, IssueLink
    PROVE  LoginInv'
<1>. DEFINE kept == Room(links, MaxLinks)
            new == Link(issued + 1)
<1>1. /\ issued \in Nat /\ issued' = issued + 1 /\ links' = Append(kept, new)
      /\ UNCHANGED <<secret, changed, gate, logins, request, change>>
  BY DEF LoginInv, LoginShapes, IssueLink
<1>2. Thinned(kept, links)
  BY RoomThins, LoginAssumption DEF LoginInv, LoginShapes
<1>3. new \in Tokens /\ new.kind = "link" /\ new.n = issued + 1
  BY <1>1 DEF Link, Tokens
<1>. HIDE DEF kept, new
<1>4. \A i \in DOMAIN links : links[i].n <= issued /\ links[i].kind = "link"
  BY DEF LoginInv, LinksIssued
<1>5. ~Has(links, new) /\ ~Has(kept, new)
  BY <1>1, <1>2, <1>3, <1>4 DEF Has, Thinned
<1>6. kept \in Seq(Tokens) /\ LinksOnce(kept) /\ \A i \in DOMAIN kept : Has(links, kept[i])
  BY <1>2 DEF Thinned, LoginInv, LinksApart
<1>7. /\ links' \in Seq(Tokens) /\ LinksOnce(links')
      /\ \A i \in DOMAIN links' : links'[i] = new \/ Has(links, links'[i])
  BY <1>1, <1>3, <1>5, <1>6, AppendKeepsOnce DEF Has
<1>8. \A x : Has(links', x) => x = new \/ Has(links, x)
  BY <1>7 DEF Has
<1>9. LoginShapes' /\ GateHeld' /\ StartsCurrent' /\ LoginsCurrent'
  BY <1>1, <1>7 DEF LoginInv, LoginShapes, GateHeld, StartsCurrent, LoginsCurrent, SecretStarts
<1>10. LinksIssued'
  <2>1. \A x \in Tokens : x.n <= issued => x.n <= issued'
    BY <1>1 DEF Tokens
  <2>2. \A i \in DOMAIN links' : links'[i].kind = "link" /\ links'[i].n <= issued'
    BY <1>1, <1>3, <1>4, <1>7, <2>1 DEF Has, LoginInv, LoginShapes
  <2>3. \A i \in DOMAIN logins' : logins'[i].kind = "link" => logins'[i].n <= issued'
    BY <1>1, <2>1 DEF LoginInv, LoginShapes, LinksIssued
  <2>4. \A c \in LoginClients : LinkStarts(c)' => request'[c].with.n <= issued'
    BY <1>1, <2>1 DEF LoginInv, LoginShapes, LinksIssued, LinkStarts, Requests
  <2>. QED
    BY <2>2, <2>3, <2>4 DEF LinksIssued
<1>11. LinksApart'
  <2>1. \A i \in DOMAIN logins : logins[i].kind = "link" => logins[i] # new
    BY <1>1, <1>3 DEF LoginInv, LinksIssued
  <2>2. \A c \in LoginClients : LinkStarts(c) => request[c].with # new
    BY <1>1, <1>3 DEF LoginInv, LinksIssued
  <2>. QED
    BY <1>1, <1>7, <1>8, <2>1, <2>2 DEF LoginInv, LinksApart, LinkStarts
<1>. QED
  BY <1>9, <1>10, <1>11 DEF LoginInv

LEMMA LinkLoginKeeps ==
    ASSUME LoginInv, NEW c \in LoginClients, LinkLogin(c)
    PROVE  LoginInv'
<1>1. PICK n \in 1 .. issued : /\ links' = Consumed(Link(n))
                               /\ request' = IF Has(links, Link(n))
                                             THEN [request EXCEPT ![c] = [step |-> "start", with |-> Link(n)]]
                                             ELSE request
  BY DEF LinkLogin
<1>2. request[c].step = "idle" /\ UNCHANGED <<secret, changed, gate, issued, logins, change>>
  BY DEF LinkLogin, At2
<1>3. CASE ~Has(links, Link(n))
  <2>1. links' = links /\ request' = request
    BY <1>1, <1>3 DEF Consumed, WithoutItem
  <2>. QED
    BY <1>2, <2>1, ThinsItself, ThinningKeeps
<1>4. CASE Has(links, Link(n))
  <2>. DEFINE k == CHOOSE i \in DOMAIN links : links[i] = Link(n)
              r == [step |-> "start", with |-> Link(n)]
  <2>1. k \in DOMAIN links /\ links[k] = Link(n) /\ links' = WithoutAt(links, k)
    BY <1>1, <1>4 DEF Consumed, WithoutItem, Has
  <2>2. Link(n).kind = "link" /\ Link(n).n = n /\ Link(n) \in Tokens /\ n <= issued
    BY DEF Link, Tokens, LoginInv, LoginShapes
  <2>3. r \in Requests /\ r.step = "start" /\ r.with = Link(n)
    BY <2>2 DEF Requests
  <2>. HIDE DEF k, r
  <2>4. /\ request' \in [LoginClients -> Requests] /\ request'[c] = r
        /\ \A d \in LoginClients : d # c => request'[d] = request[d]
    BY <1>1, <1>4, <2>3 DEF LoginInv, LoginShapes, r
  <2>5. Thinned(links', links) /\ ~Has(links', Link(n))
    BY <2>1, <2>2, WithoutThins DEF LoginInv, LoginShapes, LinksApart
  <2>6. \A x : Has(links', x) => Has(links, x)
    BY <2>5 DEF Thinned, Has
  <2>7. LoginShapes'
    BY <1>2, <2>4, <2>5 DEF LoginInv, LoginShapes, Thinned
  <2>8. GateHeld' /\ StartsCurrent' /\ LoginsCurrent'
    BY <1>2, <2>2, <2>3, <2>4 DEF LoginInv, GateHeld, StartsCurrent, LoginsCurrent, SecretStarts
  <2>9. \A d \in LoginClients : LinkStarts(d)' => d = c \/ (LinkStarts(d) /\ request'[d] = request[d])
    BY <2>4 DEF LinkStarts
  <2>10. LinksIssued'
    <3>1. \A i \in DOMAIN links' : links'[i].kind = "link" /\ links'[i].n <= issued'
      BY <1>2, <2>5 DEF LoginInv, LinksIssued, Thinned, Has
    <3>. QED
      BY <1>2, <2>2, <2>3, <2>4, <2>9, <3>1 DEF LoginInv, LinksIssued
  <2>11. LinksApart'
    <3>1. ~Has(logins, Link(n))
      BY <1>4, <2>2 DEF LoginInv, LinksApart, Has
    <3>2. \A d \in LoginClients : LinkStarts(d) => request[d].with # Link(n)
      BY <1>4 DEF LoginInv, LinksApart
    <3>3. LinksOnce(links') /\ LinksOnce(logins')
      BY <1>2, <2>5 DEF LoginInv, LinksApart, Thinned
    <3>4. \A i \in DOMAIN logins' : logins'[i].kind = "link" => ~Has(links', logins'[i])
      BY <1>2, <2>6 DEF LoginInv, LinksApart
    <3>5. \A d \in LoginClients : LinkStarts(d)' => ~Has(links', request'[d].with) /\ ~Has(logins', request'[d].with)
      BY <1>2, <2>3, <2>4, <2>5, <2>6, <2>9, <3>1 DEF LoginInv, LinksApart
    <3>6. \A d, e \in LoginClients : LinkStarts(d)' /\ LinkStarts(e)' /\ request'[d].with = request'[e].with => d = e
      BY <2>3, <2>4, <2>9, <3>2 DEF LoginInv, LinksApart
    <3>. QED
      BY <3>3, <3>4, <3>5, <3>6 DEF LinksApart
  <2>. QED
    BY <2>7, <2>8, <2>10, <2>11 DEF LoginInv
<1>. QED
  BY <1>3, <1>4

\* GiveSecret, EnterGate, GiveUp and Match: the request goes on, and the gate with it.
LEMMA CheckKeeps ==
    ASSUME LoginInv, NEW c \in LoginClients, GiveSecret(c) \/ EnterGate(c) \/ GiveUp(c) \/ Match(c)
    PROVE  LoginInv'
<1>1. /\ NoRequest \in Requests /\ NoRequest.step = "idle"
      /\ \A n \in Nat : /\ [step |-> "gate", with |-> Secret(n)] \in Requests
                        /\ Secret(n).kind = "secret" /\ Secret(n).n = n
  BY DEF NoRequest, Requests, Tokens, Secret
<1>. HIDE DEF NoRequest
<1>2. /\ request[c] \in Requests /\ changed \in Nat /\ c \notin {"free", "change"}
      /\ \A d \in LoginClients : request[d] \in Requests
      /\ \A s \in {"match", "start"} : [request[c] EXCEPT !.step = s] \in Requests
  BY LoginAssumption DEF LoginInv, LoginShapes, Requests
<1>3. UNCHANGED <<secret, changed, issued, links, logins, change>>
  BY DEF GiveSecret, EnterGate, GiveUp, Match
<1>4. CASE GiveSecret(c)
  <2>1. PICK n \in 0 .. changed : request' = [request EXCEPT ![c] = [step |-> "gate", with |-> Secret(n)]]
    BY <1>4 DEF GiveSecret
  <2>2. n \in Nat
    BY <1>2
  <2>3. UNCHANGED gate
    BY <1>4 DEF GiveSecret
  <2>. QED
    BY <1>1, <1>3, <2>1, <2>2, <2>3, RequestKeeps DEF LoginInv, GateHeld
<1>5. CASE GiveUp(c)
  <2>1. UNCHANGED gate /\ request' = [request EXCEPT ![c] = NoRequest]
    BY <1>5 DEF GiveUp, Ends
  <2>. QED
    BY <1>1, <1>3, <2>1, RequestKeeps DEF LoginInv, GateHeld
<1>6. CASE EnterGate(c)
  <2>1. change = "idle" /\ \A d \in LoginClients : ~(request[d].step = "match" \/ SecretStarts(d))
    BY <1>6, LoginAssumption DEF EnterGate, LoginInv, GateHeld
  <2>2. CASE request' = [request EXCEPT ![c] = NoRequest]
    <3>1. gate' \in {gate, c}
      BY <1>6 DEF EnterGate
    <3>. QED
      BY <1>1, <1>3, <2>1, <2>2, <3>1, RequestKeeps DEF LoginInv, GateHeld
  <2>3. CASE request' = [request EXCEPT ![c].step = "match"] /\ gate' = c
    <3>1. request' = [request EXCEPT ![c] = [request[c] EXCEPT !.step = "match"]]
      BY <2>3
    <3>2. [request[c] EXCEPT !.step = "match"].step = "match"
      BY <1>2 DEF Requests
    <3>. QED
      BY <1>2, <1>3, <2>1, <2>3, <3>1, <3>2, RequestKeeps
  <2>. QED
    BY <1>6, <2>2, <2>3 DEF EnterGate, Goes, Ends
<1>7. CASE Match(c)
  <2>1. request[c].step = "match" /\ gate = c /\ change = "idle"
    BY <1>2, <1>7 DEF Match, At2, LoginInv, GateHeld
  <2>2. \A d \in LoginClients : d # c => ~(request[d].step = "match" \/ SecretStarts(d))
    BY <2>1 DEF LoginInv, GateHeld
  <2>3. CASE request' = [request EXCEPT ![c] = NoRequest]
    BY <1>1, <1>3, <2>1, <2>2, <2>3, RequestKeeps
  <2>4. CASE request' = [request EXCEPT ![c].step = "start"] /\ request[c].with = Secret(secret) /\ gate' = gate
    <3>1. request' = [request EXCEPT ![c] = [request[c] EXCEPT !.step = "start"]]
      BY <2>4
    <3>2. /\ [request[c] EXCEPT !.step = "start"].step = "start"
          /\ [request[c] EXCEPT !.step = "start"].with = Secret(secret)
      BY <1>2, <2>4 DEF Requests
    <3>3. Secret(secret).kind = "secret" /\ Secret(secret).n = secret
      BY <1>1 DEF LoginInv, LoginShapes
    <3>. QED
      BY <1>2, <1>3, <2>1, <2>2, <2>4, <3>1, <3>2, <3>3, RequestKeeps
  <2>. QED
    BY <1>7, <2>3, <2>4 DEF Match, Goes, Ends
<1>. QED
  BY <1>4, <1>5, <1>6, <1>7

LEMMA StartLoginKeeps ==
    ASSUME LoginInv, NEW c \in LoginClients, StartLogin(c)
    PROVE  LoginInv'
<1>. DEFINE with == request[c].with
            kept == Room(logins, MaxLogins)
<1>1. /\ request[c].step = "start" /\ request' = [request EXCEPT ![c] = NoRequest]
      /\ gate' = IF gate = c THEN "free" ELSE gate
      /\ logins' = Append(kept, with) \/ logins' = logins
      /\ UNCHANGED <<secret, changed, links, issued, change>>
  BY DEF StartLogin, At2, Ends
<1>2. with \in Tokens /\ c \notin {"free", "change"} /\ issued \in Nat
  BY LoginAssumption DEF LoginInv, LoginShapes, Requests
<1>3. NoRequest \in Requests /\ NoRequest.step = "idle"
  BY DEF NoRequest, Requests, Tokens, Secret
<1>. HIDE DEF NoRequest
<1>4. /\ request' \in [LoginClients -> Requests] /\ request'[c].step = "idle"
      /\ \A d \in LoginClients : d # c => request'[d] = request[d]
  BY <1>1, <1>3 DEF LoginInv, LoginShapes
<1>5. Thinned(kept, logins)
  BY RoomThins, LoginAssumption DEF LoginInv, LoginShapes
<1>6. with.kind = "link" => /\ ~Has(links, with) /\ ~Has(logins, with) /\ with.n <= issued
                            /\ \A d \in LoginClients : d # c /\ LinkStarts(d) => request[d].with # with
  BY <1>1 DEF LoginInv, LinksApart, LinksIssued, LinkStarts
<1>7. with.kind = "secret" => change = "idle" /\ with.n = secret
  BY <1>1, <1>2 DEF LoginInv, GateHeld, StartsCurrent, SecretStarts
<1>8. /\ logins' \in Seq(Tokens) /\ LinksOnce(logins')
      /\ \A i \in DOMAIN logins' : logins'[i] = with \/ Has(logins, logins'[i])
  <2>1. CASE logins' = logins
    BY <2>1 DEF LoginInv, LoginShapes, LinksApart, Has
  <2>2. CASE logins' = Append(kept, with)
    <3>. HIDE DEF kept, with
    <3>1. kept \in Seq(Tokens) /\ LinksOnce(kept) /\ \A i \in DOMAIN kept : Has(logins, kept[i])
      BY <1>5 DEF Thinned, LoginInv, LinksApart
    <3>2. with.kind = "link" => ~Has(kept, with)
      BY <1>6, <3>1 DEF Has
    <3>. QED
      BY <1>2, <2>2, <3>1, <3>2, AppendKeepsOnce DEF Has
  <2>. QED
    BY <1>1, <2>1, <2>2
<1>. HIDE DEF with, kept
<1>9. LoginShapes' /\ GateHeld'
  <2>1. LoginShapes'
    BY <1>1, <1>4, <1>8 DEF LoginInv, LoginShapes
  <2>2. GateHeld'
    BY <1>1, <1>2, <1>4 DEF LoginInv, GateHeld, SecretStarts
  <2>. QED
    BY <2>1, <2>2
<1>10. StartsCurrent' /\ LoginsCurrent'
  <2>1. StartsCurrent'
    BY <1>1, <1>4 DEF LoginInv, StartsCurrent, SecretStarts
  <2>2. LoginsCurrent'
    BY <1>1, <1>7, <1>8 DEF LoginInv, LoginsCurrent, Has
  <2>. QED
    BY <2>1, <2>2
<1>11. \A d \in LoginClients : LinkStarts(d)' => d # c /\ LinkStarts(d) /\ request'[d] = request[d]
  BY <1>4 DEF LinkStarts
<1>12. LinksIssued'
  <2>1. \A i \in DOMAIN logins' : logins'[i].kind = "link" => logins'[i].n <= issued'
    BY <1>1, <1>6, <1>8 DEF LoginInv, LinksIssued, Has
  <2>. QED
    BY <1>1, <1>11, <2>1 DEF LoginInv, LinksIssued
<1>13. LinksApart'
  <2>1. \A i \in DOMAIN logins' : logins'[i].kind = "link" => ~Has(links', logins'[i])
    BY <1>1, <1>6, <1>8 DEF LoginInv, LinksApart, Has
  <2>2. \A d \in LoginClients : LinkStarts(d)' => ~Has(links', request'[d].with) /\ ~Has(logins', request'[d].with)
    <3>. SUFFICES ASSUME NEW d \in LoginClients, LinkStarts(d)'
                  PROVE  ~Has(links', request'[d].with) /\ ~Has(logins', request'[d].with)
      OBVIOUS
    <3>1. LinkStarts(d) /\ request'[d] = request[d] /\ d # c
      BY <1>11
    <3>2. with # request[d].with
      BY <1>6, <3>1 DEF LinkStarts
    <3>3. ~Has(links, request[d].with) /\ ~Has(logins, request[d].with)
      BY <3>1 DEF LoginInv, LinksApart
    <3>. QED
      BY <1>1, <1>8, <3>1, <3>2, <3>3 DEF Has
  <2>3. LinksOnce(links')
    BY <1>1 DEF LoginInv, LinksApart
  <2>4. \A d, e \in LoginClients : LinkStarts(d)' /\ LinkStarts(e)' /\ request'[d].with = request'[e].with => d = e
    BY <1>11 DEF LoginInv, LinksApart
  <2>. QED
    BY <1>8, <2>1, <2>2, <2>3, <2>4 DEF LinksApart
<1>. QED
  BY <1>9, <1>10, <1>12, <1>13 DEF LoginInv

LEMMA ChangeKeeps ==
    ASSUME LoginInv, ChangeBegins \/ StoreSecret \/ EndAll \/ LoginRestart
    PROVE  LoginInv'
<1>1. CASE ChangeBegins
  <2>1. \A c \in LoginClients : ~(request[c].step = "match" \/ SecretStarts(c))
    BY <1>1, LoginAssumption DEF ChangeBegins, LoginInv, GateHeld
  <2>. QED
    BY <1>1, <2>1 DEF ChangeBegins, LoginInv, LoginShapes, GateHeld, StartsCurrent, LoginsCurrent, LinksIssued, LinksApart,
       SecretStarts, LinkStarts
<1>2. CASE StoreSecret
  <2>1. \A c \in LoginClients : ~(request[c].step = "match" \/ SecretStarts(c))
    BY <1>2, LoginAssumption DEF StoreSecret, LoginInv, GateHeld
  <2>2. LoginShapes' /\ UNCHANGED <<links, issued, logins, request>>
    BY <1>2 DEF StoreSecret, LoginInv, LoginShapes
  <2>3. GateHeld' /\ StartsCurrent' /\ LoginsCurrent'
    BY <1>2, <2>1, <2>2 DEF StoreSecret, LoginInv, GateHeld, StartsCurrent, LoginsCurrent, SecretStarts
  <2>. QED
    BY <2>2, <2>3 DEF LoginInv, LinksIssued, LinksApart, LinkStarts
<1>3. CASE EndAll
  <2>1. \A c \in LoginClients : ~(request[c].step = "match" \/ SecretStarts(c))
    BY <1>3, LoginAssumption DEF EndAll, LoginInv, GateHeld
  <2>2. logins' = <<>> /\ UNCHANGED <<secret, changed, links, issued, request>> /\ change' = "idle"
    BY <1>3 DEF EndAll
  <2>3. LoginShapes' /\ GateHeld' /\ StartsCurrent' /\ LoginsCurrent'
    BY <2>1, <2>2 DEF LoginInv, LoginShapes, GateHeld, StartsCurrent, LoginsCurrent, SecretStarts
  <2>4. LinksIssued' /\ LinksApart'
    BY <2>2 DEF LoginInv, LinksIssued, LinksApart, LinkStarts, LinksOnce, Has
  <2>. QED
    BY <2>3, <2>4 DEF LoginInv
<1>4. CASE LoginRestart
  <2>1. NoRequest \in Requests /\ NoRequest.step = "idle"
    BY DEF NoRequest, Requests, Tokens, Secret
  <2>. HIDE DEF NoRequest
  <2>2. /\ logins' = <<>> /\ links' = <<>> /\ UNCHANGED <<secret, changed, issued>> /\ change' = "idle"
        /\ request' \in [LoginClients -> Requests] /\ \A c \in LoginClients : request'[c].step = "idle"
    BY <1>4, <2>1 DEF LoginRestart
  <2>3. LoginShapes' /\ GateHeld' /\ StartsCurrent' /\ LoginsCurrent'
    BY <2>2 DEF LoginInv, LoginShapes, GateHeld, StartsCurrent, LoginsCurrent, SecretStarts
  <2>4. LinksIssued' /\ LinksApart'
    BY <2>2 DEF LoginInv, LinksIssued, LinksApart, LinkStarts, LinksOnce, Has
  <2>. QED
    BY <2>3, <2>4 DEF LoginInv
<1>. QED
  BY <1>1, <1>2, <1>3, <1>4

\* Once a change of the secret has answered, every login that is left was started by the
\* stored secret or by a link, and no link started two, for any number of clients, links
\* and changes, whatever checks were under way (secretGate, passwordLogin, login).
THEOREM LoginsAreCurrentThm == LoginSpec => []LoginsAreCurrent
<1>1. LoginInv /\ [LoginNext]_loginVars => LoginInv'
  <2>. SUFFICES ASSUME LoginInv, [LoginNext]_loginVars PROVE LoginInv'
    OBVIOUS
  <2>1. CASE UNCHANGED loginVars
    BY <2>1, ThinsItself, ThinningKeeps DEF loginVars
  <2>2. CASE LinkExpires
    BY <2>2, ThinsItself, TailThins, ThinningKeeps DEF LinkExpires, LoginInv, LoginShapes
  <2>3. CASE LoginEnds
    BY <2>3, ThinsItself, WithoutThins, ThinningKeeps DEF LoginEnds, LoginInv, LoginShapes
  <2>4. CASE WaitEnds
    BY <2>4, ThinsItself, ThinningKeeps DEF WaitEnds
  <2>. QED
    BY <2>1, <2>2, <2>3, <2>4, IssueLinkKeeps, LinkLoginKeeps, CheckKeeps, StartLoginKeeps, ChangeKeeps DEF LoginNext
<1>2. LoginInv => LoginsAreCurrent
  <2>. SUFFICES ASSUME LoginInv, change = "idle", NEW i \in DOMAIN logins
                PROVE  IF logins[i].kind = "secret" THEN logins[i].n = secret
                       ELSE \A j \in DOMAIN logins : logins[j] = logins[i] => j = i
    BY DEF LoginsAreCurrent
  <2>1. logins[i].kind \in {"secret", "link"}
    <3>1. logins[i] \in Tokens
      BY DEF LoginInv, LoginShapes
    <3>. QED
      BY <3>1 DEF Tokens
  <2>2. CASE logins[i].kind = "secret"
    BY <2>2 DEF LoginInv, LoginsCurrent
  <2>3. CASE logins[i].kind = "link"
    BY <2>3 DEF LoginInv, LinksApart, LinksOnce
  <2>. QED
    BY <2>1, <2>2, <2>3
<1>. QED
  BY <1>1, <1>2, LoginInitInv, PTL DEF LoginSpec

-----------------------------------------------------------------------------
(* Rooms *)

\* The least and the greatest of what a page is cut from.
LEMMA LeastNumber ==
    ASSUME NEW T \in SUBSET Nat, T # {}
    PROVE  Min(T) \in T /\ \A y \in T : Min(T) <= y
<1>1. PICK x \in T : \A y \in T : ~(<<y, x>> \in OpToRel(<, Nat))
  BY WFMin, NatLessThanWellFounded, Zenon
<1>2. ASSUME NEW y \in T PROVE x <= y
  <2>1. CASE y < x
    <3>1. <<y, x>> \in OpToRel(<, Nat)
      BY <2>1 DEF OpToRel
    <3>. QED
      BY <3>1, <1>1
  <2>2. CASE ~(y < x)
    BY <2>2
  <2>. QED
    BY <2>1, <2>2
<1>. QED
  BY <1>2 DEF Min

LEMMA GreaterOfTwo ==
    ASSUME NEW a \in Nat, NEW b \in Nat
    PROVE  Max({a, b}) \in {a, b} /\ Max({a, b}) >= a /\ Max({a, b}) >= b
<1>1. \E x \in {a, b} : \A y \in {a, b} : x >= y
  OBVIOUS
<1>. QED
  BY <1>1 DEF Max

LEMMA OnlyNumber ==
    ASSUME NEW T \in SUBSET Nat, NEW a \in T, \A y \in T : y = a
    PROVE  Max(T) = a
<1>1. \E x \in T : \A y \in T : x >= y
  OBVIOUS
<1>. QED
  BY <1>1 DEF Max

PostShape(p) == p = [seq |-> p.seq, by |-> p.by, key |-> p.key, copies |-> p.copies, members |-> p.members]
HeardShape(h) == h = [after |-> h.after, begun |-> h.begun, got |-> h.got, gaps |-> h.gaps, outside |-> h.outside]

RoomShapes ==
    /\ room = [revision |-> room.revision, head |-> room.head, rows |-> room.rows, posts |-> room.posts,
               replays |-> room.replays, accepted |-> room.accepted]
    /\ room.head \in Nat
    /\ room.rows \in [MemberIds -> [state : {"none", "active", "removed"}, start : Nat]]
    /\ \A p \in room.posts : PostShape(p) /\ p.seq \in Nat /\ p.seq <= room.head
    /\ room.accepted \in Seq((RoomSessions \cup {"maintainer"}) \X PostKeys)
    /\ heard = [s \in RoomSessions |-> heard[s]]
    /\ \A s \in RoomSessions : HeardShape(heard[s]) /\ heard[s].after \in Nat /\ heard[s].begun \in Nat

\* Every post since a current membership began was made while its member was in the room.
MembersSeeTheirs ==
    \A p \in room.posts, m \in MemberIds : Current(m) /\ p.seq > room.rows[m].start => m \in p.members

\* The retry record of an accepted post is kept until its key's deadline has passed.
AcceptedOnRecord ==
    \A i \in DOMAIN room.accepted : room.accepted[i] \in room.replays \/ room.accepted[i][2] \in due

RoomsInv == RoomShapes /\ MembersSeeTheirs /\ AcceptedOnRecord /\ RoomReadHonest /\ PostedOnce

LEMMA RoomsInitInv == RoomsInit => RoomsInv
<1>. SUFFICES ASSUME RoomsInit PROVE RoomsInv
  OBVIOUS
<1>1. RoomShapes
  BY DEF RoomsInit, RoomShapes, HeardShape, NothingRead, NoMember
<1>2. MembersSeeTheirs /\ AcceptedOnRecord /\ PostedOnce
  BY DEF RoomsInit, MembersSeeTheirs, AcceptedOnRecord, PostedOnce
<1>3. RoomReadHonest
  BY DEF RoomsInit, RoomReadHonest, NothingRead
<1>. QED
  BY <1>1, <1>2, <1>3 DEF RoomsInv

\* The maintainer's changes of the roster: a membership starts after every post of the room.
LEMMA RosterKeeps ==
    ASSUME RoomsInv, NEW m \in MemberIds, NEW row \in [state : {"none", "active", "removed"}, start : Nat],
           room' = [room EXCEPT !.revision = @ + 1, !.rows[m] = row],
           row.state = "active" => row.start = room.head, UNCHANGED <<due, heard>>
    PROVE  RoomsInv'
<1>1. /\ room'.head = room.head /\ room'.posts = room.posts /\ room'.replays = room.replays
      /\ room'.accepted = room.accepted /\ room'.rows = [room.rows EXCEPT ![m] = row]
      /\ room' = [revision |-> room'.revision, head |-> room'.head, rows |-> room'.rows, posts |-> room'.posts,
                  replays |-> room'.replays, accepted |-> room'.accepted]
  BY DEF RoomsInv, RoomShapes
<1>2. /\ room'.rows \in [MemberIds -> [state : {"none", "active", "removed"}, start : Nat]]
      /\ room'.rows[m] = row /\ \A x \in MemberIds : x # m => room'.rows[x] = room.rows[x]
  BY <1>1 DEF RoomsInv, RoomShapes
<1>3. RoomShapes'
  BY <1>1, <1>2 DEF RoomsInv, RoomShapes
<1>4. MembersSeeTheirs'
  <2>. SUFFICES ASSUME NEW p \in room.posts, NEW x \in MemberIds, Current(x)', p.seq > room'.rows[x].start
                PROVE  x \in p.members
    BY <1>1 DEF MembersSeeTheirs
  <2>1. CASE x = m
    BY <1>2, <2>1 DEF Current, RoomsInv, RoomShapes
  <2>2. CASE x # m
    BY <1>2, <2>2 DEF Current, RoomsInv, MembersSeeTheirs
  <2>. QED
    BY <2>1, <2>2
<1>5. AcceptedOnRecord' /\ PostedOnce' /\ RoomReadHonest'
  BY <1>1 DEF RoomsInv, AcceptedOnRecord, PostedOnce, RoomReadHonest
<1>. QED
  BY <1>3, <1>4, <1>5 DEF RoomsInv

LEMMA RosterStepsKeep ==
    ASSUME RoomsInv, \/ \E s \in RoomSessions : AddRoomMember(s)
                     \/ \E m \in MemberIds : RemoveRoomMember(m)
    PROVE  RoomsInv'
<1>1. ASSUME NEW s \in RoomSessions, AddRoomMember(s) PROVE RoomsInv'
  <2>. DEFINE m == IF roomHolder = s THEN "address" ELSE s
  <2>1. m \in MemberIds /\ [state |-> "active", start |-> room.head] \in [state : {"none", "active", "removed"}, start : Nat]
    BY DEF MemberIds, RoomsInv, RoomShapes
  <2>2. /\ room' = [room EXCEPT !.revision = @ + 1, !.rows[m] = [state |-> "active", start |-> room.head]]
        /\ UNCHANGED <<due, heard>>
    BY <1>1 DEF AddRoomMember, MembershipStart
  <2>. HIDE DEF m
  <2>. QED
    BY <2>1, <2>2, RosterKeeps
<1>2. ASSUME NEW m \in MemberIds, RemoveRoomMember(m) PROVE RoomsInv'
  <2>1. [room.rows[m] EXCEPT !.state = "removed"] \in [state : {"none", "active", "removed"}, start : Nat]
        /\ [room.rows[m] EXCEPT !.state = "removed"].state = "removed"
    BY DEF RoomsInv, RoomShapes
  <2>2. /\ room' = [room EXCEPT !.revision = @ + 1, !.rows[m].state = "removed"]
        /\ UNCHANGED <<due, heard>>
    BY <1>2 DEF RemoveRoomMember
  <2>3. room' = [room EXCEPT !.revision = @ + 1, !.rows[m] = [room.rows[m] EXCEPT !.state = "removed"]]
    BY <2>2
  <2>. QED
    BY <2>1, <2>2, <2>3, RosterKeeps
<1>. QED
  BY <1>1, <1>2

LEMMA RoomPostKeeps ==
    ASSUME RoomsInv, NEW s \in RoomSessions \cup {"maintainer"}, NEW k \in PostKeys, RoomPost(s, k)
    PROVE  RoomsInv'
<1>. DEFINE senders == IF s = "maintainer" THEN {} ELSE CallerMemberships(s)
            post == [seq |-> room.head + 1, by |-> s, key |-> k, copies |-> FanOut(senders),
                     members |-> {m \in MemberIds : Current(m)}]
<1>1. /\ room' = [room EXCEPT !.head = @ + 1, !.posts = @ \cup {post}, !.replays = @ \cup {<<s, k>>},
                              !.accepted = Append(@, <<s, k>>)]
      /\ k \notin due /\ <<s, k>> \notin room.replays /\ UNCHANGED <<due, heard>>
  BY DEF RoomPost
<1>2. /\ PostShape(post) /\ post.seq = room.head + 1 /\ post.members = {m \in MemberIds : Current(m)}
  BY DEF PostShape
<1>. HIDE DEF post
<1>3. /\ room'.head = room.head + 1 /\ room'.posts = room.posts \cup {post}
      /\ room'.replays = room.replays \cup {<<s, k>>} /\ room'.accepted = Append(room.accepted, <<s, k>>)
      /\ room'.rows = room.rows
      /\ room' = [revision |-> room'.revision, head |-> room'.head, rows |-> room'.rows, posts |-> room'.posts,
                  replays |-> room'.replays, accepted |-> room'.accepted]
  BY <1>1 DEF RoomsInv, RoomShapes
<1>4. \A p \in room'.posts : PostShape(p) /\ p.seq \in Nat /\ p.seq <= room'.head
  BY <1>2, <1>3 DEF RoomsInv, RoomShapes
<1>5. /\ room'.accepted \in Seq((RoomSessions \cup {"maintainer"}) \X PostKeys)
      /\ \A i \in DOMAIN room'.accepted :
            \/ i \in DOMAIN room.accepted /\ room'.accepted[i] = room.accepted[i]
            \/ i = Len(room.accepted) + 1 /\ room'.accepted[i] = <<s, k>>
  <2>. DEFINE Pairs == (RoomSessions \cup {"maintainer"}) \X PostKeys
  <2>1. room.accepted \in Seq(Pairs) /\ <<s, k>> \in Pairs
    BY DEF RoomsInv, RoomShapes
  <2>. HIDE DEF Pairs
  <2>2. \A q \in Seq(Pairs), x \in Pairs :
            /\ Append(q, x) \in Seq(Pairs)
            /\ \A i \in DOMAIN Append(q, x) : \/ i \in DOMAIN q /\ Append(q, x)[i] = q[i]
                                              \/ i = Len(q) + 1 /\ Append(q, x)[i] = x
    OBVIOUS
  <2>3. room'.accepted \in Seq(Pairs)
    BY <1>3, <2>1, <2>2
  <2>. QED
    BY <1>3, <2>1, <2>2, <2>3 DEF Pairs
<1>6. RoomShapes'
  BY <1>1, <1>3, <1>4, <1>5 DEF RoomsInv, RoomShapes
<1>7. MembersSeeTheirs'
  BY <1>2, <1>3 DEF RoomsInv, MembersSeeTheirs, Current
<1>8. AcceptedOnRecord'
  BY <1>1, <1>3, <1>5 DEF RoomsInv, AcceptedOnRecord
<1>9. \A i \in DOMAIN room.accepted : room.accepted[i] # <<s, k>>
  BY <1>1 DEF RoomsInv, AcceptedOnRecord
<1>10. PostedOnce'
  BY <1>5, <1>9 DEF RoomsInv, PostedOnce
<1>11. RoomReadHonest'
  BY <1>1 DEF RoomsInv, RoomReadHonest
<1>. QED
  BY <1>6, <1>7, <1>8, <1>10, <1>11 DEF RoomsInv

\* Retention takes copies, posts and expired retry records, and changes no post.
LEMMA RetentionKeeps ==
    ASSUME RoomsInv, NEW S, NEW R, room' = [room EXCEPT !.posts = S, !.replays = R],
           \A p \in S : PostShape(p) /\ \E q \in room.posts : p.seq = q.seq /\ p.members = q.members,
           \A r \in room.replays : r \in R \/ r[2] \in due, UNCHANGED <<due, heard>>
    PROVE  RoomsInv'
<1>1. /\ room'.head = room.head /\ room'.posts = S /\ room'.replays = R
      /\ room'.accepted = room.accepted /\ room'.rows = room.rows
      /\ room' = [revision |-> room'.revision, head |-> room'.head, rows |-> room'.rows, posts |-> room'.posts,
                  replays |-> room'.replays, accepted |-> room'.accepted]
  BY DEF RoomsInv, RoomShapes
<1>2. RoomShapes'
  BY <1>1 DEF RoomsInv, RoomShapes
<1>3. MembersSeeTheirs'
  BY <1>1 DEF RoomsInv, MembersSeeTheirs, Current
<1>4. AcceptedOnRecord' /\ PostedOnce' /\ RoomReadHonest'
  BY <1>1 DEF RoomsInv, AcceptedOnRecord, PostedOnce, RoomReadHonest
<1>. QED
  BY <1>2, <1>3, <1>4 DEF RoomsInv

LEMMA RetentionStepsKeep ==
    ASSUME RoomsInv, CullRoomPosts \/ \E p \in room.posts : \E m \in DOMAIN p.copies : CopyGone(p, m)
    PROVE  RoomsInv'
<1>1. CASE CullRoomPosts
  <2>1. PICK S \in SUBSET {p \in room.posts : Cullable(p)} :
            room' = [room EXCEPT !.posts = @ \ S, !.replays = {r \in @ : ~ReplayExpired(r)}]
    BY <1>1 DEF CullRoomPosts
  <2>2. room' = [room EXCEPT !.posts = room.posts \ S, !.replays = {r \in room.replays : ~ReplayExpired(r)}]
    BY <2>1
  <2>3. \A p \in room.posts \ S : PostShape(p) /\ \E q \in room.posts : p.seq = q.seq /\ p.members = q.members
    BY DEF RoomsInv, RoomShapes
  <2>4. \A r \in room.replays : r \in {x \in room.replays : ~ReplayExpired(x)} \/ r[2] \in due
    BY DEF ReplayExpired
  <2>5. UNCHANGED <<due, heard>>
    BY <1>1 DEF CullRoomPosts
  <2>. QED
    BY <2>2, <2>3, <2>4, <2>5, RetentionKeeps
<1>2. ASSUME NEW p \in room.posts, NEW m \in DOMAIN p.copies, CopyGone(p, m) PROVE RoomsInv'
  <2>. DEFINE gone == [p EXCEPT !.copies[m] = "gone"]
              S == (room.posts \ {p}) \cup {gone}
  <2>1. PostShape(gone) /\ gone.seq = p.seq /\ gone.members = p.members
    <3>1. PostShape(p)
      BY DEF RoomsInv, RoomShapes
    <3>2. PICK c : gone = [p EXCEPT !.copies = c]
      OBVIOUS
    <3>. HIDE DEF gone
    <3>. QED
      BY <3>1, <3>2 DEF PostShape
  <2>2. room' = [room EXCEPT !.posts = S] /\ UNCHANGED <<due, heard>>
    BY <1>2 DEF CopyGone
  <2>. HIDE DEF gone
  <2>3. \A x \in S : PostShape(x) /\ \E q \in room.posts : x.seq = q.seq /\ x.members = q.members
    BY <2>1 DEF RoomsInv, RoomShapes
  <2>. HIDE DEF S
  <2>4. room' = [room EXCEPT !.posts = S, !.replays = room.replays]
    BY <2>2 DEF RoomsInv, RoomShapes
  <2>. QED
    BY <2>2, <2>3, <2>4, RetentionKeeps
<1>. QED
  BY <1>1, <1>2

\* The page that a reader gets next, as RoomRead cuts it.
PageStart(s) == Min(CurrentStarts(s))
PageFrom(s) == Max({heard[s].after, PageStart(s)})
PageLater(s) == {p \in room.posts : p.seq > PageFrom(s)}
PagePosts(s) == {p \in PageLater(s) : \A q \in PageLater(s) : p.seq <= q.seq}
PageEnd(s) == IF PageLater(s) # PagePosts(s) THEN Max({p.seq : p \in PagePosts(s)}) ELSE room.head

LEMMA PageIsSound ==
    ASSUME RoomsInv, NEW s \in RoomSessions, CurrentStarts(s) # {}
    PROVE  /\ PageFrom(s) \in Nat /\ PageEnd(s) \in Nat /\ PageEnd(s) <= room.head
           /\ \A p \in PagePosts(s) : p.members \cap CallerMemberships(s) # {}
<1>1. /\ CallerMemberships(s) \subseteq MemberIds /\ CurrentStarts(s) \in SUBSET Nat
  BY DEF CallerMemberships, HeldAddress, MemberIds, CurrentStarts, RoomsInv, RoomShapes
<1>2. PageStart(s) \in CurrentStarts(s) /\ PageStart(s) \in Nat
  BY <1>1, LeastNumber DEF PageStart
<1>3. PageFrom(s) \in Nat /\ PageFrom(s) >= PageStart(s)
  <2>1. heard[s].after \in Nat
    BY DEF RoomsInv, RoomShapes
  <2>. QED
    BY <1>2, <2>1, GreaterOfTwo DEF PageFrom
<1>4. PICK m \in CallerMemberships(s) : Current(m) /\ PageStart(s) = room.rows[m].start
  BY <1>2 DEF CurrentStarts
<1>5. \A p \in PagePosts(s) : p \in room.posts /\ p.seq \in Nat /\ p.seq > PageStart(s) /\ p.seq <= room.head
  BY <1>2, <1>3 DEF PagePosts, PageLater, RoomsInv, RoomShapes
<1>6. \A p \in PagePosts(s) : m \in p.members
  BY <1>1, <1>4, <1>5 DEF RoomsInv, MembersSeeTheirs
<1>7. PageEnd(s) \in Nat /\ PageEnd(s) <= room.head
  <2>1. CASE PageLater(s) = PagePosts(s)
    BY <2>1 DEF PageEnd, RoomsInv, RoomShapes
  <2>2. CASE PageLater(s) # PagePosts(s)
    <3>. DEFINE T == {p.seq : p \in PageLater(s)}
    <3>1. T \in SUBSET Nat /\ PageLater(s) # {} /\ T # {}
      <4>1. T \in SUBSET Nat
        BY DEF PageLater, RoomsInv, RoomShapes
      <4>2. PageLater(s) # {}
        BY <2>2 DEF PagePosts
      <4>. QED
        BY <4>1, <4>2
    <3>2. PICK x \in T : \A y \in T : x <= y
      BY <3>1, LeastNumber
    <3>3. PICK p \in PageLater(s) : p.seq = x
      BY <3>2
    <3>4. p \in PagePosts(s)
      BY <3>2, <3>3 DEF PagePosts
    <3>5. \A q \in PagePosts(s) : q.seq = p.seq
      BY <1>5, <3>4 DEF PagePosts
    <3>6. Max({q.seq : q \in PagePosts(s)}) = p.seq
      BY <1>5, <3>4, <3>5, OnlyNumber
    <3>. QED
      BY <1>5, <2>2, <3>4, <3>6 DEF PageEnd
  <2>. QED
    BY <2>1, <2>2
<1>. QED
  BY <1>3, <1>6, <1>7

LEMMA RoomReadKeeps ==
    ASSUME RoomsInv, NEW s \in RoomSessions, RoomRead(s)
    PROVE  RoomsInv'
<1>. DEFINE from == PageFrom(s)
            page == {p.seq : p \in PagePosts(s)}
            end == PageEnd(s)
            range == {q \in 1 .. room.head : q > from /\ q <= end}
            outside == {p.seq : p \in {x \in PagePosts(s) : x.members \cap CallerMemberships(s) = {}}}
            h == [after |-> end, begun |-> IF from = heard[s].after THEN heard[s].begun ELSE from,
                  got |-> heard[s].got \cup page, gaps |-> heard[s].gaps \cup (range \ page),
                  outside |-> heard[s].outside \cup outside]
<1>1. heard' = [heard EXCEPT ![s] = h] /\ CurrentStarts(s) # {} /\ UNCHANGED <<room, due>>
  BY DEF RoomRead, PageFrom, PageStart, PageEnd, PagePosts, PageLater
<1>2. from \in Nat /\ end \in Nat /\ end <= room.head /\ outside = {} /\ room.head \in Nat
  BY <1>1, PageIsSound DEF RoomsInv, RoomShapes
<1>. HIDE DEF from, page, end, outside
<1>3. /\ h.after = end /\ h.begun = (IF from = heard[s].after THEN heard[s].begun ELSE from)
      /\ h.got = heard[s].got \cup page /\ h.gaps = heard[s].gaps \cup (range \ page)
      /\ h.outside = heard[s].outside /\ HeardShape(h)
  BY <1>2 DEF HeardShape
<1>. HIDE DEF h
<1>4. h.begun \in Nat /\ heard[s].after \in Nat /\ heard[s].begun \in Nat
  BY <1>2, <1>3 DEF RoomsInv, RoomShapes
<1>5. /\ heard' = [x \in RoomSessions |-> heard'[x]] /\ heard'[s] = h
      /\ \A x \in RoomSessions : x # s => heard'[x] = heard[x]
  BY <1>1 DEF RoomsInv, RoomShapes
<1>6. RoomShapes'
  BY <1>1, <1>2, <1>3, <1>4, <1>5 DEF RoomsInv, RoomShapes
<1>7. MembersSeeTheirs' /\ AcceptedOnRecord' /\ PostedOnce'
  BY <1>1 DEF RoomsInv, MembersSeeTheirs, Current, AcceptedOnRecord, PostedOnce
<1>8. ASSUME NEW q \in 1 .. h.after, q > h.begun PROVE q \in h.got \cup h.gaps
  <2>1. CASE q > from
    <3>1. q \in range
      BY <1>2, <1>3, <2>1
    <3>. QED
      BY <1>3, <3>1
  <2>2. CASE ~(q > from)
    <3>1. from = heard[s].after /\ q \in 1 .. heard[s].after /\ q > heard[s].begun
      BY <1>2, <1>3, <1>4, <1>8, <2>2
    <3>2. q \in heard[s].got \cup heard[s].gaps
      BY <3>1 DEF RoomsInv, RoomReadHonest
    <3>. QED
      BY <1>3, <3>2
  <2>. QED
    BY <2>1, <2>2
<1>9. RoomReadHonest'
  BY <1>3, <1>5, <1>8 DEF RoomsInv, RoomReadHonest
<1>. QED
  BY <1>6, <1>7, <1>9 DEF RoomsInv

\* What the reader of a room and the sender of a post may rely on (RoomRead, RoomPost), for any
\* number of sessions, posts and members: pages leave nothing out unnamed and show no post of a
\* time when the reader was not a member, and a repeated post is posted once.
THEOREM RoomsSoundThm == RoomsSpec => []RoomsSound
<1>1. RoomsInv /\ [RoomsNext]_roomVars => RoomsInv'
  <2>. SUFFICES ASSUME RoomsInv, [RoomsNext]_roomVars PROVE RoomsInv'
    OBVIOUS
  <2>1. ASSUME UNCHANGED <<room, heard>>, due \subseteq due' PROVE RoomsInv'
    <3>1. RoomShapes'
      BY <2>1 DEF RoomsInv, RoomShapes
    <3>2. MembersSeeTheirs' /\ AcceptedOnRecord' /\ PostedOnce' /\ RoomReadHonest'
      BY <2>1 DEF RoomsInv, MembersSeeTheirs, Current, AcceptedOnRecord, PostedOnce, RoomReadHonest
    <3>. QED
      BY <3>1, <3>2 DEF RoomsInv
  <2>2. ASSUME \/ UNCHANGED roomVars
               \/ \E s \in RoomSessions : SessionChanges(s) \/ HolderMoves(s)
               \/ HolderMoves("none")
               \/ \E k \in PostKeys : DeadlinePasses(k)
        PROVE  RoomsInv'
    BY <2>1, <2>2 DEF roomVars, SessionChanges, HolderMoves, DeadlinePasses
  <2>. QED
    BY <2>2, RosterStepsKeep, RoomPostKeeps, RetentionStepsKeep, RoomReadKeeps DEF RoomsNext
<1>2. RoomsInv => RoomsSound
  BY DEF RoomsInv, RoomsSound
<1>. QED
  BY <1>1, <1>2, RoomsInitInv, PTL DEF RoomsSpec

-----------------------------------------------------------------------------
(* The decision archive *)

Verdicts == [revision : Nat, verdict : {"approved", "declined", "feedback", "acknowledged"}, over : BOOLEAN,
             sent : {"queued", "skipped", "acknowledged"}]
Marks == [revision : Nat, offset : Nat]
RowsForm(r) ==
    r = [state |-> r.state, revision |-> r.revision, verdicts |-> r.verdicts, withdrawn |-> r.withdrawn,
         aged |-> r.aged, mark |-> r.mark]
RowsShape(r) ==
    /\ RowsForm(r)
    /\ r.revision \in Nat /\ r.verdicts \in Seq(Verdicts) /\ r.mark \in Marks

\* The rows of an item; only an archived item is marked for a move, at the revision it has.
ItemShape(r) ==
    /\ RowsShape(r)
    /\ r.state \in {"active", "in_progress", "returned", "archived"}
    /\ r.mark # NoMark => /\ r.state = "archived" /\ r.mark.revision = r.revision
                          /\ r.mark.offset # 0 /\ r.mark.offset <= Len(lines) + 1

LineShape(l) == l.id \in Items => RowsShape(l.rows) /\ l.rows.mark = NoMark /\ l.revision = l.rows.revision

SweepShape ==
    sweep = [at |-> sweep.at, left |-> sweep.left, offset |-> sweep.offset, mark |-> sweep.mark, rows |-> sweep.rows]

IsLog(s) == s \in Seq({s[o] : o \in DOMAIN s})
OnItems(f) == f = [i \in Items |-> f[i]]

BoardShapes ==
    /\ OnItems(items) /\ OnItems(deep) /\ OnItems(removed)
    /\ \A i \in Items : Exists(i) => ItemShape(items[i])
    /\ \A i \in Items : deep[i] \in Nat
    /\ IsLog(lines) /\ DOMAIN lines = 1 .. Len(lines) /\ Len(lines) \in Nat
    /\ \A o \in DOMAIN lines : LineShape(lines[o])
    /\ \A r \in restores : r.id \in Items /\ RowsShape(r.rows) /\ r.rows.mark = NoMark
    /\ SweepShape

\* A line that a mark names, with its item and revision, holds the item's history as it still is.
MarkedLineIsCurrent ==
    \A i \in Items : (Exists(i) /\ items[i].mark # NoMark /\ items[i].mark.offset \in DOMAIN lines) =>
        LET line == lines[items[i].mark.offset] IN
        line.id = i /\ line.revision = items[i].mark.revision => History(line.rows) = History(items[i])

\* The sweep holds the end of the log until it appends, what it appends is current as long as
\* the item's mark stands, and what it is about to delete has its line.
SweepAtEnd == sweep.at \in {"mark", "read", "append", "remark"} => sweep.offset = Len(lines) + 1
SweepMark == sweep.at = "remark" => sweep.mark # NoMark
SweepRows ==
    sweep.at = "append" /\ SweepItem \in Items =>
        /\ RowsShape(sweep.rows) /\ sweep.rows.mark = NoMark
        /\ (/\ Exists(SweepItem) /\ items[SweepItem].mark # NoMark /\ items[SweepItem].mark.offset = sweep.offset
            /\ items[SweepItem].mark.revision = sweep.rows.revision) => History(sweep.rows) = History(items[SweepItem])
SweepLine ==
    sweep.at = "delete" /\ SweepItem \in Items =>
        /\ sweep.offset \in DOMAIN lines /\ lines[sweep.offset].id = SweepItem
        /\ lines[sweep.offset].revision = sweep.rows.revision

\* A locator names a line of the log.
LocatorsLead == \A i \in Items : deep[i] # 0 => deep[i] \in DOMAIN lines

MoveInv ==
    /\ BoardShapes /\ MarkedLineIsCurrent /\ SweepAtEnd /\ SweepMark /\ SweepRows /\ SweepLine /\ LocatorsLead
    /\ MovedItemIsKept

\* The pages of an export so far: the moved items up to a reference, then the live ones.
Given ==
    CASE export.phase = "" -> {}
      [] export.phase = "deep" -> {i \in Items : deep[i] # 0 /\ i <= export.after}
      [] export.phase = "live" -> {i \in Items : deep[i] # 0 \/ (Exists(i) /\ i <= export.after)}
      [] export.phase = "done" -> {i \in Items : Exists(i) \/ deep[i] # 0}

ExportShape(e) == e = [phase |-> e.phase, after |-> e.after, got |-> e.got]

ExportInv ==
    /\ ExportShape(export)
    /\ export.phase \in {"", "deep", "live", "done"} /\ export.after \in Nat /\ export.got \in Seq(Items)
    /\ export.phase = "" => export = NoExport
    /\ {export.got[k] : k \in DOMAIN export.got} = Given
    /\ Len(export.got) = Cardinality(Given)

DecisionsInv == MoveInv /\ ExportInv

LEMMA NothingGiven == {<<>>[k] : k \in DOMAIN <<>>} = {} /\ Len(<<>>) = Cardinality({}) /\ <<>> \in Seq(Items)
<1>1. Cardinality({}) = 0
  BY FS_EmptySet
<1>. QED
  BY <1>1

LEMMA DecisionsInitInv == DecisionsInit => DecisionsInv
<1>. SUFFICES ASSUME DecisionsInit PROVE DecisionsInv
  OBVIOUS
<1>1. \A i \in Items : ~Exists(i) /\ deep[i] = 0
  BY DEF DecisionsInit, Exists
<1>2. SweepShape /\ sweep.at = "idle"
  BY DEF DecisionsInit, SweepIdle, SweepShape
<1>3. lines = <<>> /\ restores = {} /\ DOMAIN lines = {} /\ Len(lines) = 0
  BY DEF DecisionsInit
<1>4. BoardShapes
  BY <1>1, <1>2, <1>3 DEF DecisionsInit, BoardShapes, OnItems, IsLog
<1>5. MarkedLineIsCurrent /\ SweepAtEnd /\ SweepMark /\ SweepRows /\ SweepLine /\ LocatorsLead /\ MovedItemIsKept
  BY <1>1, <1>2 DEF MarkedLineIsCurrent, SweepAtEnd, SweepMark, SweepRows, SweepLine, LocatorsLead, MovedItemIsKept
<1>6. /\ export = NoExport /\ export.phase = "" /\ export.after = 0 /\ export.got = <<>>
      /\ ExportShape(export)
  BY DEF DecisionsInit, NoExport, ExportShape
<1>7. ExportInv
  <2>1. Given = {}
    BY <1>6 DEF Given
  <2>2. {export.got[k] : k \in DOMAIN export.got} = Given /\ Len(export.got) = Cardinality(Given) /\ export.got \in Seq(Items)
    BY <1>6, <2>1, NothingGiven, Zenon
  <2>3. export.phase \in {"", "deep", "live", "done"} /\ export.after \in Nat
    BY DEF DecisionsInit, NoExport
  <2>. QED
    BY <1>6, <2>2, <2>3 DEF ExportInv
<1>. QED
  BY <1>4, <1>5, <1>7 DEF DecisionsInv, MoveInv

\* Rows that changed without a change of history keep their mark.
SameHistory(a, r) ==
    a # NoRows /\ r.mark = a.mark /\ r.revision = a.revision /\ r.state = a.state /\ History(r) = History(a)

\* An operation of the board, between the steps of the sweep: an item that changed has lost its
\* mark, or has the history it had.
LEMMA BoardKeeps ==
    ASSUME MoveInv, OnItems(items'), OnItems(deep'),
           UNCHANGED <<lines, sweep, removed>>,
           \A i \in Items : \/ items'[i] = items[i]
                            \/ /\ ItemShape(items'[i]) /\ deep'[i] = 0
                               /\ items'[i].mark = NoMark \/ SameHistory(items[i], items'[i]),
           \A i \in Items : deep'[i] = deep[i] \/ deep'[i] = 0,
           \A r \in restores' : r.id \in Items /\ RowsShape(r.rows) /\ r.rows.mark = NoMark
    PROVE  MoveInv'
<1>1. \A i \in Items : Exists(i)' => ItemShape(items[i])'
  <2>1. \A i \in Items : Exists(i)' => ItemShape(items'[i])
    BY DEF MoveInv, BoardShapes, Exists
  <2>. QED
    BY <2>1 DEF ItemShape
<1>2. BoardShapes'
  <2>1. SweepShape' /\ \A o \in DOMAIN lines' : LineShape(lines'[o])
    BY DEF MoveInv, BoardShapes, SweepShape
  <2>2. \A i \in Items : deep'[i] \in Nat
    BY DEF MoveInv, BoardShapes
  <2>. QED
    BY <1>1, <2>1, <2>2 DEF MoveInv, BoardShapes, LineShape
<1>3. MarkedLineIsCurrent'
  <2>. SUFFICES ASSUME NEW i \in Items, Exists(i)', items'[i].mark # NoMark, items'[i].mark.offset \in DOMAIN lines,
                       lines[items'[i].mark.offset].id = i,
                       lines[items'[i].mark.offset].revision = items'[i].mark.revision
                PROVE  History(lines[items'[i].mark.offset].rows) = History(items'[i])
    BY DEF MarkedLineIsCurrent
  <2>1. /\ Exists(i) /\ items'[i].mark = items[i].mark /\ History(items'[i]) = History(items[i])
    BY DEF SameHistory, Exists
  <2>. QED
    BY <2>1 DEF MoveInv, MarkedLineIsCurrent
<1>4. SweepAtEnd' /\ SweepMark' /\ SweepLine'
  BY DEF MoveInv, SweepAtEnd, SweepMark, SweepLine, SweepItem
<1>5. SweepRows'
  <2>. SUFFICES ASSUME sweep.at = "append", SweepItem \in Items
                PROVE  /\ RowsShape(sweep.rows) /\ sweep.rows.mark = NoMark
                       /\ (/\ Exists(SweepItem)' /\ items'[SweepItem].mark # NoMark
                           /\ items'[SweepItem].mark.offset = sweep.offset
                           /\ items'[SweepItem].mark.revision = sweep.rows.revision) =>
                                History(sweep.rows) = History(items'[SweepItem])
    BY DEF SweepRows, SweepItem, Exists
  <2>1. RowsShape(sweep.rows) /\ sweep.rows.mark = NoMark
    BY DEF MoveInv, SweepRows
  <2>2. ASSUME items'[SweepItem] # NoRows, items'[SweepItem].mark # NoMark,
               items'[SweepItem].mark.offset = sweep.offset,
               items'[SweepItem].mark.revision = sweep.rows.revision
        PROVE  History(sweep.rows) = History(items'[SweepItem])
    <3>1. /\ Exists(SweepItem) /\ items'[SweepItem].mark = items[SweepItem].mark
          /\ History(items'[SweepItem]) = History(items[SweepItem])
      BY <2>2 DEF SameHistory, Exists
    <3>. QED
      BY <2>2, <3>1 DEF MoveInv, SweepRows
  <2>. QED
    BY <2>1, <2>2 DEF SweepItem, Exists
<1>6. LocatorsLead' /\ MovedItemIsKept'
  BY DEF MoveInv, LocatorsLead, MovedItemIsKept, Exists, ReadDecisionLine
<1>. QED
  BY <1>2, <1>3, <1>4, <1>5, <1>6 DEF MoveInv

LEMMA OneItemKeeps ==
    ASSUME MoveInv, NEW i \in Items, NEW r, items' = [items EXCEPT ![i] = r], deep[i] = 0,
           UNCHANGED <<deep, lines, sweep, removed, restores>>,
           ItemShape(r), r.mark = NoMark \/ SameHistory(items[i], r)
    PROVE  MoveInv'
<1>1. /\ OnItems(items') /\ items'[i] = r
      /\ \A x \in Items : x # i => items'[x] = items[x]
  BY DEF MoveInv, BoardShapes, OnItems
<1>2. /\ OnItems(deep')
      /\ \A x \in restores' : x.id \in Items /\ RowsShape(x.rows) /\ x.rows.mark = NoMark
  BY DEF MoveInv, BoardShapes
<1>. QED
  BY <1>1, <1>2, BoardKeeps

LEMMA ExportKeeps ==
    ASSUME ExportInv, \A i \in Items : Exists(i)' <=> Exists(i), \A i \in Items : deep'[i] # 0 <=> deep[i] # 0,
           UNCHANGED export
    PROVE  ExportInv'
<1>1. /\ {i \in Items : deep[i] # 0 /\ i <= export.after}' = {i \in Items : deep[i] # 0 /\ i <= export.after}
      /\ {i \in Items : deep[i] # 0 \/ (Exists(i) /\ i <= export.after)}'
            = {i \in Items : deep[i] # 0 \/ (Exists(i) /\ i <= export.after)}
      /\ {i \in Items : Exists(i) \/ deep[i] # 0}' = {i \in Items : Exists(i) \/ deep[i] # 0}
  OBVIOUS
<1>2. Given' = Given
  BY <1>1 DEF Given
<1>. QED
  BY <1>2 DEF ExportInv

LEMMA ExportAgain ==
    ASSUME BumpChange
    PROVE  ExportInv'
<1>1. /\ export' = NoExport /\ export'.phase = "" /\ export'.after = 0 /\ export'.got = <<>>
      /\ ExportShape(export')
  BY DEF BumpChange, NoExport, ExportShape
<1>2. Given' = {}
  BY <1>1 DEF Given
<1>3. /\ {export'.got[k] : k \in DOMAIN export'.got} = Given' /\ Len(export'.got) = Cardinality(Given')
      /\ export'.got \in Seq(Items)
  BY <1>1, <1>2, NothingGiven, Zenon
<1>4. export'.phase \in {"", "deep", "live", "done"} /\ export'.after \in Nat
  BY DEF BumpChange, NoExport
<1>. QED
  BY <1>1, <1>3, <1>4 DEF ExportInv

LEMMA SupersededVerdicts ==
    ASSUME NEW v \in Seq(Verdicts)
    PROVE  Superseded(v) \in Seq(Verdicts)
<1>1. \A k \in DOMAIN v : v[k] \in Verdicts
  OBVIOUS
<1>2. \A x \in Verdicts : [x EXCEPT !.over = TRUE] \in Verdicts
  BY DEF Verdicts
<1>3. DOMAIN v = 1 .. Len(v) /\ Len(v) \in Nat
  OBVIOUS
<1>4. Superseded(v) \in [1 .. Len(v) -> Verdicts]
  BY <1>1, <1>2, <1>3 DEF Superseded
<1>. QED
  BY <1>3, <1>4

LEMMA NoMarkShape == NoMark \in Marks
BY DEF NoMark, Marks

\* Only an archived item is marked.
LEMMA RowsAreShaped ==
    ASSUME MoveInv, NEW i \in Items, Exists(i)
    PROVE  /\ deep[i] = 0 /\ ItemShape(items[i]) /\ RowsShape(items[i])
           /\ items[i].state # "archived" => items[i].mark = NoMark
BY DEF MoveInv, MovedItemIsKept, BoardShapes, ItemShape

\* The operations that leave an item without a mark.
LEMMA UnmarkedKeeps ==
    ASSUME MoveInv, NEW i \in Items, NEW r, SetItem(i, r), deep[i] = 0, BumpChange,
           UNCHANGED <<deep, lines, sweep, removed, restores>>,
           RowsShape(r), r.mark = NoMark, r.state \in {"active", "in_progress", "returned", "archived"}
    PROVE  DecisionsInv'
<1>1. MoveInv'
  BY OneItemKeeps DEF ItemShape, SetItem
<1>. QED
  BY <1>1, ExportAgain DEF DecisionsInv

LEMMA CreateKeeps ==
    ASSUME DecisionsInv, NEW i \in Items, DecisionCreate(i)
    PROVE  DecisionsInv'
<1>. DEFINE r == [state |-> "active", revision |-> 1, verdicts |-> <<>>, withdrawn |-> "no", aged |-> FALSE,
                  mark |-> NoMark]
<1>1. RowsShape(r) /\ r.mark = NoMark /\ r.state = "active"
  BY NoMarkShape DEF RowsShape, RowsForm
<1>2. SetItem(i, r) /\ deep[i] = 0 /\ BumpChange /\ UNCHANGED <<deep, lines, sweep, removed, restores>>
  BY DEF DecisionCreate
<1>. HIDE DEF r
<1>. QED
  BY <1>1, <1>2, UnmarkedKeeps DEF DecisionsInv

LEMMA EditKeeps ==
    ASSUME DecisionsInv, NEW i \in Items, DecisionEdit(i)
    PROVE  DecisionsInv'
<1>. DEFINE a == items[i]
            r == EditedRows(a)
<1>1. SetItem(i, r) /\ Exists(i) /\ BumpChange /\ UNCHANGED <<deep, lines, sweep, removed, restores>>
  BY DEF DecisionEdit
<1>2. RowsShape(a) /\ deep[i] = 0 /\ (a.state # "archived" => a.mark = NoMark)
  BY <1>1, RowsAreShaped DEF DecisionsInv
<1>. HIDE DEF a
<1>3. RowsShape(r) /\ r.mark = NoMark /\ r.state = "active"
  <2>1. CASE a.state = "active"
    BY <1>2, <2>1 DEF EditedRows, RowsShape, RowsForm
  <2>2. CASE a.state # "active"
    <3>1. PICK w : r = [a EXCEPT !.revision = @ + 1, !.state = "active", !.aged = FALSE, !.mark = NoMark,
                                 !.verdicts = Superseded(a.verdicts), !.withdrawn = w]
      BY <2>2 DEF EditedRows
    <3>2. Superseded(a.verdicts) \in Seq(Verdicts)
      BY <1>2, SupersededVerdicts DEF RowsShape
    <3>. QED
      <4>1. RowsForm(r) /\ r.revision = a.revision + 1 /\ r.verdicts = Superseded(a.verdicts) /\ r.mark = NoMark
            /\ r.state = "active"
        BY <1>2, <3>1 DEF RowsShape, RowsForm
      <4>. HIDE DEF r
      <4>. QED
        BY <1>2, <3>2, <4>1, NoMarkShape DEF RowsShape
  <2>. QED
    BY <2>1, <2>2
<1>. HIDE DEF r
<1>. QED
  BY <1>1, <1>2, <1>3, UnmarkedKeeps DEF DecisionsInv

LEMMA VerdictKeeps ==
    ASSUME DecisionsInv, NEW i \in Items, NEW v \in KindVerdicts(i), DecisionVerdict(i, v)
    PROVE  DecisionsInv'
<1>. DEFINE a == items[i]
<1>1. PICK sent \in DeliverVerdict :
        SetItem(i, [items[i] EXCEPT
            !.state = VerdictState(v), !.aged = FALSE, !.mark = NoMark,
            !.verdicts = Append(@, [revision |-> items[i].revision, verdict |-> v,
                                    over |-> FALSE, sent |-> sent])])
  BY DEF DecisionVerdict
<1>2. Exists(i) /\ BumpChange /\ UNCHANGED <<deep, lines, sweep, removed, restores>>
  BY DEF DecisionVerdict
<1>3. RowsShape(a) /\ deep[i] = 0
  BY <1>2, RowsAreShaped DEF DecisionsInv
<1>. DEFINE new == [revision |-> a.revision, verdict |-> v, over |-> FALSE, sent |-> sent]
            state == VerdictState(v)
            r == [a EXCEPT !.state = state, !.aged = FALSE, !.mark = NoMark, !.verdicts = Append(@, new)]
<1>4. SetItem(i, r)
  BY <1>1
<1>5. v \in {"approved", "declined", "feedback", "acknowledged"} /\ sent \in {"queued", "skipped"}
  BY DEF KindVerdicts, DeliverVerdict
<1>6. new \in Verdicts
  BY <1>3, <1>5 DEF Verdicts, RowsShape
<1>7. state \in {"in_progress", "returned", "archived"}
  BY DEF VerdictState
<1>. HIDE DEF a, new, state
<1>8. Append(a.verdicts, new) \in Seq(Verdicts)
  BY <1>3, <1>6 DEF RowsShape
<1>9. RowsShape(r) /\ r.mark = NoMark /\ r.state = state
  <2>0. r = [a EXCEPT !.state = state, !.aged = FALSE, !.mark = NoMark, !.verdicts = Append(@, new)]
    OBVIOUS
  <2>. HIDE DEF r
  <2>1. RowsForm(r) /\ r.revision = a.revision /\ r.verdicts = Append(a.verdicts, new) /\ r.mark = NoMark
        /\ r.state = state
    BY <1>3, <2>0 DEF RowsShape, RowsForm
  <2>. QED
    BY <1>3, <1>8, <2>1, NoMarkShape DEF RowsShape
<1>. HIDE DEF r
<1>. QED
  BY <1>2, <1>3, <1>4, <1>7, <1>9, UnmarkedKeeps DEF DecisionsInv

LEMMA CloseKeeps ==
    ASSUME DecisionsInv, NEW i \in Items, DecisionClose(i) \/ DecisionWithdraw(i) \/ ReopenWithdrawn(i)
    PROVE  DecisionsInv'
<1>. DEFINE a == items[i]
<1>1. /\ Exists(i) /\ BumpChange /\ UNCHANGED <<deep, lines, sweep, removed, restores>>
      /\ DecisionClose(i) \/ DecisionWithdraw(i) => a.state # "archived"
  BY DEF DecisionClose, DecisionWithdraw, ReopenWithdrawn
<1>2. RowsShape(a) /\ deep[i] = 0 /\ (a.state # "archived" => a.mark = NoMark)
  BY <1>1, RowsAreShaped DEF DecisionsInv
<1>3. CASE DecisionClose(i)
  <2>. DEFINE r == [a EXCEPT !.state = "archived", !.aged = FALSE]
  <2>1. SetItem(i, r)
    BY <1>3 DEF DecisionClose
  <2>. HIDE DEF a
  <2>2. RowsShape(r) /\ r.mark = NoMark /\ r.state = "archived"
    <3>0. r = [a EXCEPT !.state = "archived", !.aged = FALSE]
      OBVIOUS
    <3>. HIDE DEF r
    <3>1. RowsForm(r) /\ r.revision = a.revision /\ r.verdicts = a.verdicts /\ r.mark = a.mark /\ r.state = "archived"
      BY <1>2, <3>0 DEF RowsShape, RowsForm
    <3>. QED
      BY <1>1, <1>2, <1>3, <3>1 DEF RowsShape
  <2>. HIDE DEF r
  <2>. QED
    BY <1>1, <1>2, <2>1, <2>2, UnmarkedKeeps DEF DecisionsInv
<1>4. CASE DecisionWithdraw(i)
  <2>. DEFINE r == [a EXCEPT !.state = "archived", !.aged = FALSE, !.withdrawn = "open", !.verdicts = Superseded(@)]
  <2>1. SetItem(i, r)
    BY <1>4 DEF DecisionWithdraw
  <2>. HIDE DEF a
  <2>2. Superseded(a.verdicts) \in Seq(Verdicts)
    BY <1>2, SupersededVerdicts DEF RowsShape
  <2>3. RowsShape(r) /\ r.mark = NoMark /\ r.state = "archived"
    <3>0. r = [a EXCEPT !.state = "archived", !.aged = FALSE, !.withdrawn = "open", !.verdicts = Superseded(@)]
      OBVIOUS
    <3>. HIDE DEF r
    <3>1. RowsForm(r) /\ r.revision = a.revision /\ r.verdicts = Superseded(a.verdicts) /\ r.mark = a.mark
          /\ r.state = "archived"
      BY <1>2, <3>0 DEF RowsShape, RowsForm
    <3>. QED
      BY <1>1, <1>2, <1>4, <2>2, <3>1 DEF RowsShape
  <2>. HIDE DEF r
  <2>. QED
    BY <1>1, <1>2, <2>1, <2>3, UnmarkedKeeps DEF DecisionsInv
<1>5. CASE ReopenWithdrawn(i)
  <2>. DEFINE r == [a EXCEPT !.state = "active", !.aged = FALSE, !.mark = NoMark, !.revision = @ + 1,
                             !.withdrawn = "ended"]
  <2>1. SetItem(i, r)
    BY <1>5 DEF ReopenWithdrawn
  <2>. HIDE DEF a
  <2>2. RowsShape(r) /\ r.mark = NoMark /\ r.state = "active"
    <3>0. r = [a EXCEPT !.state = "active", !.aged = FALSE, !.mark = NoMark, !.revision = @ + 1, !.withdrawn = "ended"]
      OBVIOUS
    <3>. HIDE DEF r
    <3>1. RowsForm(r) /\ r.revision = a.revision + 1 /\ r.verdicts = a.verdicts /\ r.mark = NoMark /\ r.state = "active"
      BY <1>2, <3>0 DEF RowsShape, RowsForm
    <3>. QED
      BY <1>2, <3>1, NoMarkShape DEF RowsShape
  <2>. HIDE DEF r
  <2>. QED
    BY <1>1, <1>2, <2>1, <2>2, UnmarkedKeeps DEF DecisionsInv
<1>. QED
  BY <1>3, <1>4, <1>5

\* A delivery's outcome and the age of an item are not part of its history.
LEMMA HistoryFields ==
    ASSUME NEW a, NEW r, r.revision = a.revision, r.withdrawn = a.withdrawn, DOMAIN r.verdicts = DOMAIN a.verdicts,
           \A k \in DOMAIN a.verdicts : /\ r.verdicts[k].revision = a.verdicts[k].revision
                                        /\ r.verdicts[k].verdict = a.verdicts[k].verdict
                                        /\ r.verdicts[k].over = a.verdicts[k].over
    PROVE  History(r) = History(a)
<1>. DEFINE h(x) == [k \in DOMAIN x.verdicts |->
                        <<x.verdicts[k].revision, x.verdicts[k].verdict, x.verdicts[k].over>>]
<1>1. h(r) = h(a)
  OBVIOUS
<1>2. History(r) = [revision |-> r.revision, withdrawn |-> r.withdrawn, verdicts |-> h(r)]
  BY DEF History
<1>3. History(a) = [revision |-> a.revision, withdrawn |-> a.withdrawn, verdicts |-> h(a)]
  BY DEF History
<1>. HIDE DEF h
<1>. QED
  BY <1>1, <1>2, <1>3

LEMMA AckKeeps ==
    ASSUME DecisionsInv, NEW i \in Items, NEW k, DecisionAck(i, k)
    PROVE  DecisionsInv'
<1>. DEFINE a == items[i]
            v == [a.verdicts EXCEPT ![k] = [a.verdicts[k] EXCEPT !.sent = "acknowledged"]]
            r == [a EXCEPT !.verdicts = v]
<1>1. /\ Exists(i) /\ k \in DOMAIN a.verdicts /\ UNCHANGED <<deep, lines, sweep, removed, restores, export>>
      /\ SetItem(i, [items[i] EXCEPT !.verdicts[k].sent = "acknowledged"])
  BY DEF DecisionAck
<1>2. items' = [items EXCEPT ![i] = r]
  BY <1>1 DEF SetItem
<1>3. RowsShape(a) /\ ItemShape(a) /\ deep[i] = 0
  BY <1>1, RowsAreShaped DEF DecisionsInv
<1>4. OnItems(items)
  BY DEF DecisionsInv, MoveInv, BoardShapes
<1>. HIDE DEF a
<1>5. a.verdicts \in Seq(Verdicts) /\ a.verdicts[k] \in Verdicts
  BY <1>1, <1>3 DEF RowsShape
<1>6. /\ [a.verdicts[k] EXCEPT !.sent = "acknowledged"] \in Verdicts
      /\ [a.verdicts[k] EXCEPT !.sent = "acknowledged"].revision = a.verdicts[k].revision
      /\ [a.verdicts[k] EXCEPT !.sent = "acknowledged"].verdict = a.verdicts[k].verdict
      /\ [a.verdicts[k] EXCEPT !.sent = "acknowledged"].over = a.verdicts[k].over
  <2>. DEFINE x == a.verdicts[k]
  <2>1. x \in Verdicts
    BY <1>5
  <2>. HIDE DEF x
  <2>2. /\ [x EXCEPT !.sent = "acknowledged"] \in Verdicts
        /\ [x EXCEPT !.sent = "acknowledged"].revision = x.revision
        /\ [x EXCEPT !.sent = "acknowledged"].verdict = x.verdict
        /\ [x EXCEPT !.sent = "acknowledged"].over = x.over
    BY <2>1 DEF Verdicts
  <2>. QED
    BY <2>2 DEF x
<1>7. v \in Seq(Verdicts) /\ DOMAIN v = DOMAIN a.verdicts
  BY <1>1, <1>5, <1>6
<1>8. \A j \in DOMAIN a.verdicts : /\ v[j].revision = a.verdicts[j].revision
                                   /\ v[j].verdict = a.verdicts[j].verdict
                                   /\ v[j].over = a.verdicts[j].over
  BY <1>1, <1>5, <1>6
<1>. HIDE DEF v
<1>9. r = [a EXCEPT !.verdicts = v]
  OBVIOUS
<1>. HIDE DEF r
<1>10. /\ RowsForm(r) /\ r.state = a.state /\ r.revision = a.revision /\ r.verdicts = v /\ r.withdrawn = a.withdrawn
       /\ r.mark = a.mark
  BY <1>3, <1>9 DEF RowsShape, RowsForm
<1>11. ItemShape(r)
  BY <1>3, <1>7, <1>10 DEF ItemShape, RowsShape
<1>12. SameHistory(a, r)
  BY <1>1, <1>7, <1>8, <1>10, HistoryFields DEF SameHistory, Exists, a
<1>13. MoveInv'
  BY <1>1, <1>2, <1>3, <1>11, <1>12, OneItemKeeps DEF DecisionsInv, a
<1>14. \A j \in Items : Exists(j)' <=> Exists(j)
  <2>1. r # NoRows
    <3>1. r.state # "none" /\ NoRows.state = "none"
      BY <1>11 DEF ItemShape, NoRows
    <3>. QED
      BY <3>1
  <2>. QED
    BY <1>1, <1>2, <1>4, <2>1 DEF Exists, OnItems
<1>. QED
  BY <1>1, <1>13, <1>14, ExportKeeps DEF DecisionsInv

LEMMA AgeKeeps ==
    ASSUME DecisionsInv, DecisionsAge
    PROVE  DecisionsInv'
<1>1. /\ items' = [i \in Items |-> IF Exists(i) /\ items[i].state = "archived"
                                   THEN [items[i] EXCEPT !.aged = TRUE] ELSE items[i]]
      /\ UNCHANGED <<deep, lines, sweep, restores, export, removed>>
  BY DEF DecisionsAge
<1>2. ASSUME NEW i \in Items, items'[i] # items[i]
      PROVE  /\ ItemShape(items'[i]) /\ deep'[i] = 0 /\ SameHistory(items[i], items'[i])
             /\ Exists(i) /\ Exists(i)'
  <2>. DEFINE a == items[i]
              r == items'[i]
  <2>1. r = [a EXCEPT !.aged = TRUE] /\ Exists(i)
    BY <1>1, <1>2
  <2>2. RowsShape(a) /\ ItemShape(a) /\ deep[i] = 0 /\ a # NoRows
    BY <2>1, RowsAreShaped DEF DecisionsInv, Exists
  <2>. HIDE DEF a, r
  <2>3. /\ RowsForm(r) /\ r.state = a.state /\ r.revision = a.revision /\ r.verdicts = a.verdicts
        /\ r.withdrawn = a.withdrawn /\ r.mark = a.mark
    BY <2>1, <2>2 DEF RowsShape, RowsForm
  <2>4. ItemShape(r)
    BY <2>2, <2>3 DEF ItemShape, RowsShape
  <2>5. SameHistory(a, r)
    BY <2>2, <2>3, HistoryFields DEF SameHistory
  <2>6. r # NoRows
    <3>1. r.state # "none" /\ NoRows.state = "none"
      BY <2>4 DEF ItemShape, NoRows
    <3>. QED
      BY <3>1
  <2>. QED
    BY <1>1, <2>1, <2>2, <2>4, <2>5, <2>6 DEF a, r, Exists
<1>3. OnItems(items') /\ OnItems(deep')
  BY <1>1 DEF DecisionsInv, MoveInv, BoardShapes, OnItems
<1>4. MoveInv'
  <2>1. \A r \in restores' : r.id \in Items /\ RowsShape(r.rows) /\ r.rows.mark = NoMark
    BY <1>1 DEF DecisionsInv, MoveInv, BoardShapes
  <2>2. UNCHANGED <<deep, lines, sweep, removed>>
    BY <1>1
  <2>3. \A i \in Items : \/ items'[i] = items[i]
                         \/ /\ ItemShape(items'[i]) /\ deep'[i] = 0
                            /\ items'[i].mark = NoMark \/ SameHistory(items[i], items'[i])
    BY <1>2
  <2>. QED
    BY <1>3, <2>1, <2>2, <2>3, BoardKeeps DEF DecisionsInv
<1>5. \A j \in Items : Exists(j)' <=> Exists(j)
  BY <1>2 DEF Exists
<1>. QED
  BY <1>1, <1>4, <1>5, ExportKeeps DEF DecisionsInv

LEMMA RestoreReadKeeps ==
    ASSUME DecisionsInv, NEW i \in Items, RestoreRead(i)
    PROVE  DecisionsInv'
<1>. DEFINE line == ReadDecisionLine(deep[i])
<1>1. PICK c : restores' = restores \cup {[call |-> c, id |-> i, offset |-> deep[i], rows |-> line.rows]}
  BY DEF RestoreRead
<1>2. deep[i] # 0 /\ line.id = i /\ UNCHANGED <<items, deep, lines, sweep, export, removed>>
  BY DEF RestoreRead
<1>3. RowsShape(line.rows) /\ line.rows.mark = NoMark
  BY <1>2 DEF DecisionsInv, MoveInv, LocatorsLead, BoardShapes, LineShape, ReadDecisionLine
<1>. HIDE DEF line
<1>4. \A r \in restores' : r.id \in Items /\ RowsShape(r.rows) /\ r.rows.mark = NoMark
  BY <1>1, <1>3 DEF DecisionsInv, MoveInv, BoardShapes
<1>5. MoveInv'
  <2>1. OnItems(items') /\ OnItems(deep')
    BY <1>2 DEF DecisionsInv, MoveInv, BoardShapes
  <2>. QED
    BY <1>2, <1>4, <2>1, BoardKeeps DEF DecisionsInv
<1>6. \A j \in Items : Exists(j)' <=> Exists(j)
  BY <1>2 DEF Exists
<1>. QED
  BY <1>2, <1>5, <1>6, ExportKeeps DEF DecisionsInv

LEMMA RestoreKeeps ==
    ASSUME DecisionsInv, NEW r \in restores, DecisionRestore(r)
    PROVE  DecisionsInv'
<1>1. /\ r.id \in Items /\ RowsShape(r.rows) /\ r.rows.mark = NoMark /\ OnItems(items) /\ OnItems(deep)
      /\ UNCHANGED <<lines, sweep, removed>>
      /\ \A x \in restores' : x.id \in Items /\ RowsShape(x.rows) /\ x.rows.mark = NoMark
  BY DEF DecisionsInv, MoveInv, BoardShapes, DecisionRestore
<1>2. CASE SameLocator(r)
  <2>. DEFINE a == r.rows
              b == [a EXCEPT !.state = "archived"]
  <2>1. /\ deep' = [deep EXCEPT ![r.id] = 0] /\ items' = [items EXCEPT ![r.id] = b] /\ BumpChange
    BY <1>2 DEF DecisionRestore, SetItem
  <2>2. RowsShape(a) /\ a.mark = NoMark
    BY <1>1
  <2>. HIDE DEF a
  <2>3. b = [a EXCEPT !.state = "archived"]
    OBVIOUS
  <2>. HIDE DEF b
  <2>4. /\ RowsForm(b) /\ b.state = "archived" /\ b.revision = a.revision /\ b.verdicts = a.verdicts /\ b.mark = NoMark
    BY <2>2, <2>3 DEF RowsShape, RowsForm
  <2>5. ItemShape(b)
    BY <2>2, <2>4 DEF ItemShape, RowsShape
  <2>6. /\ OnItems(items') /\ OnItems(deep') /\ items'[r.id] = b /\ deep'[r.id] = 0
        /\ \A x \in Items : x # r.id => items'[x] = items[x] /\ deep'[x] = deep[x]
    BY <1>1, <2>1 DEF OnItems
  <2>7. MoveInv'
    BY <1>1, <2>4, <2>5, <2>6, BoardKeeps DEF DecisionsInv
  <2>. QED
    BY <2>1, <2>7, ExportAgain DEF DecisionsInv
<1>3. CASE ~SameLocator(r)
  <2>1. UNCHANGED <<items, deep, export>>
    BY <1>3 DEF DecisionRestore
  <2>2. MoveInv'
    BY <1>1, <2>1, BoardKeeps DEF DecisionsInv
  <2>3. \A j \in Items : Exists(j)' <=> Exists(j)
    BY <2>1 DEF Exists
  <2>. QED
    BY <2>1, <2>2, <2>3, ExportKeeps DEF DecisionsInv
<1>. QED
  BY <1>2, <1>3

\* Steps of the sweep that only read.
LEMMA SweepReads ==
    ASSUME DecisionsInv, UNCHANGED <<items, deep, lines, removed, restores, export>>,
           SweepShape', SweepAtEnd', SweepMark', SweepRows', SweepLine'
    PROVE  DecisionsInv'
<1>1. BoardShapes'
  <2>1. \A i \in Items : Exists(i)' => ItemShape(items[i])'
    BY DEF DecisionsInv, MoveInv, BoardShapes, ItemShape, Exists
  <2>. QED
    BY <2>1 DEF DecisionsInv, MoveInv, BoardShapes, LineShape
<1>2. MarkedLineIsCurrent' /\ LocatorsLead' /\ MovedItemIsKept'
  BY DEF DecisionsInv, MoveInv, MarkedLineIsCurrent, LocatorsLead, MovedItemIsKept, Exists, ReadDecisionLine
<1>3. \A j \in Items : Exists(j)' <=> Exists(j)
  BY DEF Exists
<1>. QED
  BY <1>1, <1>2, <1>3, ExportKeeps DEF DecisionsInv, MoveInv

\* Between two items the sweep holds nothing.
LEMMA SweepWaits ==
    ASSUME SweepShape', sweep'.at \in {"idle", "move", "finish"}
    PROVE  SweepAtEnd' /\ SweepMark' /\ SweepRows' /\ SweepLine'
BY DEF SweepAtEnd, SweepMark, SweepRows, SweepLine

LEMMA SweepOnWaits ==
    ASSUME NEW stage \in {"move", "finish"}, SweepOn(stage)
    PROVE  SweepShape' /\ SweepAtEnd' /\ SweepMark' /\ SweepRows' /\ SweepLine'
<1>1. SweepShape' /\ sweep'.at = stage
  BY DEF SweepOn, SweepIdle, SweepShape
<1>. QED
  BY <1>1, SweepWaits

LEMMA StageIsLoop == StageOf \in {"move", "finish"}
BY DEF StageOf

LEMMA SweepLoopKeeps ==
    ASSUME DecisionsInv, ArchiveStart \/ ArchiveCandidates \/ ArchiveEnd \/ SweepRefused
    PROVE  DecisionsInv'
<1>1. UNCHANGED <<items, deep, lines, removed, restores, export>>
  BY DEF ArchiveStart, ArchiveCandidates, ArchiveEnd, SweepRefused
<1>2. SweepShape' /\ SweepAtEnd' /\ SweepMark' /\ SweepRows' /\ SweepLine'
  <2>1. CASE ArchiveStart
    <3>1. SweepShape' /\ sweep'.at = "finish"
      BY <2>1 DEF ArchiveStart, SweepIdle, SweepShape
    <3>. QED
      BY <3>1, SweepWaits
  <2>2. CASE ArchiveCandidates
    <3>1. SweepShape' /\ sweep'.at = "move"
      BY <2>2 DEF ArchiveCandidates, SweepIdle, SweepShape
    <3>. QED
      BY <3>1, SweepWaits
  <2>3. CASE ArchiveEnd
    <3>1. SweepShape' /\ sweep'.at = "idle"
      BY <2>3 DEF ArchiveEnd, SweepIdle, SweepShape
    <3>. QED
      BY <3>1, SweepWaits
  <2>4. CASE SweepRefused
    BY <2>4, StageIsLoop, SweepOnWaits DEF SweepRefused
  <2>. QED
    BY <2>1, <2>2, <2>3, <2>4
<1>. QED
  BY <1>1, <1>2, SweepReads

LEMMA PickKeeps ==
    ASSUME DecisionsInv, ArchivePick
    PROVE  DecisionsInv'
<1>1. UNCHANGED <<items, deep, lines, removed, restores, export>>
  BY DEF ArchivePick
<1>2. CASE SweepOn("move")
  BY <1>1, <1>2, SweepOnWaits, SweepReads
<1>3. CASE sweep' = [sweep EXCEPT !.at = "mark", !.offset = OpenDecisionLog]
  <2>1. SweepShape
    BY DEF DecisionsInv, MoveInv, BoardShapes
  <2>2. SweepShape' /\ sweep'.at = "mark" /\ sweep'.offset = Len(lines) + 1
    BY <1>3, <2>1 DEF SweepShape, OpenDecisionLog
  <2>3. SweepAtEnd' /\ SweepMark' /\ SweepRows' /\ SweepLine'
    BY <1>1, <2>2 DEF SweepAtEnd, SweepMark, SweepRows, SweepLine
  <2>. QED
    BY <1>1, <2>2, <2>3, SweepReads
<1>. QED
  BY <1>2, <1>3 DEF ArchivePick

LEMMA ArchiveReadKeeps ==
    ASSUME DecisionsInv, ArchiveRead
    PROVE  DecisionsInv'
<1>. DEFINE a == items[SweepItem]
            r == ReadDecisionRecord(SweepItem)
<1>1. /\ UNCHANGED <<items, deep, lines, removed, restores, export>>
      /\ sweep' = [sweep EXCEPT !.at = "append", !.rows = r] /\ sweep.at = "read" /\ Exists(SweepItem)
  BY DEF ArchiveRead
<1>2. SweepShape
  BY DEF DecisionsInv, MoveInv, BoardShapes
<1>3. r = [a EXCEPT !.mark = NoMark, !.aged = FALSE]
  BY DEF ReadDecisionRecord
<1>. HIDE DEF r
<1>4. SweepShape' /\ sweep'.at = "append" /\ sweep'.offset = sweep.offset /\ sweep'.rows = r /\ sweep'.left = sweep.left
  BY <1>1, <1>2 DEF SweepShape
<1>5. SweepItem' = SweepItem
  BY <1>4 DEF SweepItem
<1>6. SweepAtEnd' /\ SweepMark' /\ SweepLine'
  BY <1>1, <1>4 DEF DecisionsInv, MoveInv, SweepAtEnd, SweepMark, SweepLine
<1>7. ASSUME SweepItem \in Items
      PROVE  RowsShape(r) /\ r.mark = NoMark /\ History(r) = History(a)
  <2>1. RowsShape(a)
    BY <1>1, <1>7, RowsAreShaped DEF DecisionsInv
  <2>. HIDE DEF a
  <2>2. /\ RowsForm(r) /\ r.revision = a.revision /\ r.verdicts = a.verdicts /\ r.withdrawn = a.withdrawn /\ r.mark = NoMark
    BY <1>3, <2>1 DEF RowsShape, RowsForm
  <2>3. RowsShape(r)
    BY <2>1, <2>2, NoMarkShape DEF RowsShape
  <2>. QED
    BY <2>2, <2>3, HistoryFields
<1>8. SweepRows'
  BY <1>1, <1>4, <1>5, <1>7 DEF SweepRows
<1>. QED
  BY <1>1, <1>4, <1>6, <1>8, SweepReads

\* A mark at the end of the log names no line yet.
LEMMA MarkKeeps ==
    ASSUME DecisionsInv, NEW r, items' = [items EXCEPT ![SweepItem] = r],
           UNCHANGED <<deep, lines, removed, restores, export>>,
           sweep' = [sweep EXCEPT !.at = "read"], sweep.offset = Len(lines) + 1,
           Exists(SweepItem), SweepItem \in Items => ItemShape(r) /\ r.mark.offset = Len(lines) + 1
    PROVE  DecisionsInv'
<1>1. /\ SweepShape /\ OnItems(items) /\ DOMAIN lines = 1 .. Len(lines) /\ Len(lines) \in Nat
      /\ OnItems(deep) /\ OnItems(removed) /\ \A i \in Items : Exists(i) => ItemShape(items[i])
  BY DEF DecisionsInv, MoveInv, BoardShapes
<1>2. SweepShape' /\ sweep'.at = "read" /\ sweep'.offset = Len(lines) + 1
  BY <1>1 DEF SweepShape
<1>3. SweepAtEnd' /\ SweepMark' /\ SweepRows' /\ SweepLine'
  BY <1>2 DEF SweepAtEnd, SweepMark, SweepRows, SweepLine
<1>4. CASE SweepItem \notin Items
  <2>1. items' = items
    BY <1>1, <1>4 DEF OnItems
  <2>. QED
    BY <1>2, <1>3, <2>1, SweepReads
<1>5. CASE SweepItem \in Items
  <2>1. /\ items'[SweepItem] = r /\ ItemShape(r) /\ OnItems(items') /\ r.mark.offset \notin DOMAIN lines
        /\ \A x \in Items : x # SweepItem => items'[x] = items[x]
    <3>1. r.mark.offset \notin 1 .. Len(lines)
      BY <1>1, <1>5
    <3>2. /\ items'[SweepItem] = r /\ OnItems(items')
          /\ \A x \in Items : x # SweepItem => items'[x] = items[x]
      BY <1>1, <1>5 DEF OnItems
    <3>. QED
      BY <1>1, <1>5, <3>1, <3>2
  <2>2. r # NoRows
    <3>1. r.state # "none" /\ NoRows.state = "none"
      BY <2>1 DEF ItemShape, NoRows
    <3>. QED
      BY <3>1
  <2>3. \A i \in Items : Exists(i)' <=> Exists(i)
    BY <2>1, <2>2 DEF Exists
  <2>4. BoardShapes'
    <3>1. \A i \in Items : Exists(i) => ItemShape(items'[i])
      BY <1>1, <2>1
    <3>2. \A i \in Items : Exists(i)' => ItemShape(items[i])'
      BY <2>3, <3>1 DEF ItemShape
    <3>. QED
      BY <1>2, <2>1, <3>2 DEF DecisionsInv, MoveInv, BoardShapes, LineShape
  <2>5. MarkedLineIsCurrent'
    <3>. SUFFICES ASSUME NEW i \in Items, Exists(i)', items'[i].mark # NoMark, items'[i].mark.offset \in DOMAIN lines,
                         lines[items'[i].mark.offset].id = i,
                         lines[items'[i].mark.offset].revision = items'[i].mark.revision
                  PROVE  History(lines[items'[i].mark.offset].rows) = History(items'[i])
      BY DEF MarkedLineIsCurrent
    <3>1. items'[i] = items[i]
      BY <2>1
    <3>. QED
      BY <2>3, <3>1 DEF DecisionsInv, MoveInv, MarkedLineIsCurrent
  <2>6. LocatorsLead' /\ MovedItemIsKept'
    BY <2>3 DEF DecisionsInv, MoveInv, LocatorsLead, MovedItemIsKept, ReadDecisionLine
  <2>. QED
    BY <1>3, <2>3, <2>4, <2>5, <2>6, ExportKeeps DEF DecisionsInv, MoveInv
<1>. QED
  BY <1>4, <1>5

LEMMA MoveDecisionKeeps ==
    ASSUME DecisionsInv, MoveDecision
    PROVE  DecisionsInv'
<1>1. sweep.at = "mark" /\ UNCHANGED <<deep, lines, restores, export, removed>> /\ sweep.offset = Len(lines) + 1
  BY DEF MoveDecision, DecisionsInv, MoveInv, SweepAtEnd
<1>2. CASE Exists(SweepItem) /\ items[SweepItem].state = "archived" /\ items[SweepItem].mark = NoMark
  <2>. DEFINE a == items[SweepItem]
              m == [revision |-> a.revision, offset |-> sweep.offset]
              r == [a EXCEPT !.mark = m]
  <2>1. items' = [items EXCEPT ![SweepItem] = r] /\ sweep' = [sweep EXCEPT !.at = "read"]
    BY <1>2 DEF MoveDecision, SetItem
  <2>2. ASSUME SweepItem \in Items PROVE ItemShape(r) /\ r.mark.offset = Len(lines) + 1
    <3>1. RowsShape(a) /\ a.state = "archived" /\ Len(lines) \in Nat
      BY <1>2, <2>2, RowsAreShaped DEF DecisionsInv, MoveInv, BoardShapes
    <3>. HIDE DEF a
    <3>2. /\ m \in Marks /\ m.revision = a.revision /\ m.offset = Len(lines) + 1 /\ m.offset # 0
          /\ m.offset <= Len(lines) + 1
      BY <1>1, <3>1 DEF RowsShape, Marks
    <3>3. r = [a EXCEPT !.mark = m]
      OBVIOUS
    <3>. HIDE DEF r, m
    <3>4. /\ RowsForm(r) /\ r.state = a.state /\ r.revision = a.revision /\ r.verdicts = a.verdicts /\ r.mark = m
      BY <3>1, <3>3 DEF RowsShape, RowsForm
    <3>. QED
      BY <3>1, <3>2, <3>4 DEF ItemShape, RowsShape
  <2>. HIDE DEF r
  <2>. QED
    BY <1>1, <1>2, <2>1, <2>2, MarkKeeps
<1>3. CASE SweepOn("move") /\ UNCHANGED items
  BY <1>1, <1>3, SweepOnWaits, SweepReads
<1>. QED
  BY <1>2, <1>3 DEF MoveDecision

LEMMA RemarkKeeps ==
    ASSUME DecisionsInv, FinishRemark
    PROVE  DecisionsInv'
<1>1. /\ sweep.at = "remark" /\ UNCHANGED <<deep, lines, restores, export, removed>> /\ sweep.offset = Len(lines) + 1
      /\ sweep.mark # NoMark
  BY DEF FinishRemark, DecisionsInv, MoveInv, SweepAtEnd, SweepMark
<1>2. CASE Exists(SweepItem) /\ items[SweepItem].mark = sweep.mark
  <2>. DEFINE a == items[SweepItem]
              m == [a.mark EXCEPT !.offset = sweep.offset]
              r == [a EXCEPT !.mark = m]
  <2>1. items' = [items EXCEPT ![SweepItem] = r] /\ sweep' = [sweep EXCEPT !.at = "read"]
    BY <1>2 DEF FinishRemark, SetItem
  <2>2. ASSUME SweepItem \in Items PROVE ItemShape(r) /\ r.mark.offset = Len(lines) + 1
    <3>1. RowsShape(a) /\ ItemShape(a) /\ a.mark # NoMark /\ Len(lines) \in Nat
      BY <1>1, <1>2, <2>2, RowsAreShaped DEF DecisionsInv, MoveInv, BoardShapes
    <3>. HIDE DEF a
    <3>2. a.state = "archived" /\ a.mark.revision = a.revision /\ a.mark \in Marks
      BY <3>1 DEF ItemShape, RowsShape
    <3>3. /\ m \in Marks /\ m.revision = a.revision /\ m.offset = Len(lines) + 1 /\ m.offset # 0
          /\ m.offset <= Len(lines) + 1
      BY <1>1, <3>1, <3>2 DEF Marks
    <3>4. r = [a EXCEPT !.mark = m]
      OBVIOUS
    <3>. HIDE DEF r, m
    <3>5. /\ RowsForm(r) /\ r.state = a.state /\ r.revision = a.revision /\ r.verdicts = a.verdicts /\ r.mark = m
      BY <3>1, <3>4 DEF RowsShape, RowsForm
    <3>. QED
      BY <3>1, <3>2, <3>3, <3>5 DEF ItemShape, RowsShape
  <2>. HIDE DEF r
  <2>. QED
    BY <1>1, <1>2, <2>1, <2>2, MarkKeeps
<1>3. CASE SweepOn("finish") /\ UNCHANGED items
  BY <1>1, <1>3, SweepOnWaits, SweepReads
<1>. QED
  BY <1>2, <1>3 DEF FinishRemark

LEMMA FinishMoveKeeps ==
    ASSUME DecisionsInv, FinishMove
    PROVE  DecisionsInv'
<1>. DEFINE m == items[SweepItem].mark
<1>1. UNCHANGED <<items, deep, lines, removed, restores, export>> /\ SweepShape
  BY DEF FinishMove, DecisionsInv, MoveInv, BoardShapes
<1>2. CASE SweepOn("finish")
  BY <1>1, <1>2, SweepOnWaits, SweepReads
<1>3. CASE /\ LineFinishes(SweepItem) /\ Exists(SweepItem) /\ m # NoMark
           /\ sweep' = [sweep EXCEPT !.at = "delete", !.mark = m, !.offset = m.offset,
                                     !.rows = [revision |-> m.revision]]
  <2>1. /\ SweepShape' /\ sweep'.at = "delete" /\ sweep'.offset = m.offset /\ sweep'.rows.revision = m.revision
        /\ sweep'.left = sweep.left
    BY <1>1, <1>3 DEF SweepShape
  <2>2. SweepItem' = SweepItem
    BY <2>1 DEF SweepItem
  <2>3. SweepAtEnd' /\ SweepMark' /\ SweepRows'
    BY <2>1 DEF SweepAtEnd, SweepMark, SweepRows
  <2>4. ASSUME SweepItem \in Items
        PROVE  m.offset \in DOMAIN lines /\ lines[m.offset].id = SweepItem /\ lines[m.offset].revision = m.revision
    <3>1. Partial.id \notin Items
      BY DEF Partial, Items
    <3>. QED
      BY <1>3, <2>4, <3>1 DEF LineFinishes, ReadDecisionLine
  <2>5. SweepLine'
    BY <1>1, <2>1, <2>2, <2>4 DEF SweepLine
  <2>. QED
    BY <1>1, <2>1, <2>3, <2>5, SweepReads
<1>4. CASE m # NoMark /\ sweep' = [sweep EXCEPT !.at = "remark", !.mark = m, !.offset = OpenDecisionLog]
  <2>1. SweepShape' /\ sweep'.at = "remark" /\ sweep'.mark = m /\ sweep'.offset = Len(lines) + 1
    BY <1>1, <1>4 DEF SweepShape, OpenDecisionLog
  <2>2. SweepAtEnd' /\ SweepMark' /\ SweepRows' /\ SweepLine'
    BY <1>1, <1>4, <2>1 DEF SweepAtEnd, SweepMark, SweepRows, SweepLine
  <2>. QED
    BY <1>1, <2>1, <2>2, SweepReads
<1>. QED
  BY <1>2, <1>3, <1>4 DEF FinishMove

\* A line at the end of the log leaves the others where they are.
LEMMA LogGrows ==
    ASSUME NEW s, NEW x, IsLog(s), DOMAIN s = 1 .. Len(s), Len(s) \in Nat
    PROVE  /\ IsLog(Append(s, x)) /\ Len(Append(s, x)) = Len(s) + 1
           /\ DOMAIN Append(s, x) = 1 .. Len(Append(s, x))
           /\ Append(s, x)[Len(s) + 1] = x
           /\ \A o \in DOMAIN s : o \in DOMAIN Append(s, x) /\ Append(s, x)[o] = s[o]
           /\ \A o \in DOMAIN Append(s, x) : o \in DOMAIN s \/ o = Len(s) + 1
<1>. DEFINE L == {s[o] : o \in DOMAIN s}
            M == L \cup {x}
            t == Append(s, x)
<1>1. s \in Seq(M) /\ x \in M
  <2>1. s \in Seq(L) /\ L \subseteq M
    BY DEF IsLog
  <2>. HIDE DEF L, M
  <2>2. s \in [1 .. Len(s) -> L]
    BY <2>1
  <2>3. s \in [1 .. Len(s) -> M]
    BY <2>1, <2>2
  <2>4. s \in Seq(M)
    BY <2>3
  <2>. QED
    BY <2>4 DEF M
<1>. HIDE DEF M
<1>2. /\ t \in Seq(M) /\ Len(t) = Len(s) + 1 /\ DOMAIN t = 1 .. Len(t) /\ t[Len(s) + 1] = x
      /\ \A o \in 1 .. Len(s) : t[o] = s[o]
  BY <1>1
<1>. HIDE DEF t
<1>3. IsLog(t)
  <2>. DEFINE K == {t[o] : o \in DOMAIN t}
  <2>1. /\ t \in [1 .. Len(t) -> K] /\ Len(t) \in Nat
    BY <1>2
  <2>. HIDE DEF K
  <2>2. t \in Seq(K)
    BY <2>1
  <2>. QED
    BY <2>2 DEF IsLog, K
<1>4. /\ \A o \in 1 .. Len(s) : o \in 1 .. Len(s) + 1
      /\ \A o \in 1 .. Len(s) + 1 : o \in 1 .. Len(s) \/ o = Len(s) + 1
  OBVIOUS
<1>5. /\ \A o \in DOMAIN s : o \in DOMAIN t /\ t[o] = s[o]
      /\ \A o \in DOMAIN t : o \in DOMAIN s \/ o = Len(s) + 1
  BY <1>2, <1>4, Zenon
<1>. QED
  BY <1>2, <1>3, <1>5 DEF t

\* The line that a sweep appends, whole or cut short; an earlier line keeps its place.
LEMMA AppendKeeps ==
    ASSUME DecisionsInv, sweep.at = "append", NEW x, x \in {Partial, LineOf(SweepItem, sweep.rows)},
           lines' = Append(lines, x), UNCHANGED <<items, deep, restores, export, removed>>,
           SweepShape', SweepAtEnd', SweepMark', SweepRows', SweepLine'
    PROVE  DecisionsInv'
<1>1. /\ IsLog(lines) /\ DOMAIN lines = 1 .. Len(lines) /\ Len(lines) \in Nat /\ sweep.offset = Len(lines) + 1
      /\ \A o \in DOMAIN lines : LineShape(lines[o])
  BY DEF DecisionsInv, MoveInv, BoardShapes, SweepAtEnd
<1>2. /\ IsLog(lines') /\ Len(lines') = Len(lines) + 1 /\ DOMAIN lines' = 1 .. Len(lines')
      /\ lines'[Len(lines) + 1] = x
      /\ \A o \in DOMAIN lines : o \in DOMAIN lines' /\ lines'[o] = lines[o]
      /\ \A o \in DOMAIN lines' : o \in DOMAIN lines \/ o = Len(lines) + 1
  BY <1>1, LogGrows
<1>3. ASSUME x.id \in Items
      PROVE  /\ x.id = SweepItem /\ x.rows = sweep.rows /\ x.revision = sweep.rows.revision /\ SweepItem \in Items
  <2>1. x = LineOf(SweepItem, sweep.rows)
    BY <1>3 DEF Partial, Items
  <2>. QED
    BY <1>3, <2>1 DEF LineOf
<1>4. LineShape(x)
  BY <1>3 DEF LineShape, DecisionsInv, MoveInv, SweepRows
<1>5. \A i \in Items : Exists(i)' <=> Exists(i)
  BY DEF Exists
<1>6. BoardShapes'
  <2>1. \A i \in Items : Exists(i) => ItemShape(items[i])
    BY DEF DecisionsInv, MoveInv, BoardShapes
  <2>2. ASSUME NEW i \in Items, Exists(i) PROVE ItemShape(items[i])'
    <3>. DEFINE off == items[i].mark.offset
    <3>1. items[i].mark # NoMark => off \in Nat /\ off <= Len(lines) + 1
      BY <2>1, <2>2 DEF ItemShape, RowsShape, Marks
    <3>. HIDE DEF off
    <3>2. items[i].mark # NoMark => off <= Len(lines') + 1
      BY <1>1, <1>2, <3>1
    <3>. QED
      BY <2>1, <2>2, <3>2 DEF ItemShape, off
  <2>3. \A o \in DOMAIN lines' : LineShape(lines'[o])
    BY <1>1, <1>2, <1>4
  <2>4. Len(lines') \in Nat
    BY <1>1, <1>2
  <2>5. \A i \in Items : Exists(i)' => ItemShape(items[i])'
    BY <1>5, <2>2
  <2>. QED
    BY <1>2, <2>3, <2>4, <2>5 DEF DecisionsInv, MoveInv, BoardShapes, LineShape
<1>7. MarkedLineIsCurrent'
  <2>. SUFFICES ASSUME NEW i \in Items, Exists(i), items[i].mark # NoMark, items[i].mark.offset \in DOMAIN lines',
                       lines'[items[i].mark.offset].id = i,
                       lines'[items[i].mark.offset].revision = items[i].mark.revision
                PROVE  History(lines'[items[i].mark.offset].rows) = History(items[i])
    BY <1>5 DEF MarkedLineIsCurrent
  <2>1. CASE items[i].mark.offset \in DOMAIN lines
    BY <1>2, <2>1 DEF DecisionsInv, MoveInv, MarkedLineIsCurrent
  <2>2. CASE items[i].mark.offset = Len(lines) + 1
    <3>1. lines'[items[i].mark.offset] = x
      BY <1>2, <2>2, Zenon
    <3>. QED
      BY <1>1, <1>3, <2>2, <3>1 DEF DecisionsInv, MoveInv, SweepRows
  <2>. QED
    BY <1>2, <2>1, <2>2
<1>8. LocatorsLead' /\ MovedItemIsKept'
  BY <1>2, <1>5 DEF DecisionsInv, MoveInv, LocatorsLead, MovedItemIsKept, ReadDecisionLine
<1>. QED
  BY <1>5, <1>6, <1>7, <1>8, ExportKeeps DEF DecisionsInv, MoveInv

LEMMA AppendAndDeleteKeeps ==
    ASSUME DecisionsInv, AppendAndDelete
    PROVE  DecisionsInv'
<1>. DEFINE x == LineOf(SweepItem, sweep.rows)
<1>1. /\ sweep.at = "append" /\ lines' = Append(lines, x) /\ sweep' = [sweep EXCEPT !.at = "delete"]
      /\ UNCHANGED <<items, deep, restores, export, removed>>
  BY DEF AppendAndDelete
<1>2. /\ IsLog(lines) /\ DOMAIN lines = 1 .. Len(lines) /\ Len(lines) \in Nat /\ SweepShape
      /\ sweep.offset = Len(lines) + 1
  BY <1>1 DEF DecisionsInv, MoveInv, BoardShapes, SweepAtEnd
<1>3. /\ SweepShape' /\ sweep'.at = "delete" /\ sweep'.left = sweep.left /\ sweep'.rows = sweep.rows
      /\ sweep'.offset = sweep.offset
  BY <1>1, <1>2 DEF SweepShape
<1>4. SweepItem' = SweepItem
  BY <1>3 DEF SweepItem
<1>5. SweepAtEnd' /\ SweepMark' /\ SweepRows'
  BY <1>3 DEF SweepAtEnd, SweepMark, SweepRows
<1>6. SweepLine'
  <2>1. sweep.offset \in DOMAIN lines'
    <3>1. Len(lines) + 1 \in 1 .. Len(lines) + 1
      BY <1>2
    <3>2. DOMAIN lines' = 1 .. Len(lines') /\ Len(lines') = Len(lines) + 1
      BY <1>1, <1>2, LogGrows
    <3>. QED
      BY <1>2, <3>1, <3>2
  <2>2. lines'[sweep.offset] = x
    BY <1>1, <1>2, LogGrows
  <2>. QED
    BY <1>3, <1>4, <2>1, <2>2 DEF SweepLine, LineOf
<1>. QED
  BY <1>1, <1>3, <1>5, <1>6, AppendKeeps

LEMMA SweepCutKeeps ==
    ASSUME DecisionsInv, SweepCut
    PROVE  DecisionsInv'
<1>1. sweep' = SweepIdle /\ UNCHANGED <<items, deep, restores, export, removed>>
  BY DEF SweepCut
<1>2. SweepShape' /\ sweep'.at = "idle"
  BY <1>1 DEF SweepIdle, SweepShape
<1>3. SweepAtEnd' /\ SweepMark' /\ SweepRows' /\ SweepLine'
  BY <1>2, SweepWaits
<1>4. CASE UNCHANGED lines
  BY <1>1, <1>2, <1>3, <1>4, SweepReads
<1>5. CASE /\ sweep.at = "append"
           /\ \E x \in {Partial, LineOf(SweepItem, sweep.rows)} : lines' = Append(lines, x)
  BY <1>1, <1>2, <1>3, <1>5, AppendKeeps
<1>. QED
  BY <1>4, <1>5 DEF SweepCut

\* A deletion leaves the line of the item as its locator; the guard makes the line current.
LEMMA DeleteKeeps ==
    ASSUME DecisionsInv, DeleteMoved
    PROVE  DecisionsInv'
<1>1. SweepShape' /\ SweepAtEnd' /\ SweepMark' /\ SweepRows' /\ SweepLine'
  BY StageIsLoop, SweepOnWaits DEF DeleteMoved
<1>2. sweep.at = "delete" /\ UNCHANGED <<lines, restores>>
  BY DEF DeleteMoved
<1>3. CASE ~StillMarked(SweepItem)
  <2>1. UNCHANGED <<items, deep, removed, export>>
    BY <1>3 DEF DeleteMoved
  <2>. QED
    BY <1>1, <1>2, <2>1, SweepReads
<1>4. CASE StillMarked(SweepItem)
  <2>. DEFINE a == items[SweepItem]
              r == ReadDecisionRecord(SweepItem)
  <2>1. /\ items' = [items EXCEPT ![SweepItem] = NoRows] /\ deep' = [deep EXCEPT ![SweepItem] = sweep.offset]
        /\ removed' = [removed EXCEPT ![SweepItem] = r] /\ BumpChange
    BY <1>4 DEF DeleteMoved, SetItem, MovedBump
  <2>2. /\ OnItems(items) /\ OnItems(deep) /\ OnItems(removed) /\ DOMAIN lines = 1 .. Len(lines) /\ Len(lines) \in Nat
    BY DEF DecisionsInv, MoveInv, BoardShapes
  <2>3. ASSUME SweepItem \in Items
        PROVE  /\ sweep.offset \in DOMAIN lines /\ sweep.offset \in Nat /\ lines[sweep.offset].id = SweepItem
               /\ History(lines[sweep.offset].rows) = History(r)
    <3>1. /\ sweep.offset \in DOMAIN lines /\ lines[sweep.offset].id = SweepItem
          /\ lines[sweep.offset].revision = sweep.rows.revision
      BY <1>2, <2>3 DEF DecisionsInv, MoveInv, SweepLine
    <3>2. sweep.offset \in Nat /\ sweep.offset # 0
      BY <2>2, <3>1
    <3>3. /\ Exists(SweepItem) /\ a.mark = [revision |-> sweep.rows.revision, offset |-> sweep.offset]
      BY <1>4 DEF StillMarked
    <3>4. a.mark # NoMark /\ a.mark.offset = sweep.offset /\ a.mark.revision = sweep.rows.revision
      BY <3>2, <3>3 DEF NoMark
    <3>5. History(lines[sweep.offset].rows) = History(a)
      BY <2>3, <3>1, <3>3, <3>4 DEF DecisionsInv, MoveInv, MarkedLineIsCurrent
    <3>6. History(r) = History(a)
      <4>1. RowsShape(a) /\ r = [a EXCEPT !.mark = NoMark, !.aged = FALSE]
        BY <2>3, <3>3, RowsAreShaped DEF DecisionsInv, ReadDecisionRecord
      <4>. HIDE DEF a, r
      <4>2. r.revision = a.revision /\ r.verdicts = a.verdicts /\ r.withdrawn = a.withdrawn
        BY <4>1 DEF RowsShape, RowsForm
      <4>. QED
        BY <4>2, HistoryFields
    <3>. QED
      BY <3>1, <3>2, <3>5, <3>6
  <2>. HIDE DEF r
  <2>4. /\ OnItems(items') /\ OnItems(deep') /\ OnItems(removed')
        /\ SweepItem \in Items => /\ items'[SweepItem] = NoRows /\ deep'[SweepItem] = sweep.offset
                                  /\ removed'[SweepItem] = r
        /\ \A i \in Items : i # SweepItem => items'[i] = items[i] /\ deep'[i] = deep[i] /\ removed'[i] = removed[i]
    BY <2>1, <2>2 DEF OnItems
  <2>5. \A i \in Items : Exists(i)' => Exists(i) /\ items'[i] = items[i]
    BY <2>4 DEF Exists
  <2>6. \A i \in Items : i # SweepItem => (Exists(i)' <=> Exists(i))
    BY <2>4 DEF Exists
  <2>7. BoardShapes'
    <3>1. \A i \in Items : Exists(i) => ItemShape(items[i])
      BY DEF DecisionsInv, MoveInv, BoardShapes
    <3>2. \A i \in Items : Exists(i)' => ItemShape(items[i])'
      BY <1>2, <2>5, <3>1 DEF ItemShape
    <3>3. \A i \in Items : deep'[i] \in Nat
      BY <2>3, <2>4 DEF DecisionsInv, MoveInv, BoardShapes
    <3>. QED
      BY <1>1, <1>2, <2>4, <3>2, <3>3 DEF DecisionsInv, MoveInv, BoardShapes, LineShape
  <2>8. MarkedLineIsCurrent'
    BY <1>2, <2>5 DEF DecisionsInv, MoveInv, MarkedLineIsCurrent
  <2>9. LocatorsLead'
    BY <1>2, <2>3, <2>4 DEF DecisionsInv, MoveInv, LocatorsLead
  <2>10. MovedItemIsKept'
    <3>. SUFFICES ASSUME NEW i \in Items, deep'[i] # 0
                  PROVE  /\ ~Exists(i)' /\ ReadDecisionLine(deep'[i]).id = i
                         /\ History(ReadDecisionLine(deep'[i]).rows) = History(removed'[i])
      BY <1>2 DEF MovedItemIsKept, ReadDecisionLine
    <3>1. CASE i = SweepItem
      BY <2>3, <2>4, <3>1 DEF ReadDecisionLine, Exists
    <3>2. CASE i # SweepItem
      BY <2>4, <2>6, <3>2 DEF DecisionsInv, MoveInv, MovedItemIsKept
    <3>. QED
      BY <3>1, <3>2
  <2>. QED
    BY <1>1, <2>1, <2>7, <2>8, <2>9, <2>10, ExportAgain DEF DecisionsInv, MoveInv
<1>. QED
  BY <1>3, <1>4

\* The next item of a page comes once more into what the client has.
LEMMA OneMore ==
    ASSUME NEW got \in Seq(Items), NEW G, G \subseteq Items, NEW m \in Items, m \notin G,
           {got[k] : k \in DOMAIN got} = G, Len(got) = Cardinality(G)
    PROVE  /\ Append(got, m) \in Seq(Items)
           /\ {Append(got, m)[k] : k \in DOMAIN Append(got, m)} = G \cup {m}
           /\ Len(Append(got, m)) = Cardinality(G \cup {m})
<1>. DEFINE t == Append(got, m)
<1>1. IsFiniteSet(G)
  <2>1. IsFiniteSet(Items)
    BY FS_Interval, DecisionsAssumption DEF Items
  <2>. QED
    BY <2>1, FS_Subset
<1>2. Cardinality(G \cup {m}) = Cardinality(G) + 1
  BY <1>1, FS_AddElement
<1>3. /\ t \in Seq(Items) /\ Len(t) = Len(got) + 1 /\ DOMAIN t = 1 .. Len(got) + 1 /\ t[Len(got) + 1] = m
      /\ \A k \in 1 .. Len(got) : t[k] = got[k]
      /\ DOMAIN got = 1 .. Len(got) /\ Len(got) \in Nat
  OBVIOUS
<1>. HIDE DEF t
<1>4. /\ Len(got) + 1 \in 1 .. Len(got) + 1
      /\ \A k \in 1 .. Len(got) : k \in 1 .. Len(got) + 1
      /\ \A k \in 1 .. Len(got) + 1 : k \in 1 .. Len(got) \/ k = Len(got) + 1
  BY <1>3
<1>5. {t[k] : k \in DOMAIN t} = G \cup {m}
  <2>1. ASSUME NEW k \in DOMAIN t PROVE t[k] \in G \cup {m}
    BY <1>3, <1>4, Zenon
  <2>2. m \in {t[k] : k \in DOMAIN t}
    BY <1>3, <1>4, Zenon
  <2>3. ASSUME NEW y \in G PROVE y \in {t[k] : k \in DOMAIN t}
    <3>1. PICK k \in DOMAIN got : got[k] = y
      OBVIOUS
    <3>2. k \in DOMAIN t /\ t[k] = y
      BY <1>3, <1>4, <3>1, Zenon
    <3>. QED
      BY <3>2
  <2>. QED
    BY <2>1, <2>2, <2>3
<1>. QED
  BY <1>2, <1>3, <1>5 DEF t

LEMMA NextOnPage ==
    ASSUME NEW S \in SUBSET Nat, NEW a \in Nat, NEW m \in S, m > a, \A i \in S : i > a => m <= i
    PROVE  {i \in S : i <= m} = {i \in S : i <= a} \cup {m} /\ m \notin {i \in S : i <= a}
<1>1. \A i \in Nat : m \in Nat /\ (i <= m <=> (i <= a \/ i = m \/ (i > a /\ i < m)))
  OBVIOUS
<1>2. \A i \in S : i <= m <=> (i <= a \/ i = m)
  <2>1. \A i \in S : ~(i > a /\ i < m)
    OBVIOUS
  <2>. QED
    BY <1>1, <2>1
<1>3. ~(m <= a)
  OBVIOUS
<1>. QED
  BY <1>2, <1>3

LEMMA ExportForm ==
    ASSUME ExportShape(export'), export'.phase \in {"deep", "live", "done"}, export'.after \in Nat,
           export'.got \in Seq(Items), {export'.got[k] : k \in DOMAIN export'.got} = Given',
           Len(export'.got) = Cardinality(Given')
    PROVE  ExportInv'
BY DEF ExportInv

LEMMA ExportStepKeeps ==
    ASSUME DecisionsInv, DecisionExport
    PROVE  DecisionsInv'
<1>. DEFINE next == IF export.phase = "deep" THEN {i \in Items : i > export.after /\ deep[i] # 0}
                    ELSE {i \in Items : i > export.after /\ Exists(i)}
            m == Min(next)
            e == export
<1>1. /\ e.phase # "done" /\ UNCHANGED <<items, deep, lines, sweep, restores, removed>>
      /\ export' = CASE e.phase = "" -> [NoExport EXCEPT !.phase = "deep"]
          [] e.phase # "" /\ next # {} -> [e EXCEPT !.after = m, !.got = Append(@, m)]
          [] e.phase = "deep" /\ next = {} -> [e EXCEPT !.phase = "live", !.after = 0]
          [] e.phase = "live" /\ next = {} -> [e EXCEPT !.phase = "done", !.after = 0]
  BY DEF DecisionExport
<1>2. MoveInv'
  <2>1. OnItems(items') /\ OnItems(deep')
    BY <1>1 DEF DecisionsInv, MoveInv, BoardShapes
  <2>2. \A r \in restores' : r.id \in Items /\ RowsShape(r.rows) /\ r.rows.mark = NoMark
    BY <1>1 DEF DecisionsInv, MoveInv, BoardShapes
  <2>. QED
    BY <1>1, <2>1, <2>2, BoardKeeps DEF DecisionsInv
<1>3. /\ ExportShape(e) /\ e.phase \in {"", "deep", "live", "done"} /\ e.after \in Nat /\ e.got \in Seq(Items)
      /\ {e.got[k] : k \in DOMAIN e.got} = Given /\ Len(e.got) = Cardinality(Given)
      /\ e.phase = "" => e = NoExport
  BY DEF DecisionsInv, ExportInv
<1>4. /\ \A i \in Items : i \in Nat /\ i # 0
      /\ \A i \in Items : Exists(i)' <=> Exists(i)
      /\ \A i \in Items : deep[i] # 0 => ~Exists(i)
  <2>1. \A i \in Items : i \in Nat /\ i # 0
    BY DecisionsAssumption DEF Items
  <2>2. \A i \in Items : Exists(i)' <=> Exists(i)
    BY <1>1 DEF Exists
  <2>3. \A i \in Items : deep[i] # 0 => ~Exists(i)
    BY DEF DecisionsInv, MoveInv, MovedItemIsKept
  <2>. QED
    BY <2>1, <2>2, <2>3
<1>5. next \subseteq Items /\ (next # {} => m \in next /\ \A y \in next : m <= y)
  <2>1. next \in SUBSET Nat /\ next \subseteq Items
    BY <1>4
  <2>. HIDE DEF next
  <2>. QED
    BY <2>1, LeastNumber
<1>6. CASE e.phase = ""
  <2>1. export' = [NoExport EXCEPT !.phase = "deep"]
    BY <1>1, <1>6
  <2>2. /\ export'.phase = "deep" /\ export'.after = 0 /\ export'.got = <<>> /\ ExportShape(export')
    BY <2>1 DEF NoExport, ExportShape
  <2>3. Given' = {}
    BY <1>4, <2>2 DEF Given
  <2>4. /\ {export'.got[k] : k \in DOMAIN export'.got} = Given' /\ Len(export'.got) = Cardinality(Given')
        /\ export'.got \in Seq(Items)
    BY <2>2, <2>3, NothingGiven, Zenon
  <2>. QED
    BY <1>2, <2>2, <2>4, ExportForm DEF DecisionsInv
<1>7. CASE e.phase # "" /\ next # {}
  <2>1. export' = [e EXCEPT !.after = m, !.got = Append(@, m)]
    BY <1>1, <1>7
  <2>2. m \in next /\ m \in Items /\ m \in Nat /\ \A y \in next : m <= y
    BY <1>4, <1>5, <1>7
  <2>. HIDE DEF m
  <2>3. /\ export'.phase = e.phase /\ export'.after = m /\ export'.got = Append(e.got, m) /\ ExportShape(export')
    BY <1>3, <2>1 DEF ExportShape
  <2>4. Given' = Given \cup {m} /\ m \notin Given /\ Given \subseteq Items
    <3>1. CASE e.phase = "deep"
      <4>1. m > e.after /\ deep[m] # 0 /\ \A i \in Items : i > e.after /\ deep[i] # 0 => m <= i
        BY <2>2, <3>1
      <4>2. /\ Given = {i \in Items : deep[i] # 0 /\ i <= e.after}
            /\ Given' = {i \in Items : deep[i] # 0 /\ i <= m}
        BY <1>1, <2>3, <3>1 DEF Given
      <4>. HIDE DEF next
      <4>3. PICK S : S = {i \in Items : deep[i] # 0}
        OBVIOUS
      <4>4. /\ Given = {i \in S : i <= e.after} /\ Given' = {i \in S : i <= m}
            /\ S \in SUBSET Nat /\ m \in S /\ \A i \in S : i > e.after => m <= i
        BY <1>4, <2>2, <4>1, <4>2, <4>3
      <4>5. Given' = Given \cup {m} /\ m \notin Given
        <5>1. PICK a : a = e.after
          OBVIOUS
        <5>2. a \in Nat /\ S \in SUBSET Nat /\ m \in S /\ m > a /\ \A i \in S : i > a => m <= i
          BY <1>3, <4>1, <4>4, <5>1
        <5>3. {i \in S : i <= m} = {i \in S : i <= a} \cup {m} /\ m \notin {i \in S : i <= a}
          BY <5>2, NextOnPage
        <5>. QED
          BY <4>4, <5>1, <5>3
      <4>. QED
        BY <4>2, <4>5
    <3>2. CASE e.phase = "live"
      <4>1. m > e.after /\ Exists(m) /\ \A i \in Items : i > e.after /\ Exists(i) => m <= i
        BY <2>2, <3>2
      <4>2. /\ Given = {i \in Items : deep[i] # 0 \/ (Exists(i) /\ i <= e.after)}
            /\ Given' = {i \in Items : deep[i] # 0 \/ (Exists(i) /\ i <= m)}
        BY <1>1, <1>4, <2>3, <3>2 DEF Given
      <4>. HIDE DEF next
      <4>3. PICK S : S = {i \in Items : Exists(i)}
        OBVIOUS
      <4>4. PICK D : D = {i \in Items : deep[i] # 0}
        OBVIOUS
      <4>5. /\ Given = D \cup {i \in S : i <= e.after} /\ Given' = D \cup {i \in S : i <= m}
            /\ S \in SUBSET Nat /\ m \in S /\ m \notin D /\ \A i \in S : i > e.after => m <= i
        BY <1>4, <2>2, <4>1, <4>2, <4>3, <4>4
      <4>6. {i \in S : i <= m} = {i \in S : i <= e.after} \cup {m} /\ m \notin {i \in S : i <= e.after}
        <5>1. PICK a : a = e.after
          OBVIOUS
        <5>2. a \in Nat /\ S \in SUBSET Nat /\ m \in S /\ m > a /\ \A i \in S : i > a => m <= i
          BY <1>3, <4>1, <4>5, <5>1
        <5>3. {i \in S : i <= m} = {i \in S : i <= a} \cup {m} /\ m \notin {i \in S : i <= a}
          BY <5>2, NextOnPage
        <5>. QED
          BY <5>1, <5>3
      <4>7. Given' = Given \cup {m} /\ m \notin Given
        BY <4>5, <4>6
      <4>. QED
        BY <4>2, <4>7
    <3>. QED
      BY <1>1, <1>3, <1>7, <3>1, <3>2
  <2>5. /\ {export'.got[k] : k \in DOMAIN export'.got} = Given' /\ Len(export'.got) = Cardinality(Given')
        /\ export'.got \in Seq(Items)
    <3>. HIDE DEF next
    <3>1. /\ Append(e.got, m) \in Seq(Items)
          /\ {Append(e.got, m)[k] : k \in DOMAIN Append(e.got, m)} = Given \cup {m}
          /\ Len(Append(e.got, m)) = Cardinality(Given \cup {m})
      BY <1>3, <2>2, <2>4, OneMore
    <3>. QED
      BY <2>3, <2>4, <3>1, Zenon
  <2>. QED
    BY <1>1, <1>2, <1>3, <1>7, <2>2, <2>3, <2>5, ExportForm DEF DecisionsInv
<1>8. CASE e.phase = "deep" /\ next = {}
  <2>1. export' = [e EXCEPT !.phase = "live", !.after = 0]
    BY <1>1, <1>8
  <2>2. /\ export'.phase = "live" /\ export'.after = 0 /\ export'.got = e.got /\ ExportShape(export')
    BY <1>3, <2>1 DEF ExportShape
  <2>3. /\ Given = {i \in Items : deep[i] # 0 /\ i <= e.after}
        /\ Given' = {i \in Items : deep[i] # 0 \/ (Exists(i) /\ i <= 0)}
    BY <1>1, <1>4, <1>8, <2>2 DEF Given
  <2>4. \A i \in Items : (deep[i] # 0 => i <= e.after) /\ ~(i <= 0)
    BY <1>3, <1>4, <1>8
  <2>5. Given' = Given
    BY <2>3, <2>4
  <2>6. /\ {export'.got[k] : k \in DOMAIN export'.got} = Given' /\ Len(export'.got) = Cardinality(Given')
        /\ export'.got \in Seq(Items)
    BY <1>3, <2>2, <2>5, Zenon
  <2>. QED
    BY <1>2, <2>2, <2>6, ExportForm DEF DecisionsInv
<1>9. CASE e.phase = "live" /\ next = {}
  <2>1. export' = [e EXCEPT !.phase = "done", !.after = 0]
    BY <1>1, <1>9
  <2>2. /\ export'.phase = "done" /\ export'.after = 0 /\ export'.got = e.got /\ ExportShape(export')
    BY <1>3, <2>1 DEF ExportShape
  <2>3. /\ Given = {i \in Items : deep[i] # 0 \/ (Exists(i) /\ i <= e.after)}
        /\ Given' = {i \in Items : Exists(i) \/ deep[i] # 0}
    BY <1>1, <1>4, <1>9, <2>2 DEF Given
  <2>4. \A i \in Items : Exists(i) => i <= e.after
    BY <1>3, <1>4, <1>9
  <2>5. Given' = Given
    BY <2>3, <2>4
  <2>6. /\ {export'.got[k] : k \in DOMAIN export'.got} = Given' /\ Len(export'.got) = Cardinality(Given')
        /\ export'.got \in Seq(Items)
    BY <1>3, <2>2, <2>5, Zenon
  <2>. QED
    BY <1>2, <2>2, <2>6, ExportForm DEF DecisionsInv
<1>. QED
  BY <1>1, <1>3, <1>6, <1>7, <1>8, <1>9

\* An item that the sweep moved is on record as it was when its rows went, whatever edits, verdicts,
\* restores, refused writes and cut sweeps came between the steps of the move (moveDecision,
\* finishMove, DecisionRestore), and an export whose pages name one version of the board has every
\* item exactly once (DecisionsExport).
THEOREM ArchiveSoundThm == DecisionsSpec => []ArchiveSound
<1>1. DecisionsInv /\ [DecisionsNext]_boardVars => DecisionsInv'
  <2>. SUFFICES ASSUME DecisionsInv, [DecisionsNext]_boardVars PROVE DecisionsInv'
    OBVIOUS
  <2>1. CASE UNCHANGED boardVars
    <3>1. UNCHANGED <<items, deep, lines, sweep, restores, export, removed>>
      BY <2>1 DEF boardVars
    <3>2. SweepShape' /\ SweepAtEnd' /\ SweepMark' /\ SweepRows' /\ SweepLine'
      BY <3>1 DEF DecisionsInv, MoveInv, BoardShapes, SweepShape, SweepAtEnd, SweepMark, SweepRows, SweepLine,
                  SweepItem, Exists
    <3>. QED
      BY <3>1, <3>2, SweepReads
  <2>2. CASE DecisionsNext
    BY <2>2, CreateKeeps, EditKeeps, VerdictKeeps, AckKeeps, CloseKeeps, AgeKeeps, RestoreReadKeeps, RestoreKeeps,
       SweepLoopKeeps, PickKeeps, MoveDecisionKeeps, ArchiveReadKeeps, AppendAndDeleteKeeps, DeleteKeeps,
       FinishMoveKeeps, RemarkKeeps, SweepCutKeeps, ExportStepKeeps DEF DecisionsNext
  <2>. QED
    BY <2>1, <2>2
<1>2. DecisionsInv => ArchiveSound
  BY DEF DecisionsInv, MoveInv, ExportInv, Given, ArchiveSound, StableExportIsComplete
<1>. QED
  BY <1>1, <1>2, DecisionsInitInv, PTL DEF DecisionsSpec

-----------------------------------------------------------------------------
(* Memory *)

\* A bounded set of numbers has a greatest one.
LEMMA GreatestNumber ==
    ASSUME NEW n \in Nat, NEW T \in SUBSET (0 .. n), T # {}
    PROVE  Max(T) \in T /\ \A y \in T : Max(T) >= y
<1>. DEFINE Bounds == {b \in Nat : \A y \in T : y <= b}
<1>1. n \in Bounds
  OBVIOUS
<1>2. PICK b \in Bounds : \A y \in Bounds : b <= y
  BY <1>1, LeastNumber
<1>3. b \in T
  <2>1. SUFFICES ASSUME b \notin T PROVE FALSE
    OBVIOUS
  <2>2. \A y \in T : y \in Nat /\ y < b
    BY <1>2, <2>1
  <2>3. PICK y \in T : TRUE
    OBVIOUS
  <2>5. b - 1 \in Nat /\ \A z \in T : z <= b - 1
    BY <2>2, <2>3
  <2>. QED
    BY <1>2, <2>5
<1>. QED
  BY <1>2, <1>3 DEF Max

\* A finite set of numbers can be listed from the greatest to the least.
Descends(s, T) ==
    /\ s \in [1 .. Cardinality(T) -> T]
    /\ \A i, j \in DOMAIN s : i < j => s[i] > s[j]

Listed(s, T) == Descends(s, T) /\ \A x \in T : \E i \in DOMAIN s : s[i] = x

LEMMA ListExists ==
    ASSUME NEW n \in Nat, NEW T \in SUBSET (0 .. n)
    PROVE  \E s : Listed(s, T)
<1>. DEFINE Fails == {k \in Nat : \E S \in SUBSET (0 .. n) : Cardinality(S) = k /\ ~\E s : Listed(s, S)}
<1>1. ASSUME NEW S \in SUBSET (0 .. n)
      PROVE  IsFiniteSet(S) /\ Cardinality(S) \in Nat
  <2>1. IsFiniteSet(0 .. n)
    BY FS_Interval
  <2>. QED
    BY <2>1, FS_Subset, FS_CardinalityType
<1>2. SUFFICES ASSUME Fails # {} PROVE FALSE
  BY <1>1
<1>3. PICK k \in Fails : \A y \in Fails : k <= y
  BY <1>2, LeastNumber
<1>4. PICK S \in SUBSET (0 .. n) : Cardinality(S) = k /\ ~\E s : Listed(s, S)
  BY <1>3
<1>5. CASE S = {}
  <2>1. Cardinality(S) = 0
    BY <1>5, FS_EmptySet
  <2>. DEFINE s == [i \in 1 .. Cardinality(S) |-> 0]
  <2>2. Listed(s, S)
    BY <1>5, <2>1 DEF Listed, Descends
  <2>. QED
    BY <1>4, <2>2
<1>6. CASE S # {}
  <2>1. PICK x \in S : \A y \in S : x <= y
    <3>1. S \in SUBSET Nat
      OBVIOUS
    <3>. QED
      BY <1>6, <3>1, LeastNumber
  <2>. DEFINE R == S \ {x}
  <2>2. Cardinality(R) = k - 1 /\ k - 1 \in Nat
    <3>1. Cardinality(R) = Cardinality(S) - 1
      BY <1>1, FS_RemoveElement
    <3>2. R \in SUBSET (0 .. n)
      OBVIOUS
    <3>. QED
      BY <1>1, <1>4, <3>1, <3>2
  <2>3. k - 1 \notin Fails
    BY <1>3, <2>2
  <2>4. PICK s : Listed(s, R)
    BY <2>2, <2>3
  <2>. DEFINE t == [i \in 1 .. k |-> IF i = k THEN x ELSE s[i]]
  <2>5. DOMAIN s = 1 .. k - 1 /\ \A i \in 1 .. k - 1 : s[i] \in S /\ s[i] # x
    BY <2>2, <2>4 DEF Listed, Descends
  <2>6. t \in [1 .. Cardinality(S) -> S]
    BY <1>4, <2>2, <2>5
  <2>7. ASSUME NEW i \in DOMAIN t, NEW j \in DOMAIN t, i < j
        PROVE  t[i] > t[j]
    <3>1. i \in 1 .. k - 1 /\ t[i] = s[i]
      BY <2>2, <2>7
    <3>2. CASE j = k
      <4>1. t[j] = x /\ s[i] \in S /\ s[i] # x
        BY <2>2, <2>5, <3>1, <3>2
      <4>2. x <= s[i] /\ x \in Nat /\ s[i] \in Nat
        <5>1. S \in SUBSET Nat
          OBVIOUS
        <5>. QED
          BY <2>1, <4>1, <5>1
      <4>. QED
        BY <3>1, <4>1, <4>2
    <3>3. CASE j # k
      <4>1. j \in 1 .. k - 1 /\ t[j] = s[j]
        BY <2>2, <3>3
      <4>. QED
        BY <2>4, <2>5, <2>7, <3>1, <4>1 DEF Listed, Descends
    <3>. QED
      BY <3>2, <3>3
  <2>8. ASSUME NEW y \in S PROVE \E i \in DOMAIN t : t[i] = y
    <3>1. CASE y = x
      BY <2>2, <3>1
    <3>2. CASE y # x
      <4>1. PICK i \in DOMAIN s : s[i] = y
        BY <2>4, <3>2 DEF Listed
      <4>. QED
        BY <2>2, <2>5, <4>1
    <3>. QED
      BY <3>1, <3>2
  <2>9. Listed(t, S)
    BY <2>6, <2>7, <2>8 DEF Listed, Descends
  <2>. QED
    BY <1>4, <2>9
<1>. QED
  BY <1>5, <1>6

\* A list that descends holds every number of its set.
LEMMA DescendingLists ==
    ASSUME NEW n \in Nat, NEW T \in SUBSET (0 .. n), NEW f, Descends(f, T)
    PROVE  f \in Seq(T) /\ \A x \in T : \E i \in DOMAIN f : f[i] = x
<1>1. IsFiniteSet(T) /\ Cardinality(T) \in Nat
  <2>1. IsFiniteSet(0 .. n)
    BY FS_Interval
  <2>. QED
    BY <2>1, FS_Subset, FS_CardinalityType
<1>2. f \in Seq(T)
  BY <1>1 DEF Descends
<1>3. DOMAIN f = 1 .. Cardinality(T) /\ \A i \in DOMAIN f : f[i] \in T
  BY DEF Descends
<1>4. ASSUME NEW i \in DOMAIN f, NEW j \in DOMAIN f, i < j PROVE f[i] # f[j]
  <2>1. f[i] > f[j]
    BY <1>4 DEF Descends
  <2>2. \A x \in T : x \in Nat
    OBVIOUS
  <2>3. f[i] \in Nat /\ f[j] \in Nat
    BY <1>3, <1>4, <2>2
  <2>. QED
    BY <2>1, <2>3
<1>5. ASSUME NEW x \in T, \A i \in DOMAIN f : f[i] # x PROVE FALSE
  <2>. DEFINE R == T \ {x}
  <2>1. IsFiniteSet(R) /\ Cardinality(R) = Cardinality(T) - 1
    BY <1>1, FS_RemoveElement
  <2>2. IsFiniteSet(1 .. Cardinality(T)) /\ Cardinality(1 .. Cardinality(T)) = Cardinality(T)
    BY <1>1, FS_Interval
  <2>3. f \in [1 .. Cardinality(T) -> R]
    BY <1>3, <1>5 DEF Descends
  <2>4. Cardinality(R) < Cardinality(1 .. Cardinality(T))
    BY <1>1, <2>1, <2>2
  <2>5. PICK i, j \in 1 .. Cardinality(T) : i # j /\ f[i] = f[j]
    <3>. DEFINE D == 1 .. Cardinality(T)
    <3>. HIDE DEF D, R
    <3>1. IsFiniteSet(D) /\ IsFiniteSet(R) /\ Cardinality(R) < Cardinality(D) /\ f \in [D -> R]
      BY <2>1, <2>2, <2>3, <2>4 DEF D
    <3>2. \E i, j \in D : i # j /\ f[i] = f[j]
      BY <3>1, FS_PigeonHole
    <3>. QED
      BY <3>2 DEF D
  <2>6. i < j \/ j < i
    BY <1>1, <2>5
  <2>. QED
    BY <1>3, <1>4, <2>5, <2>6
<1>. QED
  BY <1>2, <1>5

LEMMA NewestFirstLists ==
    ASSUME NEW n \in Nat, NEW T \in SUBSET (0 .. n)
    PROVE  /\ NewestFirst(T) \in Seq(T)
           /\ \A x \in T : \E i \in DOMAIN NewestFirst(T) : NewestFirst(T)[i] = x
<1>0. \A f : Descends(f, T) => f \in Seq(T) /\ \A x \in T : \E i \in DOMAIN f : f[i] = x
  BY DescendingLists
<1>1. PICK s : Descends(s, T)
  BY ListExists DEF Listed
<1>2. Descends(NewestFirst(T), T)
  BY <1>1, Zenon DEF Descends, NewestFirst
<1>. QED
  BY <1>0, <1>2

\* Sequences of whatever values.
IsSeq(s) == s \in Seq({s[i] : i \in DOMAIN s})

LEMMA SeqOfOwn ==
    ASSUME NEW S, NEW t \in Seq(S)
    PROVE  IsSeq(t)
<1>1. Len(t) \in Nat /\ t \in [1 .. Len(t) -> S]
  OBVIOUS
<1>. DEFINE T == {t[i] : i \in DOMAIN t}
            n == Len(t)
<1>2. DOMAIN t = 1 .. n /\ n \in Nat
  BY <1>1
<1>. HIDE DEF n
<1>3. t = [i \in 1 .. n |-> t[i]]
  BY <1>1 DEF n
<1>4. \A i \in 1 .. n : t[i] \in T
  BY <1>2
<1>. HIDE DEF T
<1>5. t \in [1 .. n -> T]
  BY <1>3, <1>4
<1>6. t \in Seq(T)
  BY <1>2, <1>5
<1>. QED
  BY <1>6 DEF T, IsSeq

LEMMA SeqFacts ==
    ASSUME NEW s, IsSeq(s)
    PROVE  Len(s) \in Nat /\ DOMAIN s = 1 .. Len(s) /\ s = [i \in 1 .. Len(s) |-> s[i]]
BY DEF IsSeq

LEMMA MappedSeq ==
    ASSUME NEW s, IsSeq(s), NEW t, t = [i \in DOMAIN s |-> t[i]]
    PROVE  IsSeq(t) /\ Len(t) = Len(s) /\ DOMAIN t = DOMAIN s
<1>. DEFINE n == Len(s)
<1>1. n \in Nat /\ DOMAIN s = 1 .. n
  BY SeqFacts
<1>. HIDE DEF n
<1>2. DOMAIN t = 1 .. n /\ t \in [1 .. n -> {t[i] : i \in DOMAIN t}]
  BY <1>1
<1>3. t \in Seq({t[i] : i \in DOMAIN t}) /\ Len(t) = n
  BY <1>1, <1>2
<1>. QED
  BY <1>1, <1>2, <1>3 DEF IsSeq, n

LEMMA LongerSeq ==
    ASSUME NEW s, IsSeq(s), NEW x
    PROVE  /\ IsSeq(Append(s, x)) /\ Len(Append(s, x)) = Len(s) + 1
           /\ DOMAIN Append(s, x) = 1 .. Len(s) + 1 /\ Append(s, x)[Len(s) + 1] = x
           /\ \A i \in 1 .. Len(s) : Append(s, x)[i] = s[i]
<1>. DEFINE S == {s[i] : i \in DOMAIN s} \cup {x}
            t == Append(s, x)
<1>1. s \in Seq(S)
  BY DEF IsSeq
<1>2. /\ t \in Seq(S) /\ Len(t) = Len(s) + 1 /\ DOMAIN t = 1 .. Len(s) + 1 /\ t[Len(s) + 1] = x
      /\ \A i \in 1 .. Len(s) : t[i] = s[i]
  BY <1>1
<1>3. IsSeq(t)
  BY <1>2, SeqOfOwn
<1>. QED
  BY <1>2, <1>3

LEMMA JoinedSeq ==
    ASSUME NEW s, NEW t, IsSeq(s), IsSeq(t)
    PROVE  /\ IsSeq(s \o t) /\ Len(s \o t) = Len(s) + Len(t)
           /\ \A i \in 1 .. Len(s) : (s \o t)[i] = s[i]
           /\ \A i \in 1 .. Len(t) : (s \o t)[Len(s) + i] = t[i]
<1>. DEFINE S == {s[i] : i \in DOMAIN s} \cup {t[i] : i \in DOMAIN t}
            u == s \o t
<1>1. s \in Seq(S) /\ t \in Seq(S)
  BY DEF IsSeq
<1>2. /\ u \in Seq(S) /\ Len(u) = Len(s) + Len(t) /\ DOMAIN u = 1 .. Len(u) /\ Len(u) \in Nat
      /\ \A i \in 1 .. Len(s) : u[i] = s[i]
      /\ \A i \in 1 .. Len(t) : u[Len(s) + i] = t[i]
  BY <1>1
<1>3. IsSeq(u)
  BY <1>2, SeqOfOwn
<1>. QED
  BY <1>2, <1>3

-----------------------------------------------------------------------------
\* The rows have their fields.
EntryType == [seq : Nat, type : {"note", "status"}, target : Nat, by : Nat, expires : {"never", "ahead", "past"}]
SnapShape(s) ==
    /\ s = [consumer |-> s.consumer, head |-> s.head, items |-> s.items, issued |-> s.issued,
            acked |-> s.acked, old |-> s.old]
    /\ s.head \in Nat /\ s.items \in Seq(Nat) /\ s.issued \in Nat
CursorShape(x) ==
    /\ x = [state |-> x.state, seq |-> x.seq, issued |-> x.issued, snap |-> x.snap, boot |-> x.boot,
            resnap |-> x.resnap, old |-> x.old]
    /\ x.seq \in Nat /\ x.issued \in Nat /\ x.snap \in Nat
ToldShape(y) ==
    /\ y = [view |-> y.view, got |-> y.got, sid |-> y.sid, token |-> y.token, done |-> y.done,
            through |-> y.through]
    /\ y.sid \in Nat /\ y.token \in Nat /\ y.through \in Nat

StoreShape(m) ==
    /\ m = [head |-> m.head, floor |-> m.floor, entries |-> m.entries, snaps |-> m.snaps, cur |-> m.cur]
    /\ m.head \in Nat /\ m.floor \in Nat /\ m.floor <= m.head
    /\ m.entries \in SUBSET EntryType
    /\ IsSeq(m.snaps) /\ \A i \in DOMAIN m.snaps : SnapShape(m.snaps[i])
    /\ m.cur = [c \in MemoryConsumers |-> m.cur[c]]
    /\ \A c \in MemoryConsumers : CursorShape(m.cur[c])

\* What stands above the floor is all there; a target is marked with its first replacement.
EntriesGood(m) ==
    /\ \A e \in m.entries : /\ 1 <= e.seq /\ e.seq <= m.head /\ e.target < e.seq
                            /\ e.by = 0 \/ (e.seq < e.by /\ e.by <= m.head)
    /\ \A e, f \in m.entries : e.seq = f.seq => e = f
    /\ \A k \in 1 .. m.head : m.floor < k => \E e \in m.entries : e.seq = k
    /\ \A e, f \in m.entries : e.by = f.seq => f.target = e.seq
    /\ \A e, f \in m.entries : f.target = e.seq => e.by # 0

\* The view is that of a reader who has seen the entries up to k.
Shown(m, view, k) ==
    /\ k <= m.head
    /\ \A e \in m.entries : e.seq \in view => e.by = 0 \/ k < e.by \/ e.expires = "past"
    /\ \A e \in m.entries : e.by = 0 /\ e.expires # "past" /\ e.type = "note" /\ e.seq <= k => e.seq \in view

HeldItems(shown, n) == {shown[i] : i \in 1 .. n}

\* A snapshot shows the store as it was at its head.
SnapsGood(m) ==
    \A i \in DOMAIN m.snaps :
        m.snaps[i].consumer # "" => Shown(m, HeldItems(m.snaps[i].items, Len(m.snaps[i].items)), m.snaps[i].head)

\* A consumer that takes deltas sees the store up to its cursor, and up to the delta it was told.
ByDelta(x) == x.boot /\ ~x.resnap /\ x.snap = 0
PlaceGood(m, x, y) ==
    ByDelta(x) => Shown(m, y.view, x.seq) /\ (y.through # 0 => Shown(m, y.view, y.through))

\* What a consumer holds of a snapshot is its pages up to the token.
PagesGood(m, c, y) ==
    /\ y.sid <= Len(m.snaps)
    /\ y.done => y.sid # 0
    /\ y.sid # 0 => y.through = 0
    /\ y.sid # 0 /\ Owned(m, c, y.sid) =>
          LET shown == m.snaps[y.sid].items
          IN /\ y.token <= Len(shown) /\ y.got = HeldItems(shown, y.token)
             /\ y.done => y.token = Len(shown) /\ y.view = y.got

ConsumersGood(m, t) ==
    \A c \in MemoryConsumers :
        ToldShape(t[c]) /\ PlaceGood(m, m.cur[c], t[c]) /\ PagesGood(m, c, t[c])

StoreGood(m, t) ==
    StoreShape(m) /\ EntriesGood(m) /\ SnapsGood(m) /\ ConsumersGood(m, t) /\ t = [c \in MemoryConsumers |-> t[c]]

MemoryInv == StoreGood(mem, told)

-----------------------------------------------------------------------------
\* A later store has new entries above the head; the earlier ones may be gone, replaced or past.
Since(m, f) ==
    \E e \in m.entries : /\ e.seq = f.seq /\ e.type = f.type
                         /\ f.by = e.by \/ (e.by = 0 /\ f.by > m.head)
                         /\ f.expires = e.expires \/ f.expires = "past"
Later(m, n) ==
    /\ m.head <= n.head
    /\ \A f \in n.entries : (f.seq > m.head /\ f.by = 0) \/ Since(m, f)

LEMMA ShownLater ==
    ASSUME NEW m, NEW n, StoreShape(m), StoreShape(n), Later(m, n), NEW view, NEW k \in Nat, Shown(m, view, k)
    PROVE  Shown(n, view, k)
<1>1. k <= n.head
  BY DEF StoreShape, Later, Shown
<1>2. ASSUME NEW f \in n.entries PROVE f.seq \in Nat /\ f.by \in Nat
  BY DEF StoreShape, EntryType
<1>3. ASSUME NEW e \in m.entries PROVE e.seq \in Nat /\ e.by \in Nat
  BY DEF StoreShape, EntryType
<1>4. m.head \in Nat
  BY DEF StoreShape
<1>5. ASSUME NEW f \in n.entries, f.seq \in view
      PROVE  f.by = 0 \/ k < f.by \/ f.expires = "past"
  <2>1. CASE Since(m, f)
    <3>1. PICK e \in m.entries : /\ e.seq = f.seq
                                 /\ f.by = e.by \/ (e.by = 0 /\ f.by > m.head)
                                 /\ f.expires = e.expires \/ f.expires = "past"
      BY <2>1 DEF Since
    <3>2. e.by = 0 \/ k < e.by \/ e.expires = "past"
      BY <1>5, <3>1 DEF Shown
    <3>3. k <= m.head
      BY DEF Shown
    <3>. QED
      BY <1>2, <1>3, <1>4, <3>1, <3>2, <3>3
  <2>. QED
    BY <2>1 DEF Later
<1>6. ASSUME NEW f \in n.entries, f.by = 0, f.expires # "past", f.type = "note", f.seq <= k
      PROVE  f.seq \in view
  <2>1. k <= m.head
    BY DEF Shown
  <2>2. Since(m, f)
    BY <1>2, <1>4, <1>6, <2>1 DEF Later
  <2>3. PICK e \in m.entries : /\ e.seq = f.seq /\ e.type = f.type
                               /\ f.by = e.by \/ (e.by = 0 /\ f.by > m.head)
                               /\ f.expires = e.expires \/ f.expires = "past"
    BY <2>2 DEF Since
  <2>4. e.by = 0 /\ e.expires # "past" /\ e.type = "note" /\ e.seq <= k
    BY <1>3, <1>4, <1>6, <2>3
  <2>. QED
    BY <2>3, <2>4 DEF Shown
<1>. QED
  BY <1>1, <1>5, <1>6 DEF Shown

LEMMA ShownSame ==
    ASSUME NEW m, NEW n, n.head = m.head, n.entries = m.entries, NEW view, NEW k
    PROVE  Shown(n, view, k) <=> Shown(m, view, k)
BY DEF Shown

\* Entries come and go, and the rows stay.
LEMMA EntriesChange ==
    ASSUME NEW m, NEW t, StoreGood(m, t), NEW n, StoreShape(n), EntriesGood(n), Later(m, n),
           n.snaps = m.snaps, n.cur = m.cur
    PROVE  StoreGood(n, t)
<1>1. StoreShape(m) /\ SnapsGood(m) /\ ConsumersGood(m, t)
  BY DEF StoreGood
<1>2. SnapsGood(n)
  <2>1. SUFFICES ASSUME NEW i \in DOMAIN m.snaps, m.snaps[i].consumer # ""
                 PROVE  Shown(n, HeldItems(m.snaps[i].items, Len(m.snaps[i].items)), m.snaps[i].head)
    BY DEF SnapsGood
  <2>2. m.snaps[i].head \in Nat
    BY <1>1 DEF StoreShape, SnapShape
  <2>3. Shown(m, HeldItems(m.snaps[i].items, Len(m.snaps[i].items)), m.snaps[i].head)
    BY <1>1, <2>1 DEF SnapsGood
  <2>. QED
    BY <1>1, <2>2, <2>3, ShownLater
<1>3. ASSUME NEW c \in MemoryConsumers
      PROVE  ToldShape(t[c]) /\ PlaceGood(n, n.cur[c], t[c]) /\ PagesGood(n, c, t[c])
  <2>1. ToldShape(t[c]) /\ PlaceGood(m, m.cur[c], t[c]) /\ PagesGood(m, c, t[c])
    BY <1>1 DEF ConsumersGood
  <2>2. m.cur[c].seq \in Nat /\ t[c].through \in Nat
    BY <1>1, <2>1 DEF StoreShape, CursorShape, ToldShape
  <2>3. PlaceGood(n, n.cur[c], t[c])
    <3>1. SUFFICES ASSUME ByDelta(m.cur[c])
                   PROVE  /\ Shown(n, t[c].view, m.cur[c].seq)
                          /\ t[c].through # 0 => Shown(n, t[c].view, t[c].through)
      BY DEF PlaceGood
    <3>2. Shown(m, t[c].view, m.cur[c].seq) /\ (t[c].through # 0 => Shown(m, t[c].view, t[c].through))
      BY <2>1, <3>1 DEF PlaceGood
    <3>. QED
      BY <1>1, <2>2, <3>2, ShownLater
  <2>4. PagesGood(n, c, t[c])
    BY <2>1 DEF PagesGood, Owned
  <2>. QED
    BY <2>1, <2>3, <2>4
<1>. QED
  BY <1>2, <1>3 DEF StoreGood, ConsumersGood

\* A snapshot that is not deleted keeps what it holds, and a new one shows the store.
SameRow(r, s) == s.consumer = r.consumer /\ s.head = r.head /\ s.items = r.items
NewRow(m, s) == Shown(m, HeldItems(s.items, Len(s.items)), s.head)
RowFollows(m, n, i) ==
    \/ i \in DOMAIN m.snaps /\ SameRow(m.snaps[i], n.snaps[i])
    \/ i \notin DOMAIN m.snaps /\ NewRow(m, n.snaps[i])
RowsFollow(m, n) ==
    /\ n.head = m.head /\ n.floor = m.floor /\ n.entries = m.entries
    /\ Len(m.snaps) <= Len(n.snaps)
    /\ \A i \in DOMAIN n.snaps : n.snaps[i].consumer # "" => RowFollows(m, n, i)

\* Snapshots are added, marked or dropped, and cursors move to a place that their view bears.
LEMMA RowsChange ==
    ASSUME NEW m, NEW t, StoreGood(m, t), NEW n, StoreShape(n), RowsFollow(m, n),
           \A c \in MemoryConsumers : PlaceGood(m, n.cur[c], t[c])
    PROVE  StoreGood(n, t)
<1>1. StoreShape(m) /\ EntriesGood(m) /\ SnapsGood(m) /\ ConsumersGood(m, t)
  BY DEF StoreGood
<1>2. EntriesGood(n)
  BY <1>1 DEF EntriesGood, RowsFollow
<1>3. SnapsGood(n)
  <2>1. SUFFICES ASSUME NEW i \in DOMAIN n.snaps, n.snaps[i].consumer # ""
                 PROVE  Shown(m, HeldItems(n.snaps[i].items, Len(n.snaps[i].items)), n.snaps[i].head)
    BY ShownSame DEF SnapsGood, RowsFollow
  <2>2. CASE i \in DOMAIN m.snaps
    BY <1>1, <2>1, <2>2 DEF SnapsGood, RowsFollow, RowFollows, SameRow, NewRow
  <2>. QED
    BY <2>1, <2>2 DEF RowsFollow, RowFollows, SameRow, NewRow
<1>4. ASSUME NEW c \in MemoryConsumers
      PROVE  ToldShape(t[c]) /\ PlaceGood(n, n.cur[c], t[c]) /\ PagesGood(n, c, t[c])
  <2>1. ToldShape(t[c]) /\ PagesGood(m, c, t[c])
    BY <1>1 DEF ConsumersGood
  <2>2. PlaceGood(n, n.cur[c], t[c])
    BY ShownSame DEF PlaceGood, RowsFollow
  <2>3. PagesGood(n, c, t[c])
    <3>1. Len(m.snaps) \in Nat /\ Len(n.snaps) \in Nat /\ DOMAIN m.snaps = 1 .. Len(m.snaps)
          /\ DOMAIN n.snaps = 1 .. Len(n.snaps) /\ t[c].sid \in Nat
      BY <1>1, <2>1, SeqFacts DEF StoreShape, ToldShape
    <3>0. t[c].sid <= Len(m.snaps)
      BY <2>1, Zenon DEF PagesGood
    <3>2. t[c].sid <= Len(n.snaps)
      <4>1. Len(m.snaps) <= Len(n.snaps)
        BY DEF RowsFollow
      <4>. QED
        BY <3>0, <3>1, <4>1
    <3>3. ASSUME t[c].sid # 0, Owned(n, c, t[c].sid)
          PROVE  Owned(m, c, t[c].sid) /\ n.snaps[t[c].sid].items = m.snaps[t[c].sid].items
      <4>1. t[c].sid \in DOMAIN m.snaps
        BY <3>0, <3>1, <3>3
      <4>2. n.snaps[t[c].sid].consumer # "" /\ t[c].sid \in DOMAIN n.snaps
        BY <3>3, MemoryAssumption DEF Owned
      <4>. QED
        BY <3>3, <4>1, <4>2 DEF Owned, RowsFollow, RowFollows, SameRow, NewRow
    <3>. QED
      BY <2>1, <3>2, <3>3 DEF PagesGood
  <2>. QED
    BY <2>1, <2>2, <2>3
<1>. QED
  BY <1>2, <1>3, <1>4 DEF StoreGood, ConsumersGood

-----------------------------------------------------------------------------
\* The records that the transactions and replies write, field by field.
CursorOf(a, b, c, d, e, f, g) ==
    [state |-> a, seq |-> b, issued |-> c, snap |-> d, boot |-> e, resnap |-> f, old |-> g]
RowOf(a, b, c, d, e, f) ==
    [consumer |-> a, head |-> b, items |-> c, issued |-> d, acked |-> e, old |-> f]
ToldOf(a, b, c, d, e, f) ==
    [view |-> a, got |-> b, sid |-> c, token |-> d, done |-> e, through |-> f]

LEMMA FreshEdit ==
    ASSUME NEW h
    PROVE  [NoCursor EXCEPT !.state = h] = CursorOf(h, 0, 0, 0, FALSE, FALSE, FALSE)
<1>1. ASSUME NEW p, NEW q, NEW r, NEW x, x = CursorOf("none", 0, 0, 0, p, q, r)
      PROVE  [x EXCEPT !.state = h] = CursorOf(h, 0, 0, 0, p, q, r)
  BY <1>1 DEF CursorOf
<1>2. NoCursor = CursorOf("none", 0, 0, 0, FALSE, FALSE, FALSE)
  BY Zenon DEF NoCursor, CursorOf
<1>. QED
  BY <1>1, <1>2, Zenon

LEMMA TouchEdit ==
    ASSUME NEW r, CursorShape(r)
    PROVE  [r EXCEPT !.old = FALSE] = CursorOf(r.state, r.seq, r.issued, r.snap, r.boot, r.resnap, FALSE)
<1>1. r = CursorOf(r.state, r.seq, r.issued, r.snap, r.boot, r.resnap, r.old)
  BY DEF CursorShape, CursorOf
<1>2. ASSUME NEW h PROVE [r EXCEPT !.old = h] = CursorOf(r.state, r.seq, r.issued, r.snap, r.boot, r.resnap, h)
  BY <1>1 DEF CursorOf
<1>. QED
  BY <1>2, Zenon

LEMMA DropEdit ==
    ASSUME NEW r, CursorShape(r)
    PROVE  [r EXCEPT !.snap = 0, !.resnap = TRUE] = CursorOf(r.state, r.seq, r.issued, 0, r.boot, TRUE, r.old)
<1>1. r = CursorOf(r.state, r.seq, r.issued, r.snap, r.boot, r.resnap, r.old)
  BY DEF CursorShape, CursorOf
<1>. DEFINE s == [r EXCEPT !.snap = 0]
<1>2. s = CursorOf(r.state, r.seq, r.issued, 0, r.boot, r.resnap, r.old)
  BY <1>1 DEF CursorOf
<1>3. [r EXCEPT !.snap = 0, !.resnap = TRUE] = [s EXCEPT !.resnap = TRUE]
  OBVIOUS
<1>. HIDE DEF s
<1>4. ASSUME NEW h PROVE [s EXCEPT !.resnap = h] = CursorOf(r.state, r.seq, r.issued, 0, r.boot, h, r.old)
  BY <1>2 DEF CursorOf
<1>5. [s EXCEPT !.resnap = TRUE] = CursorOf(r.state, r.seq, r.issued, 0, r.boot, TRUE, r.old)
  BY <1>4, Zenon
<1>. QED
  BY <1>3, <1>5 DEF s

LEMMA AckEdit ==
    ASSUME NEW r, CursorShape(r), NEW k, NEW j
    PROVE  [r EXCEPT !.seq = k, !.issued = j, !.snap = 0, !.boot = TRUE, !.resnap = FALSE]
           = CursorOf(r.state, k, j, 0, TRUE, FALSE, r.old)
<1>1. r = CursorOf(r.state, r.seq, r.issued, r.snap, r.boot, r.resnap, r.old)
  BY DEF CursorShape, CursorOf
<1>. DEFINE a == [r EXCEPT !.seq = k]
            b == [a EXCEPT !.issued = j]
            c == [b EXCEPT !.snap = 0]
            d == [c EXCEPT !.boot = TRUE]
            e == [d EXCEPT !.resnap = FALSE]
<1>2. [r EXCEPT !.seq = k, !.issued = j, !.snap = 0, !.boot = TRUE, !.resnap = FALSE] = e
  OBVIOUS
<1>3. a = CursorOf(r.state, k, r.issued, r.snap, r.boot, r.resnap, r.old)
  BY <1>1 DEF CursorOf
<1>. HIDE DEF a
<1>4. b = CursorOf(r.state, k, j, r.snap, r.boot, r.resnap, r.old)
  BY <1>3 DEF CursorOf
<1>. HIDE DEF b
<1>5. c = CursorOf(r.state, k, j, 0, r.boot, r.resnap, r.old)
  BY <1>4 DEF CursorOf
<1>. HIDE DEF c
<1>6. d = CursorOf(r.state, k, j, 0, TRUE, r.resnap, r.old)
  <2>1. ASSUME NEW h PROVE [c EXCEPT !.boot = h] = CursorOf(r.state, k, j, 0, h, r.resnap, r.old)
    BY <1>5 DEF CursorOf
  <2>. QED
    BY <2>1, Zenon
<1>. HIDE DEF d
<1>7. e = CursorOf(r.state, k, j, 0, TRUE, FALSE, r.old)
  <2>1. ASSUME NEW h PROVE [d EXCEPT !.resnap = h] = CursorOf(r.state, k, j, 0, TRUE, h, r.old)
    <3>1. ASSUME NEW q, d = CursorOf(r.state, k, j, 0, q, r.resnap, r.old)
          PROVE  [d EXCEPT !.resnap = h] = CursorOf(r.state, k, j, 0, q, h, r.old)
      BY <3>1 DEF CursorOf
    <3>. QED
      BY <1>6, <3>1, Zenon
  <2>. QED
    BY <2>1, Zenon
<1>. QED
  BY <1>2, <1>7

LEMMA IssuedEdits ==
    ASSUME NEW k
    PROVE  /\ \A r : CursorShape(r) =>
                [r EXCEPT !.issued = k] = CursorOf(r.state, r.seq, k, r.snap, r.boot, r.resnap, r.old)
           /\ \A r : CursorShape(r) =>
                [r EXCEPT !.seq = k] = CursorOf(r.state, k, r.issued, r.snap, r.boot, r.resnap, r.old)
           /\ \A r : CursorShape(r) =>
                [r EXCEPT !.snap = k] = CursorOf(r.state, r.seq, r.issued, k, r.boot, r.resnap, r.old)
           /\ \A r : SnapShape(r) =>
                [r EXCEPT !.issued = k] = RowOf(r.consumer, r.head, r.items, k, r.acked, r.old)
<1>1. ASSUME NEW r, CursorShape(r)
      PROVE  /\ [r EXCEPT !.issued = k] = CursorOf(r.state, r.seq, k, r.snap, r.boot, r.resnap, r.old)
             /\ [r EXCEPT !.seq = k] = CursorOf(r.state, k, r.issued, r.snap, r.boot, r.resnap, r.old)
             /\ [r EXCEPT !.snap = k] = CursorOf(r.state, r.seq, r.issued, k, r.boot, r.resnap, r.old)
  <2>1. r = CursorOf(r.state, r.seq, r.issued, r.snap, r.boot, r.resnap, r.old)
    BY <1>1 DEF CursorShape, CursorOf
  <2>2. [r EXCEPT !.issued = k] = CursorOf(r.state, r.seq, k, r.snap, r.boot, r.resnap, r.old)
    BY <2>1 DEF CursorOf
  <2>3. [r EXCEPT !.seq = k] = CursorOf(r.state, k, r.issued, r.snap, r.boot, r.resnap, r.old)
    BY <2>1 DEF CursorOf
  <2>4. [r EXCEPT !.snap = k] = CursorOf(r.state, r.seq, r.issued, k, r.boot, r.resnap, r.old)
    BY <2>1 DEF CursorOf
  <2>. QED
    BY <2>2, <2>3, <2>4
<1>2. ASSUME NEW r, SnapShape(r)
      PROVE  [r EXCEPT !.issued = k] = RowOf(r.consumer, r.head, r.items, k, r.acked, r.old)
  BY <1>2 DEF SnapShape, RowOf
<1>. QED
  BY <1>1, <1>2

LEMMA AckedEdit ==
    ASSUME NEW r, SnapShape(r)
    PROVE  [r EXCEPT !.acked = TRUE, !.old = FALSE] = RowOf(r.consumer, r.head, r.items, r.issued, TRUE, FALSE)
<1>1. r = RowOf(r.consumer, r.head, r.items, r.issued, r.acked, r.old)
  BY DEF SnapShape, RowOf
<1>. DEFINE s == [r EXCEPT !.acked = TRUE]
<1>2. [r EXCEPT !.acked = TRUE, !.old = FALSE] = [s EXCEPT !.old = FALSE]
  OBVIOUS
<1>3. s = RowOf(r.consumer, r.head, r.items, r.issued, TRUE, r.old)
  <2>1. ASSUME NEW h PROVE [r EXCEPT !.acked = h] = RowOf(r.consumer, r.head, r.items, r.issued, h, r.old)
    BY <1>1 DEF RowOf
  <2>. QED
    BY <2>1, Zenon
<1>. HIDE DEF s
<1>4. [s EXCEPT !.old = FALSE] = RowOf(r.consumer, r.head, r.items, r.issued, TRUE, FALSE)
  <2>1. ASSUME NEW h PROVE [s EXCEPT !.old = h] = RowOf(r.consumer, r.head, r.items, r.issued, TRUE, h)
    <3>1. ASSUME NEW q, s = RowOf(r.consumer, r.head, r.items, r.issued, q, r.old)
          PROVE  [s EXCEPT !.old = h] = RowOf(r.consumer, r.head, r.items, r.issued, q, h)
      BY <3>1 DEF RowOf
    <3>. QED
      BY <1>3, <3>1, Zenon
  <2>. QED
    BY <2>1, Zenon
<1>. QED
  BY <1>2, <1>4 DEF s

LEMMA ToldEdits ==
    ASSUME NEW v, NEW k
    PROVE  /\ [NothingTold EXCEPT !.view = v] = ToldOf(v, {}, 0, 0, FALSE, 0)
           /\ [NothingTold EXCEPT !.view = v, !.through = k] = ToldOf(v, {}, 0, 0, FALSE, k)
<1>1. NothingTold = ToldOf({}, {}, 0, 0, FALSE, 0)
  BY Zenon DEF NothingTold, ToldOf
<1>. DEFINE s == [NothingTold EXCEPT !.view = v]
<1>2. s = ToldOf(v, {}, 0, 0, FALSE, 0)
  <2>1. ASSUME NEW q, NEW x, x = ToldOf({}, {}, 0, 0, q, 0) PROVE [x EXCEPT !.view = v] = ToldOf(v, {}, 0, 0, q, 0)
    BY <2>1 DEF ToldOf
  <2>. QED
    BY <1>1, <2>1, Zenon
<1>3. [NothingTold EXCEPT !.view = v, !.through = k] = [s EXCEPT !.through = k]
  OBVIOUS
<1>4. [s EXCEPT !.through = k] = ToldOf(v, {}, 0, 0, FALSE, k)
  <2>1. ASSUME NEW q, NEW x, x = ToldOf(v, {}, 0, 0, q, 0) PROVE [x EXCEPT !.through = k] = ToldOf(v, {}, 0, 0, q, k)
    BY <2>1 DEF ToldOf
  <2>. QED
    BY <1>2, <2>1, Zenon
<1>. QED
  BY <1>2, <1>3, <1>4

\* What such a record holds.
LEMMA CursorFields ==
    ASSUME NEW a, NEW b \in Nat, NEW c \in Nat, NEW d \in Nat, NEW e, NEW f, NEW g, NEW x,
           x = CursorOf(a, b, c, d, e, f, g)
    PROVE  /\ CursorShape(x) /\ x.state = a /\ x.seq = b /\ x.issued = c /\ x.snap = d /\ x.boot = e
           /\ x.resnap = f
BY DEF CursorOf, CursorShape

-----------------------------------------------------------------------------
\* The transactions of the handlers keep what the rows are worth to what the consumers were told.
LEMMA RaisedFloor ==
    ASSUME NEW m, StoreShape(m), EntriesGood(m), NEW gone \in SUBSET m.entries
    PROVE  /\ RaiseFloor(m, gone) \in Nat /\ m.floor <= RaiseFloor(m, gone) /\ RaiseFloor(m, gone) <= m.head
           /\ \A e \in gone : e.seq <= RaiseFloor(m, gone)
<1>. DEFINE T == {m.floor} \cup {e.seq : e \in gone}
<1>1. m.head \in Nat /\ m.floor \in Nat /\ m.floor <= m.head /\ \A e \in m.entries : e.seq \in Nat
  BY DEF StoreShape, EntryType
<1>2. \A e \in m.entries : e.seq <= m.head
  BY DEF EntriesGood
<1>3. \A x \in T : x \in Nat /\ x <= m.head
  BY <1>1, <1>2
<1>4. T \in SUBSET (0 .. m.head) /\ T # {}
  BY <1>1, <1>3
<1>5. Max(T) \in T /\ \A y \in T : Max(T) >= y
  BY <1>1, <1>4, GreatestNumber
<1>6. RaiseFloor(m, gone) = Max(T)
  BY DEF RaiseFloor
<1>7. m.floor \in T /\ \A e \in gone : e.seq \in T
  OBVIOUS
<1>. QED
  BY <1>1, <1>3, <1>5, <1>6, <1>7

LEMMA ExpireEntriesKeeps ==
    ASSUME NEW m, NEW t, StoreGood(m, t)
    PROVE  StoreGood(ExpireEntries(m), t) /\ ExpireEntries(m).entries \subseteq m.entries
<1>. DEFINE gone == {e \in m.entries : e.expires = "past"}
            n == ExpireEntries(m)
            floor == RaiseFloor(m, gone)
<1>1. StoreShape(m) /\ EntriesGood(m)
  BY DEF StoreGood
<1>2. n = [head |-> m.head, floor |-> floor, entries |-> m.entries \ gone, snaps |-> m.snaps, cur |-> m.cur]
  <2>1. m = [head |-> m.head, floor |-> m.floor, entries |-> m.entries, snaps |-> m.snaps, cur |-> m.cur]
    BY <1>1 DEF StoreShape
  <2>2. n = [m EXCEPT !.entries = m.entries \ gone, !.floor = floor]
    BY DEF ExpireEntries
  <2>. HIDE DEF n, floor, gone
  <2>. QED
    BY <2>1, <2>2
<1>3. /\ floor \in Nat /\ m.floor <= floor /\ floor <= m.head
      /\ \A e \in gone : e.seq <= floor
  BY <1>1, RaisedFloor
<1>. HIDE DEF n, floor
<1>4. n.head = m.head /\ n.floor = floor /\ n.entries = m.entries \ gone /\ n.snaps = m.snaps /\ n.cur = m.cur
  BY <1>2
<1>5. StoreShape(n)
  BY <1>1, <1>2, <1>3, <1>4 DEF StoreShape
<1>6. EntriesGood(n)
  <2>1. ASSUME NEW k \in 1 .. n.head, n.floor < k PROVE \E e \in n.entries : e.seq = k
    <3>1. m.floor < k /\ k \in 1 .. m.head
      BY <1>1, <1>3, <1>4, <2>1 DEF StoreShape
    <3>2. PICK e \in m.entries : e.seq = k
      BY <1>1, <3>1 DEF EntriesGood
    <3>3. e \notin gone
      BY <1>3, <1>4, <2>1, <3>2
    <3>. QED
      BY <1>4, <3>2, <3>3
  <2>. QED
    BY <1>1, <1>4, <2>1 DEF EntriesGood
<1>7. Later(m, n)
  BY <1>1, <1>4 DEF Later, Since, StoreShape
<1>. QED
  BY <1>4, <1>5, <1>6, <1>7, EntriesChange DEF n

LEMMA CursorSet ==
    ASSUME NEW m, NEW t, StoreGood(m, t), NEW c \in MemoryConsumers, NEW x,
           CursorShape(x), PlaceGood(m, x, t[c])
    PROVE  /\ StoreGood(WithCursor(m, c, x), t)
           /\ WithCursor(m, c, x) = [head |-> m.head, floor |-> m.floor, entries |-> m.entries, snaps |-> m.snaps,
                                     cur |-> [k \in MemoryConsumers |-> IF k = c THEN x ELSE m.cur[k]]]
<1>. DEFINE cur == [k \in MemoryConsumers |-> IF k = c THEN x ELSE m.cur[k]]
            n == WithCursor(m, c, x)
<1>1. StoreShape(m) /\ ConsumersGood(m, t)
  BY DEF StoreGood
<1>2. DOMAIN m.cur = MemoryConsumers
  BY <1>1 DEF StoreShape
<1>3. n = [head |-> m.head, floor |-> m.floor, entries |-> m.entries, snaps |-> m.snaps, cur |-> cur]
  <2>1. m = [head |-> m.head, floor |-> m.floor, entries |-> m.entries, snaps |-> m.snaps, cur |-> m.cur]
    BY <1>1 DEF StoreShape
  <2>2. n = [m EXCEPT !.cur = cur]
    BY <1>2 DEF WithCursor
  <2>. HIDE DEF n, cur
  <2>. QED
    BY <2>1, <2>2
<1>4. n.head = m.head /\ n.floor = m.floor /\ n.entries = m.entries /\ n.snaps = m.snaps /\ n.cur = cur
  <2>. HIDE DEF n, cur
  <2>. QED
    BY <1>3
<1>5. \A k \in MemoryConsumers : CursorShape(cur[k]) /\ PlaceGood(m, cur[k], t[k])
  BY <1>1 DEF StoreShape, ConsumersGood
<1>6. cur = [k \in MemoryConsumers |-> cur[k]]
  OBVIOUS
<1>. HIDE DEF n, cur
<1>7. StoreShape(n)
  BY <1>1, <1>3, <1>4, <1>5, <1>6 DEF StoreShape
<1>8. RowsFollow(m, n)
  <2>1. Len(m.snaps) \in Nat
    BY <1>1, SeqFacts DEF StoreShape
  <2>. QED
    <3>1. Len(m.snaps) <= Len(n.snaps)
      BY <1>4, <2>1
    <3>2. \A i \in DOMAIN n.snaps : RowFollows(m, n, i)
      BY <1>4 DEF RowFollows, SameRow
    <3>. QED
      BY <1>4, <3>1, <3>2 DEF RowsFollow
<1>9. StoreGood(n, t)
  BY <1>4, <1>5, <1>7, <1>8, RowsChange
<1>. QED
  BY <1>3, <1>9 DEF n, cur

LEMMA SnapSet ==
    ASSUME NEW m, NEW t, StoreGood(m, t), NEW id \in DOMAIN m.snaps, NEW x, SnapShape(x),
           x.consumer = m.snaps[id].consumer, x.head = m.snaps[id].head, x.items = m.snaps[id].items
    PROVE  /\ StoreGood(WithSnap(m, id, x), t)
           /\ WithSnap(m, id, x) = [head |-> m.head, floor |-> m.floor, entries |-> m.entries, cur |-> m.cur,
                                    snaps |-> [i \in DOMAIN m.snaps |-> IF i = id THEN x ELSE m.snaps[i]]]
<1>. DEFINE snaps == [i \in DOMAIN m.snaps |-> IF i = id THEN x ELSE m.snaps[i]]
            n == WithSnap(m, id, x)
<1>1. StoreShape(m) /\ ConsumersGood(m, t)
  BY DEF StoreGood
<1>3. n = [head |-> m.head, floor |-> m.floor, entries |-> m.entries, cur |-> m.cur, snaps |-> snaps]
  <2>1. m = [head |-> m.head, floor |-> m.floor, entries |-> m.entries, snaps |-> m.snaps, cur |-> m.cur]
    BY <1>1 DEF StoreShape
  <2>2. n = [m EXCEPT !.snaps = snaps]
    BY DEF WithSnap
  <2>. HIDE DEF n, snaps
  <2>. QED
    BY <2>1, <2>2
<1>4. n.head = m.head /\ n.floor = m.floor /\ n.entries = m.entries /\ n.snaps = snaps /\ n.cur = m.cur
  <2>. HIDE DEF n, snaps
  <2>. QED
    BY <1>3
<1>5. \A i \in DOMAIN m.snaps : SnapShape(snaps[i]) /\ SameRow(m.snaps[i], snaps[i])
  BY <1>1 DEF StoreShape, SameRow
<1>6. snaps = [i \in DOMAIN m.snaps |-> snaps[i]]
  OBVIOUS
<1>. HIDE DEF n, snaps
<1>7. IsSeq(snaps) /\ Len(snaps) = Len(m.snaps) /\ DOMAIN snaps = DOMAIN m.snaps
  BY <1>1, <1>6, MappedSeq DEF StoreShape
<1>8. StoreShape(n)
  BY <1>1, <1>3, <1>4, <1>5, <1>7 DEF StoreShape
<1>9. RowsFollow(m, n)
  <2>1. Len(m.snaps) \in Nat
    BY <1>1, SeqFacts DEF StoreShape
  <2>. QED
    <3>1. Len(m.snaps) <= Len(n.snaps)
      BY <1>4, <1>7, <2>1
    <3>2. \A i \in DOMAIN n.snaps : RowFollows(m, n, i)
      BY <1>4, <1>5, <1>7 DEF RowFollows
    <3>. QED
      BY <1>4, <3>1, <3>2 DEF RowsFollow
<1>10. StoreGood(n, t)
  BY <1>1, <1>4, <1>8, <1>9, RowsChange DEF ConsumersGood
<1>. QED
  BY <1>3, <1>10 DEF n, snaps

LEMMA ExpireRowsKeeps ==
    ASSUME NEW m, NEW t, StoreGood(m, t)
    PROVE  StoreGood(ExpireRows(m), t) /\ ExpireRows(m).entries = m.entries
<1>. DEFINE snap(x) == IF x.old THEN NoSnapshot ELSE x
            cursor(x) == IF ~x.old THEN x
                         ELSE IF x.state = "on" THEN [NoCursor EXCEPT !.state = "retired"] ELSE NoCursor
            snaps == [i \in DOMAIN m.snaps |-> snap(m.snaps[i])]
            cur == [c \in MemoryConsumers |-> cursor(m.cur[c])]
            n == ExpireRows(m)
<1>1. StoreShape(m) /\ ConsumersGood(m, t)
  BY DEF StoreGood
<1>2. n = [head |-> m.head, floor |-> m.floor, entries |-> m.entries, snaps |-> snaps, cur |-> cur]
  <2>1. m = [head |-> m.head, floor |-> m.floor, entries |-> m.entries, snaps |-> m.snaps, cur |-> m.cur]
        /\ DOMAIN m.cur = MemoryConsumers
    BY <1>1 DEF StoreShape
  <2>2. n = [m EXCEPT !.snaps = snaps, !.cur = cur]
    BY <2>1 DEF ExpireRows
  <2>. HIDE DEF n, snaps, cur
  <2>. QED
    BY <2>1, <2>2
<1>3. n.head = m.head /\ n.floor = m.floor /\ n.entries = m.entries /\ n.snaps = snaps /\ n.cur = cur
  <2>. HIDE DEF n, snaps, cur
  <2>. QED
    BY <1>2
<1>4. ASSUME NEW i \in DOMAIN m.snaps
      PROVE  SnapShape(snaps[i]) /\ (snaps[i].consumer # "" => SameRow(m.snaps[i], snaps[i]))
  <2>1. SnapShape(m.snaps[i])
    BY <1>1 DEF StoreShape
  <2>2. SnapShape(NoSnapshot) /\ NoSnapshot.consumer = ""
    BY DEF SnapShape, NoSnapshot
  <2>. QED
    BY <2>1, <2>2 DEF SameRow
<1>5. ASSUME NEW c \in MemoryConsumers
      PROVE  CursorShape(cur[c]) /\ PlaceGood(m, cur[c], t[c])
  <2>1. CursorShape(m.cur[c]) /\ PlaceGood(m, m.cur[c], t[c])
    BY <1>1 DEF StoreShape, ConsumersGood
  <2>2. CursorShape(NoCursor) /\ CursorShape([NoCursor EXCEPT !.state = "retired"])
    BY FreshEdit DEF CursorShape, CursorOf, NoCursor
  <2>3. ~ByDelta(NoCursor) /\ ~ByDelta([NoCursor EXCEPT !.state = "retired"])
    BY FreshEdit DEF ByDelta, CursorOf, NoCursor
  <2>4. cur[c] \in {m.cur[c], NoCursor, [NoCursor EXCEPT !.state = "retired"]}
    OBVIOUS
  <2>. HIDE DEF cur
  <2>. QED
    BY <2>1, <2>2, <2>3, <2>4 DEF PlaceGood
<1>6. snaps = [i \in DOMAIN m.snaps |-> snaps[i]] /\ cur = [c \in MemoryConsumers |-> cur[c]]
  OBVIOUS
<1>. HIDE DEF n, snaps, cur
<1>7. IsSeq(snaps) /\ Len(snaps) = Len(m.snaps) /\ DOMAIN snaps = DOMAIN m.snaps
  BY <1>1, <1>6, MappedSeq DEF StoreShape
<1>8. StoreShape(n)
  BY <1>1, <1>2, <1>3, <1>4, <1>5, <1>6, <1>7 DEF StoreShape
<1>9. RowsFollow(m, n)
  <2>1. Len(m.snaps) \in Nat
    BY <1>1, SeqFacts DEF StoreShape
  <2>2. Len(m.snaps) <= Len(n.snaps)
    BY <1>3, <1>7, <2>1
  <2>3. \A i \in DOMAIN n.snaps : n.snaps[i].consumer # "" => RowFollows(m, n, i)
    BY <1>3, <1>4, <1>7 DEF RowFollows
  <2>. QED
    BY <1>3, <2>2, <2>3 DEF RowsFollow
<1>10. StoreGood(n, t)
  BY <1>3, <1>5, <1>8, <1>9, RowsChange
<1>. QED
  BY <1>3, <1>10 DEF n

\* A cursor of the same place.
LEMMA CursorKeeps ==
    ASSUME NEW m, NEW t, StoreGood(m, t), NEW c \in MemoryConsumers, NEW x, CursorShape(x),
           ByDelta(x) => ByDelta(m.cur[c]) /\ x.seq = m.cur[c].seq
    PROVE  StoreGood(WithCursor(m, c, x), t) /\ WithCursor(m, c, x).entries = m.entries
<1>1. PlaceGood(m, m.cur[c], t[c])
  BY DEF StoreGood, ConsumersGood
<1>2. PlaceGood(m, x, t[c])
  BY <1>1 DEF PlaceGood
<1>3. StoreGood(WithCursor(m, c, x), t)
  BY <1>2, CursorSet
<1>4. WithCursor(m, c, x) = [head |-> m.head, floor |-> m.floor, entries |-> m.entries, snaps |-> m.snaps,
                             cur |-> [k \in MemoryConsumers |-> IF k = c THEN x ELSE m.cur[k]]]
  BY <1>2, CursorSet
<1>. QED
  BY <1>3, <1>4

LEMMA RegisterKeeps ==
    ASSUME NEW m, NEW t, StoreGood(m, t), NEW c \in MemoryConsumers
    PROVE  StoreGood(RegisterConsumer(m, c), t) /\ RegisterConsumer(m, c).entries = m.entries
<1>. DEFINE x == [NoCursor EXCEPT !.state = "on"]
<1>1. CursorShape(x) /\ ~ByDelta(x)
  <2>1. x = CursorOf("on", 0, 0, 0, FALSE, FALSE, FALSE)
    BY FreshEdit
  <2>. HIDE DEF x
  <2>. QED
    BY <2>1 DEF CursorOf, CursorShape, ByDelta
<1>. HIDE DEF x
<1>2. StoreGood(WithCursor(m, c, x), t) /\ WithCursor(m, c, x).entries = m.entries
  BY <1>1, CursorKeeps
<1>. QED
  BY <1>2 DEF RegisterConsumer, x

LEMMA TouchKeeps ==
    ASSUME NEW m, NEW t, StoreGood(m, t), NEW c \in MemoryConsumers
    PROVE  StoreGood(Touch(m, c), t) /\ Touch(m, c).entries = m.entries
<1>. DEFINE x == [m.cur[c] EXCEPT !.old = FALSE]
<1>1. CursorShape(m.cur[c])
  BY DEF StoreGood, StoreShape
<1>2. /\ CursorShape(x) /\ x.seq = m.cur[c].seq
      /\ x.boot = m.cur[c].boot /\ x.resnap = m.cur[c].resnap /\ x.snap = m.cur[c].snap
  <2>. DEFINE r == m.cur[c]
  <2>1. x = CursorOf(r.state, r.seq, r.issued, r.snap, r.boot, r.resnap, FALSE)
    BY <1>1, TouchEdit
  <2>2. r.seq \in Nat /\ r.issued \in Nat /\ r.snap \in Nat
    BY <1>1 DEF CursorShape
  <2>. HIDE DEF x
  <2>. QED
    BY <2>1, <2>2 DEF CursorOf, CursorShape
<1>3. ByDelta(x) => ByDelta(m.cur[c])
  BY <1>2 DEF ByDelta
<1>. HIDE DEF x
<1>4. StoreGood(WithCursor(m, c, x), t) /\ WithCursor(m, c, x).entries = m.entries
  BY <1>2, <1>3, CursorKeeps
<1>. QED
  BY <1>4 DEF Touch, x

LEMMA DropKeeps ==
    ASSUME NEW m, NEW t, StoreGood(m, t), NEW c \in MemoryConsumers
    PROVE  StoreGood(DropSnapshot(m, c), t) /\ DropSnapshot(m, c).entries = m.entries
<1>. DEFINE x == [m.cur[c] EXCEPT !.snap = 0, !.resnap = TRUE]
<1>1. CursorShape(m.cur[c])
  BY DEF StoreGood, StoreShape
<1>2. CursorShape(x) /\ x.resnap
  <2>. DEFINE r == m.cur[c]
  <2>1. x = CursorOf(r.state, r.seq, r.issued, 0, r.boot, TRUE, r.old)
    BY <1>1, DropEdit
  <2>2. r.seq \in Nat /\ r.issued \in Nat
    BY <1>1 DEF CursorShape
  <2>. HIDE DEF x, r
  <2>. QED
    BY <2>1, <2>2 DEF CursorOf, CursorShape
<1>3. ~ByDelta(x)
  BY <1>2 DEF ByDelta
<1>. HIDE DEF x
<1>4. StoreGood(WithCursor(m, c, x), t) /\ WithCursor(m, c, x).entries = m.entries
  BY <1>2, <1>3, CursorKeeps
<1>5. DropSnapshot(m, c) = m \/ DropSnapshot(m, c) = WithCursor(m, c, x)
  BY DEF DropSnapshot, x
<1>. QED
  BY <1>4, <1>5

\* A page is issued; the snapshot holds what it held.
LEMMA IssuePageKeeps ==
    ASSUME NEW m, NEW t, StoreGood(m, t), NEW id \in DOMAIN m.snaps, NEW token \in Nat
    PROVE  /\ StoreGood(IssuePage(m, id, token), t) /\ IssuePage(m, id, token).entries = m.entries
           /\ IssuePage(m, id, token).cur = m.cur
           /\ DOMAIN IssuePage(m, id, token).snaps = DOMAIN m.snaps
           /\ IssuePage(m, id, token).snaps[id].consumer = m.snaps[id].consumer
           /\ IssuePage(m, id, token).snaps[id].items = m.snaps[id].items
<1>. DEFINE next == Min({token + 1, Len(m.snaps[id].items)})
            upto == Max({m.snaps[id].issued, next})
            x == [m.snaps[id] EXCEPT !.issued = upto]
<1>1. SnapShape(m.snaps[id])
  BY DEF StoreGood, StoreShape
<1>2. next \in Nat
  <2>. DEFINE T == {token + 1, Len(m.snaps[id].items)}
  <2>1. Len(m.snaps[id].items) \in Nat
    BY <1>1 DEF SnapShape
  <2>2. T \in SUBSET Nat /\ T # {}
    BY <2>1
  <2>. HIDE DEF T
  <2>3. Min(T) \in T
    BY <2>2, LeastNumber
  <2>. QED
    BY <2>2, <2>3 DEF T
<1>. HIDE DEF next
<1>3. upto \in Nat
  <2>1. m.snaps[id].issued \in Nat
    BY <1>1 DEF SnapShape
  <2>. QED
    BY <1>2, <2>1, GreaterOfTwo
<1>. HIDE DEF upto
<1>4. /\ SnapShape(x) /\ x.consumer = m.snaps[id].consumer /\ x.head = m.snaps[id].head
      /\ x.items = m.snaps[id].items
  BY <1>1, <1>3 DEF SnapShape
<1>5. IssuePage(m, id, token) = WithSnap(m, id, x)
  BY DEF IssuePage, next, upto
<1>. HIDE DEF x
<1>6. /\ StoreGood(WithSnap(m, id, x), t)
      /\ WithSnap(m, id, x) = [head |-> m.head, floor |-> m.floor, entries |-> m.entries, cur |-> m.cur,
                               snaps |-> [i \in DOMAIN m.snaps |-> IF i = id THEN x ELSE m.snaps[i]]]
  BY <1>4, SnapSet
<1>. QED
  BY <1>4, <1>5, <1>6

\* The entries of a snapshot are live, and every live note is one of them.
LEMMA MembersShow ==
    ASSUME NEW m, StoreShape(m), EntriesGood(m)
    PROVE  Members(m) \in Seq(Nat) /\ Shown(m, HeldItems(Members(m), Len(Members(m))), m.head)
<1>. DEFINE notes == LiveSeqs(m, "note")
            statuses == LiveSeqs(m, "status")
            tail == NewestFirst(statuses)
            k == Min({MemoryTail, Len(tail)})
            first == NewestFirst(notes)
            rest == SubSeq(tail, 1, k)
            s == first \o rest
<1>1. /\ m.head \in Nat
      /\ \A e \in m.entries : e.seq \in Nat /\ e.seq <= m.head
  BY DEF StoreShape, EntryType, EntriesGood
<1>2. notes \in SUBSET (0 .. m.head) /\ statuses \in SUBSET (0 .. m.head)
  BY <1>1 DEF LiveSeqs, Live
<1>3. first \in Seq(notes) /\ \A x \in notes : \E i \in DOMAIN first : first[i] = x
  BY <1>1, <1>2, NewestFirstLists
<1>4. tail \in Seq(statuses)
  BY <1>1, <1>2, NewestFirstLists
<1>5. Members(m) = s
  BY DEF Members
<1>6. \A x \in notes \cup statuses : x \in Nat /\ \E e \in m.entries : e.seq = x /\ e.by = 0
  BY <1>1 DEF LiveSeqs, Live
<1>7. \A e \in m.entries : e.by = 0 /\ e.expires # "past" /\ e.type = "note" => e.seq \in notes
  BY DEF LiveSeqs, Live
<1>. HIDE DEF notes, statuses, first, tail
<1>8. k \in Nat /\ k <= Len(tail)
  <2>. DEFINE T == {MemoryTail, Len(tail)}
  <2>1. Len(tail) \in Nat
    BY <1>4
  <2>2. T \in SUBSET Nat /\ T # {}
    BY <2>1, MemoryAssumption
  <2>. HIDE DEF T
  <2>3. Min(T) \in T /\ \A y \in T : Min(T) <= y
    BY <2>2, LeastNumber
  <2>. QED
    BY <2>1, <2>2, <2>3 DEF T
<1>. HIDE DEF k
<1>9. rest \in Seq(statuses)
  BY <1>4, <1>8
<1>. HIDE DEF rest
<1>10. /\ s \in Seq(notes \cup statuses)
       /\ Len(s) = Len(first) + Len(rest) /\ DOMAIN s = 1 .. Len(s) /\ Len(s) \in Nat
       /\ \A i \in 1 .. Len(first) : s[i] = first[i]
       /\ DOMAIN first = 1 .. Len(first) /\ Len(first) \in Nat /\ Len(rest) \in Nat
  <2>1. first \in Seq(notes \cup statuses) /\ rest \in Seq(notes \cup statuses)
    BY <1>3, <1>9
  <2>. QED
    BY <2>1
<1>. HIDE DEF s
<1>11. s \in Seq(Nat)
  <2>1. notes \cup statuses \subseteq Nat
    BY <1>6
  <2>. QED
    BY <1>10, <2>1
<1>12. \A i \in 1 .. Len(s) : s[i] \in notes \cup statuses
  BY <1>10
<1>13. \A x \in notes : \E i \in 1 .. Len(s) : s[i] = x
  <2>1. 1 .. Len(first) \subseteq 1 .. Len(s)
    BY <1>10
  <2>. QED
    BY <1>3, <1>10, <2>1
<1>14. \A x \in HeldItems(s, Len(s)) : x \in notes \cup statuses
  BY <1>12 DEF HeldItems
<1>15. notes \subseteq HeldItems(s, Len(s))
  BY <1>13 DEF HeldItems
<1>16. ASSUME NEW e \in m.entries, e.seq \in HeldItems(s, Len(s)) PROVE e.by = 0
  <2>1. PICK f \in m.entries : f.seq = e.seq /\ f.by = 0
    BY <1>6, <1>14, <1>16
  <2>. QED
    BY <2>1 DEF EntriesGood
<1>17. Shown(m, HeldItems(s, Len(s)), m.head)
  BY <1>1, <1>7, <1>15, <1>16 DEF Shown
<1>. QED
  BY <1>5, <1>11, <1>17

LEMMA FreezeKeeps ==
    ASSUME NEW m, NEW t, StoreGood(m, t), NEW c \in MemoryConsumers
    PROVE  /\ StoreGood(Freeze(m, c), t) /\ Freeze(m, c).entries = m.entries
           /\ Freeze(m, c).cur[c].snap = Len(m.snaps) + 1 /\ Len(Freeze(m, c).snaps) = Len(m.snaps) + 1
           /\ Freeze(m, c).snaps[Len(m.snaps) + 1].consumer = c
<1>. DEFINE frozen == [consumer |-> c, head |-> m.head, items |-> Members(m), issued |-> 0,
                       acked |-> FALSE, old |-> FALSE]
            snaps == Append(m.snaps, frozen)
            n == [m EXCEPT !.snaps = snaps]
            x == [m.cur[c] EXCEPT !.snap = Len(m.snaps) + 1]
<1>1. StoreShape(m) /\ EntriesGood(m) /\ ConsumersGood(m, t)
  BY DEF StoreGood
<1>2. Freeze(m, c) = WithCursor(n, c, x)
  BY DEF Freeze
<1>3. SnapShape(frozen) /\ frozen.consumer = c /\ NewRow(m, frozen)
  <2>1. frozen.head = m.head /\ frozen.items = Members(m) /\ frozen.issued = 0 /\ frozen.consumer = c
    OBVIOUS
  <2>2. SnapShape(frozen)
    BY <1>1, MembersShow DEF SnapShape, StoreShape
  <2>. HIDE DEF frozen
  <2>. QED
    BY <1>1, <2>1, <2>2, MembersShow DEF NewRow
<1>. HIDE DEF frozen
<1>4. /\ IsSeq(snaps) /\ Len(snaps) = Len(m.snaps) + 1 /\ DOMAIN snaps = 1 .. Len(m.snaps) + 1
      /\ snaps[Len(m.snaps) + 1] = frozen /\ \A i \in 1 .. Len(m.snaps) : snaps[i] = m.snaps[i]
      /\ DOMAIN m.snaps = 1 .. Len(m.snaps) /\ Len(m.snaps) \in Nat
  BY <1>1, LongerSeq, SeqFacts DEF StoreShape
<1>. HIDE DEF snaps
<1>5. n = [head |-> m.head, floor |-> m.floor, entries |-> m.entries, snaps |-> snaps, cur |-> m.cur]
  BY <1>1 DEF StoreShape
<1>. HIDE DEF n
<1>6. n.head = m.head /\ n.floor = m.floor /\ n.entries = m.entries /\ n.snaps = snaps /\ n.cur = m.cur
  BY <1>5
<1>7. \A i \in DOMAIN snaps : i \in DOMAIN m.snaps \/ i = Len(m.snaps) + 1
  BY <1>4
<1>8. StoreShape(n)
  <2>1. \A i \in DOMAIN snaps : SnapShape(snaps[i])
    BY <1>1, <1>3, <1>4, <1>7 DEF StoreShape
  <2>. QED
    BY <1>1, <1>4, <1>5, <1>6, <2>1 DEF StoreShape
<1>9. RowsFollow(m, n)
  <2>1. Len(m.snaps) <= Len(n.snaps)
    BY <1>4, <1>6
  <2>2. ASSUME NEW i \in DOMAIN n.snaps PROVE RowFollows(m, n, i)
    <3>1. CASE i \in DOMAIN m.snaps
      BY <1>4, <1>6, <3>1 DEF RowFollows, SameRow
    <3>2. CASE i \notin DOMAIN m.snaps
      BY <1>3, <1>4, <1>6, <1>7, <3>2 DEF RowFollows
    <3>. QED
      BY <3>1, <3>2
  <2>. QED
    BY <1>6, <2>1, <2>2 DEF RowsFollow
<1>10. StoreGood(n, t)
  BY <1>1, <1>6, <1>8, <1>9, RowsChange DEF ConsumersGood
<1>11. CursorShape(x) /\ ~ByDelta(x) /\ x.snap = Len(m.snaps) + 1
  <2>. DEFINE r == m.cur[c]
  <2>1. CursorShape(r) /\ r.seq \in Nat /\ r.issued \in Nat
    BY <1>1 DEF StoreShape, CursorShape
  <2>2. x = CursorOf(r.state, r.seq, r.issued, Len(m.snaps) + 1, r.boot, r.resnap, r.old)
    BY <2>1, IssuedEdits
  <2>. HIDE DEF x, r
  <2>3. CursorShape(x) /\ x.snap = Len(m.snaps) + 1
    BY <1>4, <2>1, <2>2, CursorFields
  <2>4. x.snap # 0
    BY <1>4, <2>3
  <2>. QED
    BY <2>3, <2>4 DEF ByDelta
<1>. HIDE DEF x
<1>12. PlaceGood(n, x, t[c])
  BY <1>11 DEF PlaceGood
<1>13. StoreGood(WithCursor(n, c, x), t)
  BY <1>10, <1>11, <1>12, CursorSet
<1>14. WithCursor(n, c, x) = [head |-> n.head, floor |-> n.floor, entries |-> n.entries, snaps |-> n.snaps,
                              cur |-> [k \in MemoryConsumers |-> IF k = c THEN x ELSE n.cur[k]]]
  BY <1>10, <1>11, <1>12, CursorSet
<1>15. /\ WithCursor(n, c, x).entries = m.entries /\ WithCursor(n, c, x).cur[c] = x
       /\ WithCursor(n, c, x).snaps = snaps
  BY <1>6, <1>14
<1>. QED
  BY <1>2, <1>3, <1>4, <1>11, <1>13, <1>15

-----------------------------------------------------------------------------
\* What a consumer hears of the reply.
Heard(t, c, y) == [x \in MemoryConsumers |-> IF x = c THEN y ELSE t[x]]

LEMMA Hears ==
    ASSUME NEW m, NEW t, StoreGood(m, t), NEW c \in MemoryConsumers, NEW y,
           ToldShape(y), PlaceGood(m, m.cur[c], y), PagesGood(m, c, y)
    PROVE  StoreGood(m, Heard(t, c, y))
<1>1. StoreShape(m) /\ EntriesGood(m) /\ SnapsGood(m) /\ ConsumersGood(m, t)
  BY DEF StoreGood
<1>. DEFINE u == Heard(t, c, y)
<1>2. u = [x \in MemoryConsumers |-> u[x]] /\ \A x \in MemoryConsumers : u[x] = IF x = c THEN y ELSE t[x]
  BY DEF Heard
<1>. HIDE DEF u
<1>3. ConsumersGood(m, u)
  BY <1>1, <1>2 DEF ConsumersGood
<1>4. StoreGood(m, u)
  BY <1>1, <1>2, <1>3 DEF StoreGood
<1>. QED
  BY <1>4 DEF u

LEMMA HearsNothing ==
    ASSUME NEW m, NEW t, StoreGood(m, t), NEW c \in MemoryConsumers
    PROVE  StoreGood(m, Heard(t, c, [NothingTold EXCEPT !.view = t[c].view]))
<1>. DEFINE y == [NothingTold EXCEPT !.view = t[c].view]
<1>1. y = ToldOf(t[c].view, {}, 0, 0, FALSE, 0)
  BY ToldEdits
<1>. HIDE DEF y
<1>2. /\ ToldShape(y) /\ y.view = t[c].view /\ y.sid = 0 /\ y.through = 0 /\ ~y.done
  BY <1>1 DEF ToldOf, ToldShape
<1>3. PlaceGood(m, m.cur[c], t[c]) /\ IsSeq(m.snaps)
  BY DEF StoreGood, StoreShape, ConsumersGood
<1>4. PlaceGood(m, m.cur[c], y)
  BY <1>2, <1>3 DEF PlaceGood
<1>5. PagesGood(m, c, y)
  <2>1. Len(m.snaps) \in Nat
    BY <1>3, SeqFacts
  <2>2. y.sid <= Len(m.snaps)
    BY <1>2, <2>1
  <2>. QED
    BY <1>2, <2>2 DEF PagesGood
<1>6. StoreGood(m, Heard(t, c, y))
  BY <1>2, <1>4, <1>5, Hears
<1>. QED
  BY <1>6 DEF y

\* The consumer hears the page after those that it holds.
PageReply(m, id, token, next) ==
    [kind |-> "page", id |-> id, token |-> token, next |-> next,
     seqs |-> {m.snaps[id].items[i] : i \in (token + 1) .. next},
     more |-> next < Len(m.snaps[id].items)]

LEMMA HearsPage ==
    ASSUME NEW m, NEW t, StoreGood(m, t), NEW c \in MemoryConsumers, NEW token \in Nat,
           NEW id, id = m.cur[c].snap, id # 0, Owned(m, c, id),
           token = 0 \/ (t[c].sid = id /\ t[c].token = token),
           NEW next, next = Min({token + 1, Len(m.snaps[id].items)})
    PROVE  StoreGood(IssuePage(m, id, token), Heard(t, c, Learns(t[c], PageReply(m, id, token, next))))
<1>. DEFINE shown == m.snaps[id].items
            n == IssuePage(m, id, token)
            got == (IF token = 0 THEN {} ELSE t[c].got) \cup {shown[i] : i \in (token + 1) .. next}
            more == next < Len(shown)
            y == [view |-> IF more THEN t[c].view ELSE got, got |-> got,
                  sid |-> id, token |-> next, done |-> ~more, through |-> 0]
<1>1. id \in DOMAIN m.snaps /\ StoreShape(m) /\ PagesGood(m, c, t[c])
  BY DEF Owned, StoreGood, ConsumersGood
<1>2. shown \in Seq(Nat) /\ Len(shown) \in Nat /\ DOMAIN shown = 1 .. Len(shown) /\ id \in Nat
      /\ Len(m.snaps) \in Nat /\ id <= Len(m.snaps)
  <2>1. SnapShape(m.snaps[id]) /\ DOMAIN m.snaps = 1 .. Len(m.snaps) /\ Len(m.snaps) \in Nat
    BY <1>1, SeqFacts DEF StoreShape
  <2>2. shown \in Seq(Nat)
    BY <2>1 DEF SnapShape
  <2>. HIDE DEF shown
  <2>. QED
    BY <1>1, <2>1, <2>2
<1>3. Learns(t[c], PageReply(m, id, token, next)) = y
  BY DEF Learns, PageReply
<1>4. /\ StoreGood(n, t) /\ n.cur = m.cur /\ DOMAIN n.snaps = DOMAIN m.snaps
      /\ n.snaps[id].consumer = m.snaps[id].consumer /\ n.snaps[id].items = shown
  BY <1>1, IssuePageKeeps
<1>5. token <= Len(shown) /\ (token # 0 => t[c].got = HeldItems(shown, token))
  <2>1. CASE token = 0
    BY <1>2, <2>1
  <2>2. CASE token # 0
    <3>1. t[c].sid = id /\ t[c].token = token
      BY <2>2
    <3>. HIDE DEF shown
    <3>. QED
      BY <1>1, <3>1, Zenon DEF PagesGood, shown
  <2>. QED
    BY <2>1, <2>2
<1>6. next \in Nat /\ token <= next /\ next <= Len(shown)
  <2>. DEFINE T == {token + 1, Len(shown)}
  <2>1. T \in SUBSET Nat /\ T # {} /\ next = Min(T)
    BY <1>2
  <2>. HIDE DEF T
  <2>2. Min(T) \in T /\ \A z \in T : Min(T) <= z
    BY <2>1, LeastNumber
  <2>. HIDE DEF shown
  <2>. QED
    BY <1>2, <1>5, <2>1, <2>2 DEF T
<1>7. got = HeldItems(shown, next)
  <2>. HIDE DEF shown
  <2>1. CASE token = 0
    BY <2>1 DEF HeldItems
  <2>2. CASE token # 0
    <3>1. 1 .. next = (1 .. token) \cup ((token + 1) .. next)
      BY <1>6
    <3>2. got = {shown[i] : i \in 1 .. token} \cup {shown[i] : i \in (token + 1) .. next}
      BY <1>5, <2>2 DEF HeldItems
    <3>. QED
      BY <3>1, <3>2 DEF HeldItems
  <2>. QED
    BY <2>1, <2>2
<1>. HIDE DEF got, shown, n
<1>8. /\ y.view = (IF more THEN t[c].view ELSE got) /\ y.got = got /\ y.sid = id /\ y.token = next
      /\ (y.done <=> ~more) /\ y.through = 0
  BY Zenon
<1>9. ToldShape(y)
  <2>1. \A d : ToldShape([view |-> IF more THEN t[c].view ELSE got, got |-> got,
                          sid |-> id, token |-> next, done |-> d, through |-> 0])
    BY <1>2, <1>6 DEF ToldShape
  <2>. QED
    BY <2>1, Zenon
<1>. HIDE DEF y
<1>10. PlaceGood(n, n.cur[c], y)
  BY <1>4 DEF PlaceGood, ByDelta
<1>11. PagesGood(n, c, y)
  <2>1. y.sid <= Len(n.snaps)
    <3>1. StoreShape(n)
      BY <1>4 DEF StoreGood
    <3>2. DOMAIN n.snaps = 1 .. Len(n.snaps) /\ Len(n.snaps) \in Nat
      BY <3>1, SeqFacts DEF StoreShape
    <3>. QED
      BY <1>1, <1>4, <1>8, <3>2
  <2>2. y.done => y.token = Len(shown) /\ y.view = y.got
    BY <1>2, <1>6, <1>8
  <2>3. n.snaps[y.sid].items = shown /\ y.token <= Len(shown) /\ y.got = HeldItems(shown, y.token) /\ y.sid # 0
        /\ y.through = 0
    BY <1>4, <1>6, <1>7, <1>8
  <2>. QED
    BY <2>1, <2>2, <2>3, Zenon DEF PagesGood
<1>12. StoreGood(n, Heard(t, c, y))
  BY <1>4, <1>9, <1>10, <1>11, Hears
<1>. QED
  BY <1>3, <1>12 DEF n

\* What is next after the cursor is the least entry above it.
LEMMA DeltaPlace ==
    ASSUME NEW m, StoreShape(m), NEW c \in MemoryConsumers
    PROVE  LET k == m.cur[c].seq
               q == DeltaEnd(m, c)
           IN  /\ q \in Nat /\ k <= q
               /\ q > k => \E e \in m.entries : e.seq = q
               /\ q = k => \A e \in m.entries : e.seq <= k
               /\ \A e \in m.entries : k < e.seq => q <= e.seq
<1>. DEFINE k == m.cur[c].seq
            q == DeltaEnd(m, c)
            T == After(m, k)
<1>1. k \in Nat /\ \A e \in m.entries : e.seq \in Nat
  BY DEF StoreShape, CursorShape, EntryType
<1>2. \A z : z \in T <=> \E e \in m.entries : e.seq = z /\ k < z
  BY <1>1 DEF After
<1>3. T \in SUBSET Nat
  BY <1>1, <1>2
<1>4. q = IF T = {} THEN k ELSE Min(T)
  BY DEF DeltaEnd
<1>5. T # {} => Min(T) \in T /\ \A z \in T : Min(T) <= z
  BY <1>3, LeastNumber
<1>. HIDE DEF T, k, q
<1>6. CASE T = {}
  <2>1. q = k /\ \A e \in m.entries : e.seq <= k
    BY <1>1, <1>2, <1>4, <1>6
  <2>. QED
    BY <1>1, <2>1 DEF q, k
<1>7. CASE T # {}
  <2>1. q \in T /\ \A z \in T : q <= z
    BY <1>4, <1>5, <1>7
  <2>2. PICK e \in m.entries : e.seq = q /\ k < q
    BY <1>2, <2>1
  <2>3. q \in Nat /\ k < q
    BY <1>1, <2>2
  <2>4. \A f \in m.entries : k < f.seq => q <= f.seq
    BY <1>2, <2>1
  <2>5. k <= q /\ q # k
    BY <1>1, <2>3
  <2>. QED
    BY <2>2, <2>3, <2>4, <2>5 DEF q, k
<1>. QED
  BY <1>6, <1>7

LEMMA IssueDeltaKeeps ==
    ASSUME NEW m, NEW t, StoreGood(m, t), NEW c \in MemoryConsumers
    PROVE  LET n == IssueDelta(m, c)
           IN  /\ StoreGood(n, t) /\ n.entries = m.entries /\ n.head = m.head /\ n.floor = m.floor
               /\ n.cur[c].seq = m.cur[c].seq /\ n.snaps = m.snaps
<1>. DEFINE k == Max({m.cur[c].issued, DeltaEnd(m, c)})
            r == m.cur[c]
            x == [r EXCEPT !.issued = k]
            n == IssueDelta(m, c)
<1>1. StoreShape(m) /\ CursorShape(r) /\ r.seq \in Nat /\ r.issued \in Nat /\ r.snap \in Nat
  BY DEF StoreGood, StoreShape, CursorShape
<1>2. DeltaEnd(m, c) \in Nat
  BY <1>1, DeltaPlace
<1>3. k \in Nat
  BY <1>1, <1>2, GreaterOfTwo
<1>. HIDE DEF k
<1>4. x = CursorOf(r.state, r.seq, k, r.snap, r.boot, r.resnap, r.old)
  BY <1>1, IssuedEdits
<1>. HIDE DEF x
<1>5. /\ CursorShape(x) /\ x.seq = r.seq /\ x.snap = r.snap /\ x.boot = r.boot /\ x.resnap = r.resnap
  BY <1>1, <1>3, <1>4, CursorFields
<1>6. ByDelta(x) => ByDelta(r)
  BY <1>5 DEF ByDelta
<1>7. n = WithCursor(m, c, x)
  BY DEF IssueDelta, k, x
<1>8. PlaceGood(m, x, t[c])
  BY <1>5, <1>6 DEF PlaceGood, StoreGood, ConsumersGood
<1>9. StoreGood(WithCursor(m, c, x), t)
  BY <1>5, <1>8, CursorSet
<1>10. WithCursor(m, c, x) = [head |-> m.head, floor |-> m.floor, entries |-> m.entries, snaps |-> m.snaps,
                             cur |-> [z \in MemoryConsumers |-> IF z = c THEN x ELSE m.cur[z]]]
  BY <1>5, <1>8, CursorSet
<1>. HIDE DEF n
<1>11. n.entries = m.entries /\ n.head = m.head /\ n.floor = m.floor /\ n.cur[c] = x /\ n.snaps = m.snaps
  BY <1>7, <1>10
<1>. QED
  BY <1>5, <1>7, <1>9, <1>11 DEF n

\* The view with the next entry of the delta, and without what it replaces.
LEMMA DeltaShows ==
    ASSUME NEW m, StoreShape(m), EntriesGood(m), NEW view, NEW k \in Nat, Shown(m, view, k), m.floor <= k,
           NEW q \in Nat, k < q, q <= m.head, \A e \in m.entries : k < e.seq => q <= e.seq,
           NEW f \in m.entries, f.seq = q
    PROVE  Shown(m, (view \cup {q}) \ {f.target}, q)
<1>. DEFINE v == (view \cup {q}) \ {f.target}
<1>1. \A e \in m.entries : e.seq \in Nat /\ e.by \in Nat /\ e.seq <= m.head /\ (e.by = 0 \/ (e.seq < e.by /\ e.by <= m.head))
  BY DEF StoreShape, EntryType, EntriesGood
<1>2. m.head \in Nat /\ m.floor \in Nat
  BY DEF StoreShape
<1>3. ASSUME NEW e \in m.entries, e.seq \in v, e.by # 0, e.expires # "past" PROVE q < e.by
  <2>1. CASE e.seq = q
    BY <1>1, <1>3, <2>1
  <2>2. CASE e.seq # q
    <3>1. e.seq \in view /\ e.seq # f.target
      BY <1>3, <2>2
    <3>2. k < e.by
      BY <1>3, <3>1 DEF Shown
    <3>3. e.by # q
      BY <3>1 DEF EntriesGood
    <3>4. SUFFICES ASSUME e.by < q PROVE FALSE
      BY <1>1, <3>3
    <3>5. e.by \in 1 .. m.head /\ m.floor < e.by
      BY <1>1, <1>2, <1>3, <3>2
    <3>6. PICK g \in m.entries : g.seq = e.by
      BY <3>5 DEF EntriesGood
    <3>. QED
      BY <1>1, <3>2, <3>4, <3>6
  <2>. QED
    BY <2>1, <2>2
<1>4. ASSUME NEW e \in m.entries, e.by = 0, e.expires # "past", e.type = "note", e.seq <= q PROVE e.seq \in v
  <2>1. e.seq # f.target
    BY <1>4 DEF EntriesGood
  <2>2. CASE e.seq <= k
    BY <1>4, <2>1, <2>2 DEF Shown
  <2>3. CASE ~(e.seq <= k)
    <3>1. q <= e.seq
      BY <1>1, <2>3
    <3>2. e.seq = q
      BY <1>1, <1>4, <3>1
    <3>. QED
      BY <2>1, <3>2
  <2>. QED
    BY <2>2, <2>3
<1>. QED
  BY <1>3, <1>4 DEF Shown

\* A view up to a place is also one up to an earlier place.
LEMMA ShownEarlier ==
    ASSUME NEW m, StoreShape(m), NEW view, NEW k \in Nat, NEW j \in Nat, j <= k, Shown(m, view, k)
    PROVE  Shown(m, view, j)
<1>1. \A e \in m.entries : e.seq \in Nat /\ e.by \in Nat
  BY DEF StoreShape, EntryType
<1>2. m.head \in Nat
  BY DEF StoreShape
<1>. QED
  BY <1>1, <1>2 DEF Shown

DeltaReply(m, c) ==
    [kind |-> "delta", seqs |-> {q \in {DeltaEnd(m, c)} : q > m.cur[c].seq}, next |-> DeltaEnd(m, c)]

LEMMA HearsDelta ==
    ASSUME NEW m, NEW t, StoreGood(m, t), NEW c \in MemoryConsumers, ~NeedsSnapshot(m, c),
           m.entries \subseteq mem.entries, EntriesGood(mem)
    PROVE  StoreGood(IssueDelta(m, c), Heard(t, c, Learns(t[c], DeltaReply(m, c))))
<1>. DEFINE n == IssueDelta(m, c)
            k == m.cur[c].seq
            q == DeltaEnd(m, c)
            seqs == {z \in {q} : z > k}
            view == (t[c].view \cup seqs) \ {EntryOf(mem, z).target : z \in seqs}
            y == [NothingTold EXCEPT !.view = view, !.through = q]
<1>1. StoreShape(m) /\ EntriesGood(m) /\ PlaceGood(m, m.cur[c], t[c]) /\ IsSeq(m.snaps)
  BY DEF StoreGood, StoreShape, ConsumersGood
<1>2. k \in Nat /\ m.floor \in Nat /\ m.head \in Nat
  BY <1>1 DEF StoreShape, CursorShape
<1>3. ByDelta(m.cur[c]) /\ m.floor <= k
  BY <1>2 DEF NeedsSnapshot, ByDelta
<1>4. Shown(m, t[c].view, k)
  BY <1>1, <1>3 DEF PlaceGood
<1>5. /\ q \in Nat /\ k <= q
      /\ q > k => \E e \in m.entries : e.seq = q
      /\ \A e \in m.entries : k < e.seq => q <= e.seq
  BY <1>1, DeltaPlace
<1>6. Learns(t[c], DeltaReply(m, c)) = y
  BY DEF Learns, DeltaReply
<1>7. y = ToldOf(view, {}, 0, 0, FALSE, q)
  BY ToldEdits
<1>. HIDE DEF q, k, y
<1>8. Shown(m, view, q)
  <2>1. CASE q = k
    <3>1. seqs = {}
      BY <1>2, <2>1
    <3>2. view = t[c].view
      BY <3>1
    <3>. QED
      BY <1>4, <2>1, <3>2
  <2>2. CASE q # k
    <3>1. q > k
      BY <1>2, <1>5, <2>2
    <3>2. seqs = {q}
      BY <3>1
    <3>3. PICK f \in m.entries : f.seq = q
      BY <1>5, <3>1
    <3>4. EntryOf(mem, q) = f
      <4>1. f \in mem.entries /\ \A e \in mem.entries : e.seq = q => e = f
        BY <3>3 DEF EntriesGood
      <4>. QED
        BY <3>3, <4>1 DEF EntryOf
    <3>5. view = (t[c].view \cup {q}) \ {f.target}
      BY <3>2, <3>4
    <3>6. q <= m.head
      BY <1>1, <3>3 DEF EntriesGood
    <3>. QED
      BY <1>1, <1>2, <1>3, <1>4, <1>5, <3>1, <3>3, <3>5, <3>6, DeltaShows
  <2>. QED
    BY <2>1, <2>2
<1>9. Shown(m, view, k)
  BY <1>1, <1>2, <1>5, <1>8, ShownEarlier
<1>. HIDE DEF view
<1>10. /\ ToldShape(y) /\ y.view = view /\ y.sid = 0 /\ y.through = q /\ ~y.done
  BY <1>5, <1>7 DEF ToldOf, ToldShape
<1>11. /\ StoreGood(n, t) /\ n.entries = m.entries /\ n.head = m.head /\ n.cur[c].seq = k /\ n.snaps = m.snaps
  BY IssueDeltaKeeps DEF k
<1>. HIDE DEF n
<1>12. PlaceGood(n, n.cur[c], y)
  BY <1>8, <1>9, <1>10, <1>11, ShownSame DEF PlaceGood
<1>13. PagesGood(n, c, y)
  <2>1. Len(m.snaps) \in Nat
    BY <1>1, SeqFacts
  <2>2. y.sid <= Len(n.snaps)
    BY <1>10, <1>11, <2>1
  <2>. QED
    BY <1>10, <2>2 DEF PagesGood
<1>14. StoreGood(n, Heard(t, c, y))
  BY <1>10, <1>11, <1>12, <1>13, Hears
<1>. QED
  BY <1>6, <1>14 DEF n

LEMMA AckSnapshotKeeps ==
    ASSUME NEW m, NEW t, StoreGood(m, t), NEW c \in MemoryConsumers, NEW id, id # 0, Owned(m, c, id),
           t[c].sid = id, t[c].done
    PROVE  StoreGood(AckSnapshot(m, c, id), t) /\ AckSnapshot(m, c, id).entries = m.entries
<1>. DEFINE row == m.snaps[id]
            acked == [row EXCEPT !.acked = TRUE, !.old = FALSE]
            n == WithSnap(m, id, acked)
            r == m.cur[c]
            upto == Max({r.issued, row.head})
            x == [r EXCEPT !.seq = row.head, !.issued = upto, !.snap = 0, !.boot = TRUE, !.resnap = FALSE]
<1>1. StoreShape(m) /\ SnapsGood(m) /\ PagesGood(m, c, t[c]) /\ id \in DOMAIN m.snaps /\ row.consumer = c
  BY DEF StoreGood, ConsumersGood, Owned
<1>2. SnapShape(row) /\ CursorShape(r) /\ r.seq \in Nat /\ r.issued \in Nat /\ row.head \in Nat
  BY <1>1 DEF StoreShape, SnapShape, CursorShape
<1>3. acked = RowOf(row.consumer, row.head, row.items, row.issued, TRUE, FALSE)
  BY <1>2, AckedEdit
<1>4. AckSnapshot(m, c, id) = WithCursor(n, c, x)
  BY DEF AckSnapshot
<1>. HIDE DEF acked
<1>5. SnapShape(acked) /\ acked.consumer = row.consumer /\ acked.head = row.head /\ acked.items = row.items
  BY <1>2, <1>3 DEF RowOf, SnapShape
<1>6. StoreGood(n, t)
  BY <1>1, <1>5, SnapSet
<1>7. n = [head |-> m.head, floor |-> m.floor, entries |-> m.entries, cur |-> m.cur,
           snaps |-> [i \in DOMAIN m.snaps |-> IF i = id THEN acked ELSE m.snaps[i]]]
  BY <1>1, <1>5, SnapSet
<1>. HIDE DEF n
<1>8. n.head = m.head /\ n.entries = m.entries
  BY <1>7
<1>9. upto \in Nat
  BY <1>2, GreaterOfTwo
<1>. HIDE DEF upto
<1>10. x = CursorOf(r.state, row.head, upto, 0, TRUE, FALSE, r.old)
  BY <1>2, AckEdit
<1>. HIDE DEF x
<1>11. CursorShape(x) /\ x.seq = row.head
  <2>. HIDE DEF row, r
  <2>. QED
    BY <1>2, <1>9, <1>10 DEF CursorOf, CursorShape
<1>12. Shown(m, t[c].view, row.head) /\ t[c].through = 0
  <2>1. row.consumer # ""
    BY <1>1, MemoryAssumption
  <2>2. Shown(m, HeldItems(row.items, Len(row.items)), row.head)
    BY <1>1, <2>1 DEF SnapsGood
  <2>3. t[c].view = HeldItems(row.items, Len(row.items)) /\ t[c].through = 0
    <3>. HIDE DEF row
    <3>. QED
      BY <1>1, Zenon DEF PagesGood, row
  <2>. QED
    BY <2>2, <2>3
<1>13. PlaceGood(n, x, t[c])
  BY <1>8, <1>11, <1>12, ShownSame DEF PlaceGood
<1>14. StoreGood(WithCursor(n, c, x), t)
  BY <1>6, <1>11, <1>13, CursorSet
<1>15. WithCursor(n, c, x) = [head |-> n.head, floor |-> n.floor, entries |-> n.entries, snaps |-> n.snaps,
                              cur |-> [z \in MemoryConsumers |-> IF z = c THEN x ELSE n.cur[z]]]
  BY <1>6, <1>11, <1>13, CursorSet
<1>. QED
  BY <1>4, <1>8, <1>14, <1>15

LEMMA AckDeltaKeeps ==
    ASSUME NEW m, NEW t, StoreGood(m, t), NEW c \in MemoryConsumers, ByDelta(m.cur[c]), t[c].through # 0
    PROVE  LET n == WithCursor(m, c, [m.cur[c] EXCEPT !.seq = t[c].through])
           IN  StoreGood(n, t) /\ n.entries = m.entries
<1>. DEFINE k == t[c].through
            r == m.cur[c]
            x == [r EXCEPT !.seq = k]
<1>1. CursorShape(r) /\ r.issued \in Nat /\ r.snap \in Nat /\ k \in Nat /\ PlaceGood(m, r, t[c])
  BY DEF StoreGood, StoreShape, ConsumersGood, CursorShape, ToldShape
<1>2. x = CursorOf(r.state, k, r.issued, r.snap, r.boot, r.resnap, r.old)
  BY <1>1, IssuedEdits
<1>. HIDE DEF x
<1>3. CursorShape(x) /\ x.seq = k
  BY <1>1, <1>2, CursorFields
<1>4. PlaceGood(m, x, t[c])
  BY <1>1, <1>3 DEF PlaceGood
<1>5. StoreGood(WithCursor(m, c, x), t)
  BY <1>3, <1>4, CursorSet
<1>6. WithCursor(m, c, x) = [head |-> m.head, floor |-> m.floor, entries |-> m.entries, snaps |-> m.snaps,
                             cur |-> [z \in MemoryConsumers |-> IF z = c THEN x ELSE m.cur[z]]]
  BY <1>3, <1>4, CursorSet
<1>7. WithCursor(m, c, x).entries = m.entries
  BY <1>6
<1>. QED
  BY <1>5, <1>7 DEF x

-----------------------------------------------------------------------------
\* A call's transactions leave good stores, one after the other, and its reply fits the last.
Follows(m) == StoreGood(m, told) /\ m.entries \subseteq mem.entries
AllFollow(s) == IsSeq(s) /\ Len(s) > 0 /\ \A i \in DOMAIN s : Follows(s[i])
FitAnswer(a, c) ==
    AllFollow(a.states) /\ StoreGood(Final(a.states), Heard(told, c, Learns(told[c], a.reply)))

LEMMA FinalFollows ==
    ASSUME NEW s, AllFollow(s)
    PROVE  Follows(Final(s))
<1>1. Len(s) \in Nat /\ DOMAIN s = 1 .. Len(s) /\ Len(s) > 0
  BY SeqFacts DEF AllFollow
<1>2. Len(s) \in DOMAIN s
  BY <1>1
<1>. QED
  BY <1>2 DEF AllFollow, Final

LEMMA StoreAdded ==
    ASSUME NEW s, AllFollow(s), NEW x, Follows(x)
    PROVE  AllFollow(Append(s, x)) /\ Final(Append(s, x)) = x
<1>. DEFINE t == Append(s, x)
<1>1. IsSeq(s) /\ Len(s) \in Nat /\ DOMAIN s = 1 .. Len(s)
  BY SeqFacts DEF AllFollow
<1>2. /\ IsSeq(t) /\ Len(t) = Len(s) + 1 /\ DOMAIN t = 1 .. Len(s) + 1 /\ t[Len(s) + 1] = x
      /\ \A i \in 1 .. Len(s) : t[i] = s[i]
  BY <1>1, LongerSeq
<1>. HIDE DEF t
<1>3. ASSUME NEW i \in DOMAIN t PROVE Follows(t[i])
  <2>1. CASE i = Len(s) + 1
    BY <1>2, <2>1
  <2>2. CASE i # Len(s) + 1
    <3>1. i \in 1 .. Len(s)
      BY <1>1, <1>2, <2>2
    <3>. QED
      BY <1>1, <1>2, <3>1 DEF AllFollow
  <2>. QED
    BY <2>1, <2>2
<1>4. Len(t) > 0 /\ Final(t) = x
  BY <1>1, <1>2 DEF Final
<1>. QED
  BY <1>2, <1>3, <1>4 DEF AllFollow, t

\* One state, and two more.
LEMMA StoreAlone ==
    ASSUME NEW x, Follows(x)
    PROVE  AllFollow(<<x>>) /\ Final(<<x>>) = x
<1>1. <<x>> \in Seq({x}) /\ Len(<<x>>) = 1 /\ DOMAIN <<x>> = 1 .. 1 /\ <<x>>[1] = x
  OBVIOUS
<1>2. IsSeq(<<x>>)
  BY <1>1, SeqOfOwn
<1>. QED
  BY <1>1, <1>2 DEF AllFollow, Final

LEMMA TwoAdded ==
    ASSUME NEW s, AllFollow(s), NEW x, NEW y, Follows(x), Follows(y)
    PROVE  AllFollow(s \o <<x, y>>) /\ Final(s \o <<x, y>>) = y
<1>1. AllFollow(Append(s, x)) /\ Final(Append(s, x)) = x
  BY StoreAdded
<1>2. AllFollow(Append(Append(s, x), y)) /\ Final(Append(Append(s, x), y)) = y
  BY <1>1, StoreAdded
<1>3. s \o <<x, y>> = Append(Append(s, x), y)
  <2>. DEFINE S == {s[i] : i \in DOMAIN s} \cup {x, y}
  <2>1. s \in Seq(S) /\ x \in S /\ y \in S
    BY DEF AllFollow, IsSeq
  <2>. HIDE DEF S
  <2>. QED
    BY <2>1
<1>. QED
  BY <1>2, <1>3

LEMMA TwoStores ==
    ASSUME NEW x, NEW y, Follows(x), Follows(y)
    PROVE  AllFollow(<<x, y>>) /\ Final(<<x, y>>) = y
<1>1. /\ <<x, y>> \in Seq({x, y}) /\ Len(<<x, y>>) = 2 /\ DOMAIN <<x, y>> = 1 .. 2
      /\ <<x, y>>[1] = x /\ <<x, y>>[2] = y
  OBVIOUS
<1>2. IsSeq(<<x, y>>)
  BY <1>1, SeqOfOwn
<1>. QED
  BY <1>1, <1>2 DEF AllFollow, Final

LEMMA BegunFollows ==
    ASSUME MemoryInv, NEW c \in MemoryConsumers, NEW late
    PROVE  AllFollow(Begun(c, late))
<1>. DEFINE a == ExpireEntries(mem)
            b == ExpireRows(a)
            m == IF late THEN b ELSE mem
            first == IF late THEN <<a, b>> ELSE <<mem>>
            reg == RegisterConsumer(m, c)
            touched == Touch(reg, c)
<1>1. Follows(mem)
  BY DEF MemoryInv, Follows
<1>2. Follows(a)
  BY <1>1, ExpireEntriesKeeps DEF Follows
<1>3. Follows(b)
  BY <1>2, ExpireRowsKeeps DEF Follows
<1>. HIDE DEF a, b
<1>4. AllFollow(first) /\ Follows(m)
  <2>1. CASE late
    BY <1>2, <1>3, <2>1, TwoStores
  <2>2. CASE ~late
    BY <1>1, <2>2, StoreAlone
  <2>. QED
    BY <2>1, <2>2
<1>. HIDE DEF m, first
<1>5. Follows(reg)
  BY <1>4, RegisterKeeps DEF Follows
<1>. HIDE DEF reg
<1>6. Follows(touched)
  BY <1>5, TouchKeeps DEF Follows
<1>. HIDE DEF touched
<1>7. AllFollow(first \o <<reg, touched>>)
  BY <1>4, <1>5, <1>6, TwoAdded
<1>8. first \o <<>> = first
  <2>. DEFINE S == {first[i] : i \in DOMAIN first}
  <2>1. first \in Seq(S)
    BY <1>4 DEF AllFollow, IsSeq
  <2>. HIDE DEF S
  <2>. QED
    BY <2>1
<1>9. Begun(c, late) = first \o (IF m.cur[c].state = "retired" THEN <<>> ELSE <<reg, touched>>)
  BY DEF Begun, a, b, m, first, reg, touched
<1>. QED
  BY <1>4, <1>7, <1>8, <1>9

\* A reply without a page or delta takes nothing from the view.
LEMMA PlainFits ==
    ASSUME NEW s, AllFollow(s), NEW c \in MemoryConsumers, NEW r, r.kind \notin {"page", "delta"}
    PROVE  FitAnswer(Answer(s, r), c)
<1>1. StoreGood(Final(s), told)
  BY FinalFollows DEF Follows
<1>2. Learns(told[c], r) = [NothingTold EXCEPT !.view = told[c].view]
  BY DEF Learns
<1>3. Answer(s, r).states = s /\ Answer(s, r).reply = r
  BY DEF Answer
<1>. QED
  BY <1>1, <1>2, <1>3, HearsNothing DEF FitAnswer

LEMMA DeltaFits ==
    ASSUME MemoryInv, NEW s, AllFollow(s), NEW m, Follows(m), NEW c \in MemoryConsumers, ~NeedsSnapshot(m, c)
    PROVE  FitAnswer(Delta(m, c, s), c)
<1>. DEFINE n == IssueDelta(m, c)
            t == Append(s, n)
<1>1. StoreGood(m, told) /\ m.entries \subseteq mem.entries /\ EntriesGood(mem)
  BY DEF Follows, MemoryInv, StoreGood
<1>2. Follows(n)
  BY <1>1, IssueDeltaKeeps DEF Follows
<1>3. StoreGood(n, Heard(told, c, Learns(told[c], DeltaReply(m, c))))
  BY <1>1, HearsDelta
<1>4. Delta(m, c, s) = Answer(t, DeltaReply(m, c))
  BY DEF Delta, DeltaReply
<1>. HIDE DEF n
<1>5. AllFollow(t) /\ Final(t) = n
  BY <1>2, StoreAdded
<1>. HIDE DEF t
<1>6. Answer(t, DeltaReply(m, c)).states = t /\ Answer(t, DeltaReply(m, c)).reply = DeltaReply(m, c)
  BY DEF Answer
<1>. QED
  BY <1>3, <1>4, <1>5, <1>6 DEF FitAnswer

LEMMA PageFits ==
    ASSUME NEW s, AllFollow(s), NEW m, Follows(m), NEW c \in MemoryConsumers,
           m.cur[c].snap # 0, Owned(m, c, m.cur[c].snap),
           NEW sid, NEW token \in Nat, token = 0 \/ (told[c].sid = sid /\ told[c].token = token)
    PROVE  FitAnswer(SnapshotPage(m, c, sid, token, s), c)
<1>. DEFINE id == m.cur[c].snap
            n == IssuePage(m, id, token)
            next == Min({token + 1, Len(m.snaps[id].items)})
            reply == PageReply(m, id, token, next)
            t == Append(s, n)
<1>1. CASE \/ sid # 0 /\ sid # id
           \/ token # 0 /\ sid = 0
           \/ token > m.snaps[id].issued
  <2>1. SnapshotPage(m, c, sid, token, s) = Answer(s, Error)
    BY <1>1 DEF SnapshotPage
  <2>2. Error.kind = "error"
    BY DEF Error
  <2>. QED
    BY <2>1, <2>2, PlainFits
<1>2. CASE ~(\/ sid # 0 /\ sid # id
             \/ token # 0 /\ sid = 0
             \/ token > m.snaps[id].issued)
  <2>1. SnapshotPage(m, c, sid, token, s) = Answer(t, reply)
    BY <1>2, Zenon DEF SnapshotPage, PageReply
  <2>2. token = 0 \/ (told[c].sid = id /\ told[c].token = token)
    BY <1>2
  <2>3. StoreGood(m, told) /\ m.entries \subseteq mem.entries /\ id \in DOMAIN m.snaps
    BY DEF Follows, Owned
  <2>4. StoreGood(n, Heard(told, c, Learns(told[c], reply)))
    BY <2>2, <2>3, HearsPage
  <2>5. Follows(n)
    BY <2>3, IssuePageKeeps DEF Follows
  <2>. HIDE DEF n, reply
  <2>6. AllFollow(t) /\ Final(t) = n
    BY <2>5, StoreAdded
  <2>. HIDE DEF t
  <2>7. Answer(t, reply).states = t /\ Answer(t, reply).reply = reply
    BY DEF Answer
  <2>. QED
    BY <2>1, <2>4, <2>6, <2>7 DEF FitAnswer
<1>. QED
  BY <1>1, <1>2

LEMMA DropOwned ==
    ASSUME NEW m, StoreShape(m), NEW c \in MemoryConsumers
    PROVE  DropSnapshot(m, c).cur[c].snap # 0 => Owned(DropSnapshot(m, c), c, DropSnapshot(m, c).cur[c].snap)
<1>. DEFINE r == m.cur[c]
            x == [r EXCEPT !.snap = 0, !.resnap = TRUE]
<1>1. CASE r.snap # 0 /\ (~Owned(m, c, r.snap) \/ Expired(m, r.snap))
  <2>1. DropSnapshot(m, c) = WithCursor(m, c, x)
    BY <1>1 DEF DropSnapshot
  <2>2. CursorShape(r)
    BY DEF StoreShape
  <2>3. x = CursorOf(r.state, r.seq, r.issued, 0, r.boot, TRUE, r.old)
    BY <2>2, DropEdit
  <2>4. x.snap = 0
    <3>. HIDE DEF x
    <3>. QED
      BY <2>3 DEF CursorOf
  <2>. HIDE DEF x
  <2>5. DOMAIN m.cur = MemoryConsumers
        /\ m = [head |-> m.head, floor |-> m.floor, entries |-> m.entries, snaps |-> m.snaps, cur |-> m.cur]
    BY DEF StoreShape
  <2>6. WithCursor(m, c, x).cur[c] = x
    BY <2>5 DEF WithCursor
  <2>. QED
    BY <2>1, <2>4, <2>6
<1>2. CASE ~(r.snap # 0 /\ (~Owned(m, c, r.snap) \/ Expired(m, r.snap)))
  <2>1. DropSnapshot(m, c) = m
    BY <1>2 DEF DropSnapshot
  <2>. QED
    BY <1>2, <2>1
<1>. QED
  BY <1>1, <1>2

LEMMA SyncFits ==
    ASSUME MemoryInv, NEW c \in MemoryConsumers, NEW late, NEW sid, NEW token \in Nat,
           token = 0 \/ (told[c].sid = sid /\ told[c].token = token)
    PROVE  FitAnswer(SyncAnswer(c, sid, token, late), c)
<1>. DEFINE begun == Begun(c, late)
            m == DropSnapshot(Final(begun), c)
            f == IF m.cur[c].snap = 0 THEN Freeze(m, c) ELSE m
            states == begun \o <<m, f>>
<1>1. AllFollow(begun)
  BY BegunFollows
<1>. HIDE DEF begun
<1>2. Follows(Final(begun)) /\ StoreShape(Final(begun))
  BY <1>1, FinalFollows DEF Follows, StoreGood
<1>3. Follows(m)
  BY <1>2, DropKeeps DEF Follows
<1>4. m.cur[c].snap # 0 => Owned(m, c, m.cur[c].snap)
  BY <1>2, DropOwned
<1>. HIDE DEF m
<1>5. Follows(f) /\ f.cur[c].snap # 0 /\ Owned(f, c, f.cur[c].snap)
  <2>1. CASE m.cur[c].snap = 0
    <3>. DEFINE g == Freeze(m, c)
                k == Len(m.snaps) + 1
    <3>1. /\ StoreGood(g, told) /\ g.entries = m.entries
          /\ g.cur[c].snap = k /\ Len(g.snaps) = k /\ g.snaps[k].consumer = c
      BY <1>3, FreezeKeeps DEF Follows
    <3>2. IsSeq(g.snaps) /\ IsSeq(m.snaps)
      BY <1>3, <3>1 DEF Follows, StoreGood, StoreShape
    <3>3. Len(m.snaps) \in Nat /\ DOMAIN g.snaps = 1 .. Len(g.snaps)
      BY <3>2, SeqFacts
    <3>. HIDE DEF g
    <3>4. k \in DOMAIN g.snaps /\ k # 0
      BY <3>1, <3>3
    <3>5. f = g
      BY <2>1 DEF g
    <3>. HIDE DEF f, k
    <3>. QED
      BY <1>3, <3>1, <3>4, <3>5 DEF Follows, Owned
  <2>2. CASE m.cur[c].snap # 0
    BY <1>3, <1>4, <2>2
  <2>. QED
    BY <2>1, <2>2
<1>. HIDE DEF f
<1>6. AllFollow(states)
  BY <1>1, <1>3, <1>5, TwoAdded
<1>. HIDE DEF states
<1>7. AllFollow(Append(begun, m))
  BY <1>1, <1>3, StoreAdded
<1>8. Error.kind = "error"
  BY DEF Error
<1>9. SyncAnswer(c, sid, token, late) =
        IF Final(begun).cur[c].state = "retired" THEN Answer(begun, Error)
        ELSE IF ~NeedsSnapshot(m, c) THEN Delta(m, c, Append(begun, m))
        ELSE IF m.cur[c].snap = 0 /\ (SnapshotCapacity(m, c) \/ Len(m.snaps) = MaxSnapshots)
             THEN Answer(Append(begun, m), Error)
        ELSE SnapshotPage(f, c, sid, token, states)
  BY DEF SyncAnswer, begun, m, f, states
<1>10. FitAnswer(Answer(begun, Error), c) /\ FitAnswer(Answer(Append(begun, m), Error), c)
  BY <1>1, <1>7, <1>8, PlainFits
<1>11. ~NeedsSnapshot(m, c) => FitAnswer(Delta(m, c, Append(begun, m)), c)
  BY <1>3, <1>7, DeltaFits
<1>12. FitAnswer(SnapshotPage(f, c, sid, token, states), c)
  BY <1>5, <1>6, PageFits
<1>. QED
  BY <1>9, <1>10, <1>11, <1>12

LEMMA AckFits ==
    ASSUME MemoryInv, NEW c \in MemoryConsumers, NEW late, told[c].done \/ told[c].through > 0
    PROVE  FitAnswer(AckAnswer(c, told[c].sid, told[c].through, late), c)
<1>. DEFINE begun == Begun(c, late)
            m == Final(begun)
            cu == m.cur[c]
            sid == told[c].sid
            through == told[c].through
            a == AckSnapshot(m, c, sid)
            d == WithCursor(m, c, [cu EXCEPT !.seq = through])
            acked == [kind |-> "acked"]
<1>0. SUFFICES ASSUME NEW answer, answer = AckAnswer(c, told[c].sid, told[c].through, late)
               PROVE  FitAnswer(answer, c)
  OBVIOUS
<1>1. AllFollow(begun)
  BY BegunFollows
<1>. HIDE DEF begun
<1>2. Follows(m)
  BY <1>1, FinalFollows
<1>. HIDE DEF m
<1>3. StoreGood(m, told) /\ m.entries \subseteq mem.entries
  BY <1>2 DEF Follows
<1>4. PagesGood(m, c, told[c]) /\ sid \in Nat /\ through \in Nat
  BY <1>3 DEF StoreGood, ConsumersGood, ToldShape
<1>5. (told[c].done => sid # 0) /\ (sid # 0 => through = 0)
  BY <1>4 DEF PagesGood
<1>6. Error.kind = "error" /\ acked.kind = "acked"
  BY DEF Error
<1>. HIDE DEF acked
<1>7. FitAnswer(Answer(begun, Error), c) /\ FitAnswer(Answer(begun, acked), c)
  BY <1>1, <1>6, PlainFits
<1>8. ASSUME sid # 0, Owned(m, c, sid) PROVE FitAnswer(Answer(Append(begun, a), acked), c)
  <2>1. told[c].done
    BY <1>4, <1>5, <1>8
  <2>2. Follows(a)
    BY <1>3, <1>8, <2>1, AckSnapshotKeeps DEF Follows
  <2>. HIDE DEF a
  <2>3. AllFollow(Append(begun, a))
    BY <1>1, <2>2, StoreAdded
  <2>. QED
    BY <1>6, <2>3, PlainFits
<1>9. ASSUME sid = 0, ByDelta(cu) PROVE FitAnswer(Answer(Append(begun, d), acked), c)
  <2>1. told[c].through # 0
    BY <1>4, <1>5, <1>9
  <2>2. Follows(d)
    BY <1>3, <1>9, <2>1, AckDeltaKeeps DEF Follows
  <2>. HIDE DEF d
  <2>3. AllFollow(Append(begun, d))
    BY <1>1, <2>2, StoreAdded
  <2>. QED
    BY <1>6, <2>3, PlainFits
<1>10. answer =
         IF cu.state = "retired" THEN Answer(begun, Error)
         ELSE IF sid # 0
              THEN IF ~Owned(m, c, sid) THEN Answer(begun, Error)
                   ELSE IF m.snaps[sid].acked THEN Answer(begun, acked)
                   ELSE IF ~AckSnapshotOK(m, c, sid) THEN Answer(begun, Error)
                   ELSE Answer(Append(begun, a), acked)
         ELSE IF cu.snap # 0 \/ cu.resnap \/ ~cu.boot \/ through > cu.issued THEN Answer(begun, Error)
         ELSE IF through < cu.seq THEN Answer(begun, acked)
         ELSE Answer(Append(begun, d), acked)
  BY <1>0 DEF AckAnswer, begun, m, acked
<1>11. ~(cu.snap # 0 \/ cu.resnap \/ ~cu.boot \/ through > cu.issued) => ByDelta(cu)
  BY Zenon DEF ByDelta
<1>. HIDE DEF a, d, cu, sid, through
<1>12. CASE cu.state = "retired" \/ (sid # 0 /\ ~Owned(m, c, sid))
  BY <1>7, <1>10, <1>12
<1>13. CASE cu.state # "retired" /\ sid # 0 /\ Owned(m, c, sid)
  BY <1>7, <1>8, <1>10, <1>13
<1>14. CASE cu.state # "retired" /\ sid = 0
  BY <1>7, <1>9, <1>10, <1>11, <1>14, Zenon
<1>. QED
  BY <1>12, <1>13, <1>14


-----------------------------------------------------------------------------
\* The steps.
LEMMA HandleStep ==
    ASSUME MemoryInv, NEW c \in MemoryConsumers, NEW a, FitAnswer(a, c), Handle(c, a)
    PROVE  MemoryInv'
<1>1. CASE mem' = Final(a.states) /\ told' = Heard(told, c, Learns(told[c], a.reply))
  BY <1>1 DEF FitAnswer, MemoryInv
<1>2. CASE mem' \in {a.states[i] : i \in DOMAIN a.states} /\ told' = told
  BY <1>2 DEF FitAnswer, AllFollow, Follows, MemoryInv
<1>. QED
  BY <1>1, <1>2 DEF Handle, Heard

LEMMA SyncStep ==
    ASSUME MemoryInv, NEW c \in MemoryConsumers, NEW late, MemorySync(c, late)
    PROVE  MemoryInv'
<1>1. told[c].token \in Nat
  BY DEF MemoryInv, StoreGood, ConsumersGood, ToldShape
<1>2. FitAnswer(SyncAnswer(c, told[c].sid, told[c].token, late), c)
  BY <1>1, SyncFits
<1>3. FitAnswer(SyncAnswer(c, 0, 0, late), c)
  BY SyncFits
<1>4. \/ Handle(c, SyncAnswer(c, 0, 0, late))
      \/ Handle(c, SyncAnswer(c, told[c].sid, told[c].token, late))
  BY Zenon DEF MemorySync
<1>. QED
  BY <1>2, <1>3, <1>4, HandleStep

LEMMA AckStep ==
    ASSUME MemoryInv, NEW c \in MemoryConsumers, NEW late, MemoryAck(c, late)
    PROVE  MemoryInv'
<1>1. FitAnswer(AckAnswer(c, told[c].sid, told[c].through, late), c)
  BY AckFits DEF MemoryAck
<1>2. Handle(c, AckAnswer(c, told[c].sid, told[c].through, late))
  BY DEF MemoryAck
<1>. QED
  BY <1>1, <1>2, HandleStep

LEMMA MarkedEdit ==
    ASSUME NEW e \in EntryType, NEW k \in Nat
    PROVE  [e EXCEPT !.by = k] = [seq |-> e.seq, type |-> e.type, target |-> e.target, by |-> k, expires |-> e.expires]
BY DEF EntryType

LEMMA PastEdit ==
    ASSUME NEW e \in EntryType
    PROVE  [e EXCEPT !.expires = "past"]
             = [seq |-> e.seq, type |-> e.type, target |-> e.target, by |-> e.by, expires |-> "past"]
BY DEF EntryType

Marked(m, target, seq) == {IF e.seq = target /\ e.by = 0 THEN [e EXCEPT !.by = seq] ELSE e : e \in m.entries}
NewEntry(seq, type, target, x) == [seq |-> seq, type |-> type, target |-> target, by |-> 0, expires |-> x]

\* A new entry above the head, whose target, if it is there and unmarked, it marks.
LEMMA RecordKeeps ==
    ASSUME NEW m, NEW t, StoreGood(m, t), NEW seq, seq = m.head + 1, NEW type \in {"note", "status"},
           NEW target \in Nat, target < seq, NEW x \in {"never", "ahead"},
           NEW es, es = Marked(m, target, seq) \cup {NewEntry(seq, type, target, x)}
    PROVE  StoreGood([m EXCEPT !.head = seq, !.entries = es], t)
<1>. DEFINE marked == Marked(m, target, seq)
            new == NewEntry(seq, type, target, x)
            n == [m EXCEPT !.head = seq, !.entries = es]
            mark(e) == IF e.seq = target /\ e.by = 0 THEN [e EXCEPT !.by = seq] ELSE e
<1>1. StoreShape(m) /\ EntriesGood(m)
  BY DEF StoreGood
<1>2. m.head \in Nat /\ m.floor \in Nat /\ m.floor <= m.head /\ seq \in Nat /\ m.entries \subseteq EntryType
  BY <1>1 DEF StoreShape
<1>3. n = [head |-> seq, floor |-> m.floor, entries |-> es, snaps |-> m.snaps, cur |-> m.cur]
  <2>1. m = [head |-> m.head, floor |-> m.floor, entries |-> m.entries, snaps |-> m.snaps, cur |-> m.cur]
    BY <1>1 DEF StoreShape
  <2>. DEFINE a == [m EXCEPT !.head = seq]
  <2>2. a = [head |-> seq, floor |-> m.floor, entries |-> m.entries, snaps |-> m.snaps, cur |-> m.cur]
    BY <2>1
  <2>3. n = [a EXCEPT !.entries = es]
    OBVIOUS
  <2>. HIDE DEF a, n
  <2>. QED
    BY <2>2, <2>3
<1>. HIDE DEF n, marked, new
<1>4. n.head = seq /\ n.floor = m.floor /\ n.entries = es /\ n.snaps = m.snaps /\ n.cur = m.cur
  BY <1>3
<1>5. /\ new \in EntryType /\ new.seq = seq /\ new.type = type /\ new.target = target /\ new.by = 0
      /\ new.expires = x
  BY <1>2 DEF EntryType, new, NewEntry
<1>6. ASSUME NEW e \in m.entries
      PROVE  /\ mark(e) \in EntryType /\ mark(e).seq = e.seq /\ mark(e).type = e.type
             /\ mark(e).target = e.target /\ mark(e).expires = e.expires
             /\ mark(e).by = IF e.seq = target /\ e.by = 0 THEN seq ELSE e.by
  <2>1. e \in EntryType
    BY <1>2
  <2>2. [e EXCEPT !.by = seq]
          = [seq |-> e.seq, type |-> e.type, target |-> e.target, by |-> seq, expires |-> e.expires]
    BY <1>2, <2>1, MarkedEdit
  <2>3. mark(e) = [seq |-> e.seq, type |-> e.type, target |-> e.target,
                   by |-> IF e.seq = target /\ e.by = 0 THEN seq ELSE e.by, expires |-> e.expires]
    <3>1. CASE e.seq = target /\ e.by = 0
      BY <2>2, <3>1
    <3>2. CASE ~(e.seq = target /\ e.by = 0)
      BY <2>1, <3>2 DEF EntryType
    <3>. QED
      BY <3>1, <3>2
  <2>. HIDE DEF mark
  <2>. QED
    BY <1>2, <2>1, <2>3 DEF EntryType
<1>7. marked = {mark(e) : e \in m.entries} /\ es = marked \cup {new}
  BY DEF marked, Marked, new
<1>8. \A f \in n.entries : f = new \/ \E e \in m.entries : f = mark(e)
  BY <1>4, <1>7
<1>9. new \in n.entries /\ \A e \in m.entries : mark(e) \in n.entries
  BY <1>4, <1>7
<1>. HIDE DEF mark
<1>10. n.entries \subseteq EntryType
  BY <1>5, <1>6, <1>8
<1>11. StoreShape(n)
  BY <1>1, <1>2, <1>3, <1>4, <1>10 DEF StoreShape
<1>12. \A e \in m.entries : /\ e.seq \in Nat /\ e.by \in Nat /\ e.target \in Nat
                            /\ 1 <= e.seq /\ e.seq <= m.head /\ e.target < e.seq
                            /\ e.by = 0 \/ (e.seq < e.by /\ e.by <= m.head)
  BY <1>1, <1>2 DEF EntriesGood, EntryType
<1>13. EntriesGood(n)
  <2>1. ASSUME NEW f \in n.entries
        PROVE  1 <= f.seq /\ f.seq <= n.head /\ f.target < f.seq /\ (f.by = 0 \/ (f.seq < f.by /\ f.by <= n.head))
    <3>1. CASE f = new
      BY <1>2, <1>4, <1>5, <3>1
    <3>2. ASSUME NEW e \in m.entries, f = mark(e)
          PROVE  1 <= f.seq /\ f.seq <= n.head /\ f.target < f.seq /\ (f.by = 0 \/ (f.seq < f.by /\ f.by <= n.head))
      BY <1>2, <1>4, <1>6, <1>12, <3>2
    <3>. QED
      BY <1>8, <3>1, <3>2
  <2>2. ASSUME NEW f \in n.entries, NEW g \in n.entries, f.seq = g.seq
        PROVE  f = g
    <3>1. \A e \in m.entries : mark(e).seq # seq
      BY <1>2, <1>6, <1>12
    <3>2. ASSUME NEW d \in m.entries, NEW e \in m.entries, f = mark(d), g = mark(e) PROVE d = e
      BY <1>1, <1>6, <2>2, <3>2 DEF EntriesGood
    <3>. QED
      BY <1>5, <1>8, <2>2, <3>1, <3>2
  <2>3. ASSUME NEW k \in 1 .. n.head, n.floor < k
        PROVE  \E f \in n.entries : f.seq = k
    <3>1. CASE k = seq
      BY <1>5, <1>9, <3>1
    <3>2. CASE k # seq
      <4>1. k \in 1 .. m.head
        BY <1>2, <1>4, <3>2
      <4>2. PICK e \in m.entries : e.seq = k
        BY <1>1, <1>4, <2>3, <4>1 DEF EntriesGood
      <4>. QED
        BY <1>6, <1>9, <4>2
    <3>. QED
      BY <3>1, <3>2
  <2>4. ASSUME NEW f \in n.entries, NEW g \in n.entries, f.by = g.seq
        PROVE  g.target = f.seq
    <3>1. CASE f = new
      BY <1>2, <1>4, <1>5, <2>1, <2>4, <3>1
    <3>2. ASSUME NEW d \in m.entries, f = mark(d), g = new PROVE g.target = f.seq
      <4>1. d.by # seq
        BY <1>2, <1>12
      <4>. QED
        BY <1>5, <1>6, <2>4, <3>2, <4>1
    <3>3. ASSUME NEW d \in m.entries, NEW e \in m.entries, f = mark(d), g = mark(e)
          PROVE  g.target = f.seq
      <4>1. f.by = e.seq /\ e.seq # seq
        BY <1>2, <1>6, <1>12, <2>4, <3>3
      <4>2. d.by = e.seq
        BY <1>6, <3>3, <4>1
      <4>. QED
        BY <1>1, <1>6, <3>3, <4>2 DEF EntriesGood
    <3>. QED
      BY <1>8, <3>1, <3>2, <3>3
  <2>5. ASSUME NEW f \in n.entries, NEW g \in n.entries, g.target = f.seq
        PROVE  f.by # 0
    <3>1. CASE f = new
      <4>1. g.target < g.seq /\ g.seq <= seq /\ g.target = seq
        BY <1>4, <1>5, <2>1, <2>5, <3>1
      <4>2. g.seq \in Nat
        BY <1>10 DEF EntryType
      <4>. QED
        BY <1>2, <4>1, <4>2
    <3>2. ASSUME NEW d \in m.entries, f = mark(d), g = new PROVE f.by # 0
      BY <1>2, <1>5, <1>6, <2>5, <3>2
    <3>3. ASSUME NEW d \in m.entries, NEW e \in m.entries, f = mark(d), g = mark(e)
          PROVE  f.by # 0
      <4>1. d.by # 0
        BY <1>1, <1>6, <2>5, <3>3 DEF EntriesGood
      <4>. QED
        BY <1>6, <3>3, <4>1
    <3>. QED
      BY <1>8, <3>1, <3>2, <3>3
  <2>. QED
    BY <2>1, <2>2, <2>3, <2>4, <2>5 DEF EntriesGood
<1>14. Later(m, n)
  <2>1. ASSUME NEW f \in n.entries PROVE (f.seq > m.head /\ f.by = 0) \/ Since(m, f)
    <3>1. CASE f = new
      BY <1>2, <1>5, <3>1
    <3>2. ASSUME NEW e \in m.entries, f = mark(e) PROVE Since(m, f)
      BY <1>2, <1>6, <3>2 DEF Since
    <3>. QED
      BY <1>8, <3>1, <3>2
  <2>. QED
    BY <1>2, <1>4, <2>1 DEF Later
<1>15. StoreGood(n, t)
  BY <1>4, <1>11, <1>13, <1>14, EntriesChange
<1>. QED
  BY <1>15 DEF n


LEMMA RecordStep ==
    ASSUME MemoryInv, NEW type \in {"note", "status"}, NEW target \in 0 .. MaxHead,
           NEW x \in {"never", "ahead"}, NEW late \in BOOLEAN, MemoryRecord(type, target, x, late)
    PROVE  MemoryInv'
<1>. DEFINE m == IF late THEN ExpireRows(ExpireEntries(mem)) ELSE mem
            seq == m.head + 1
            es == Marked(m, target, seq) \cup {NewEntry(seq, type, target, x)}
<1>1. StoreGood(mem, told) /\ StoreShape(mem) /\ EntriesGood(mem)
  BY DEF MemoryInv, StoreGood
<1>2. /\ mem' = [m EXCEPT !.head = seq, !.entries = es] /\ told' = told
      /\ target = 0 \/ \E e \in m.entries : e.seq = target
  <2>1. mem' = [m EXCEPT !.head = seq, !.entries = es]
    BY Zenon DEF MemoryRecord, Marked, NewEntry
  <2>2. target = 0 \/ \E e \in m.entries : e.seq = target
    BY Zenon DEF MemoryRecord
  <2>3. UNCHANGED <<told, cuts>>
    BY Zenon DEF MemoryRecord
  <2>. QED
    BY <2>1, <2>2, <2>3
<1>3. StoreGood(m, told)
  <2>1. StoreGood(ExpireRows(ExpireEntries(mem)), told)
    BY <1>1, ExpireEntriesKeeps, ExpireRowsKeeps
  <2>. QED
    BY <1>1, <2>1
<1>. HIDE DEF m
<1>4. m.head \in Nat /\ \A e \in m.entries : e.seq \in Nat /\ e.seq <= m.head
  BY <1>3 DEF StoreGood, StoreShape, EntriesGood, EntryType
<1>5. target \in Nat /\ target < seq
  BY <1>2, <1>4
<1>. HIDE DEF seq
<1>6. seq = m.head + 1
  BY DEF seq
<1>. HIDE DEF es
<1>7. es = Marked(m, target, seq) \cup {NewEntry(seq, type, target, x)}
  BY DEF es
<1>8. StoreGood([m EXCEPT !.head = seq, !.entries = es], told)
  BY <1>3, <1>5, <1>6, <1>7, RecordKeeps
<1>. QED
  BY <1>2, <1>8 DEF MemoryInv

\* The lifetimes that pass.
LEMMA EntryPasses ==
    ASSUME NEW m, NEW t, StoreGood(m, t), NEW e \in m.entries
    PROVE  StoreGood([m EXCEPT !.entries = (m.entries \ {e}) \cup {[e EXCEPT !.expires = "past"]}], t)
<1>. DEFINE p == [e EXCEPT !.expires = "past"]
            es == (m.entries \ {e}) \cup {p}
            n == [m EXCEPT !.entries = es]
<1>1. StoreShape(m) /\ EntriesGood(m)
  BY DEF StoreGood
<1>2. e \in EntryType /\ m.entries \subseteq EntryType /\ m.head \in Nat
  BY <1>1 DEF StoreShape
<1>3. p = [seq |-> e.seq, type |-> e.type, target |-> e.target, by |-> e.by, expires |-> "past"]
  BY <1>2, PastEdit
<1>4. n = [head |-> m.head, floor |-> m.floor, entries |-> es, snaps |-> m.snaps, cur |-> m.cur]
  <2>1. m = [head |-> m.head, floor |-> m.floor, entries |-> m.entries, snaps |-> m.snaps, cur |-> m.cur]
    BY <1>1 DEF StoreShape
  <2>. HIDE DEF es
  <2>. QED
    BY <2>1
<1>. HIDE DEF n, p
<1>5. n.head = m.head /\ n.floor = m.floor /\ n.entries = es /\ n.snaps = m.snaps /\ n.cur = m.cur
  <2>. HIDE DEF es
  <2>. QED
    BY <1>4
<1>6. /\ p \in EntryType /\ p.seq = e.seq /\ p.type = e.type /\ p.target = e.target /\ p.by = e.by
      /\ p.expires = "past"
  BY <1>2, <1>3 DEF EntryType
<1>7. es \subseteq EntryType
  BY <1>2, <1>6
<1>8. \A f \in es : \E g \in m.entries : /\ g.seq = f.seq /\ g.type = f.type /\ g.target = f.target /\ g.by = f.by
                                         /\ f.expires = g.expires \/ f.expires = "past"
                                         /\ (f = g /\ g # e) \/ (f = p /\ g = e)
  BY <1>6
<1>9. \A g \in m.entries : \E f \in es : f.seq = g.seq
  BY <1>6
<1>. HIDE DEF es
<1>10. StoreShape(n)
  BY <1>1, <1>4, <1>5, <1>7 DEF StoreShape
<1>11. EntriesGood(n)
  <2>1. ASSUME NEW f \in n.entries
        PROVE  1 <= f.seq /\ f.seq <= n.head /\ f.target < f.seq /\ (f.by = 0 \/ (f.seq < f.by /\ f.by <= n.head))
    BY <1>1, <1>5, <1>8 DEF EntriesGood
  <2>2. ASSUME NEW f \in n.entries, NEW g \in n.entries PROVE f.seq = g.seq => f = g
    BY <1>1, <1>5, <1>8 DEF EntriesGood
  <2>3. ASSUME NEW k \in 1 .. n.head, n.floor < k PROVE \E f \in n.entries : f.seq = k
    BY <1>1, <1>5, <1>9, <2>3 DEF EntriesGood
  <2>4. ASSUME NEW f \in n.entries, NEW g \in n.entries
        PROVE  (f.by = g.seq => g.target = f.seq) /\ (g.target = f.seq => f.by # 0)
    BY <1>1, <1>5, <1>8 DEF EntriesGood
  <2>. QED
    BY <2>1, <2>2, <2>3, <2>4 DEF EntriesGood
<1>12. Later(m, n)
  BY <1>2, <1>5, <1>8 DEF Later, Since
<1>13. StoreGood(n, t)
  BY <1>5, <1>10, <1>11, <1>12, EntriesChange
<1>. QED
  BY <1>13 DEF n, es, p

LEMMA SnapPasses ==
    ASSUME NEW m, NEW t, StoreGood(m, t), NEW i \in DOMAIN m.snaps, NEW h
    PROVE  StoreGood([m EXCEPT !.snaps[i].old = h], t)
<1>. DEFINE r == m.snaps[i]
            x == [r EXCEPT !.old = h]
<1>1. StoreShape(m) /\ SnapShape(r)
  BY DEF StoreGood, StoreShape
<1>2. x = RowOf(r.consumer, r.head, r.items, r.issued, r.acked, h)
  <2>1. r = RowOf(r.consumer, r.head, r.items, r.issued, r.acked, r.old)
    BY <1>1 DEF SnapShape, RowOf
  <2>. QED
    BY <2>1 DEF RowOf
<1>3. r.head \in Nat /\ r.items \in Seq(Nat) /\ r.issued \in Nat
  BY <1>1 DEF SnapShape
<1>. HIDE DEF x
<1>4. SnapShape(x) /\ x.consumer = r.consumer /\ x.head = r.head /\ x.items = r.items
  BY <1>2, <1>3 DEF RowOf, SnapShape
<1>5. StoreGood(WithSnap(m, i, x), t)
  BY <1>4, SnapSet
<1>6. [m EXCEPT !.snaps[i].old = h] = WithSnap(m, i, x)
  <2>1. DOMAIN m.snaps = 1 .. Len(m.snaps) /\ m.snaps = [j \in DOMAIN m.snaps |-> m.snaps[j]]
    BY <1>1, SeqFacts DEF StoreShape
  <2>2. [m.snaps EXCEPT ![i] = x] = [j \in DOMAIN m.snaps |-> IF j = i THEN x ELSE m.snaps[j]]
    BY <2>1
  <2>3. [m EXCEPT !.snaps[i].old = h] = [m EXCEPT !.snaps = [m.snaps EXCEPT ![i] = [m.snaps[i] EXCEPT !.old = h]]]
    OBVIOUS
  <2>. QED
    BY <2>2, <2>3 DEF WithSnap, x
<1>. QED
  BY <1>5, <1>6

LEMMA CursorPasses ==
    ASSUME NEW m, NEW t, StoreGood(m, t), NEW c \in MemoryConsumers, NEW h
    PROVE  StoreGood([m EXCEPT !.cur[c].old = h], t)
<1>. DEFINE r == m.cur[c]
            x == [r EXCEPT !.old = h]
<1>1. StoreShape(m) /\ CursorShape(r)
  BY DEF StoreGood, StoreShape
<1>2. x = CursorOf(r.state, r.seq, r.issued, r.snap, r.boot, r.resnap, h)
  <2>1. r = CursorOf(r.state, r.seq, r.issued, r.snap, r.boot, r.resnap, r.old)
    BY <1>1 DEF CursorShape, CursorOf
  <2>. QED
    BY <2>1 DEF CursorOf
<1>3. r.seq \in Nat /\ r.issued \in Nat /\ r.snap \in Nat
  BY <1>1 DEF CursorShape
<1>. HIDE DEF x
<1>4. CursorShape(x) /\ x.seq = r.seq /\ x.boot = r.boot /\ x.resnap = r.resnap /\ x.snap = r.snap
  BY <1>2, <1>3 DEF CursorOf, CursorShape
<1>5. ByDelta(x) => ByDelta(r)
  BY <1>4 DEF ByDelta
<1>6. StoreGood(WithCursor(m, c, x), t)
  BY <1>4, <1>5, CursorKeeps
<1>7. [m EXCEPT !.cur[c].old = h] = WithCursor(m, c, x)
  <2>1. DOMAIN m.cur = MemoryConsumers /\ m.cur = [k \in MemoryConsumers |-> m.cur[k]]
    BY <1>1 DEF StoreShape
  <2>2. [m.cur EXCEPT ![c] = x] = [k \in DOMAIN m.cur |-> IF k = c THEN x ELSE m.cur[k]]
    BY <2>1
  <2>3. [m EXCEPT !.cur[c].old = h] = [m EXCEPT !.cur = [m.cur EXCEPT ![c] = [m.cur[c] EXCEPT !.old = h]]]
    OBVIOUS
  <2>. QED
    BY <2>2, <2>3 DEF WithCursor, x
<1>. QED
  BY <1>6, <1>7


LEMMA ElapseStep ==
    ASSUME MemoryInv, MemoryElapse
    PROVE  MemoryInv'
<1>1. StoreGood(mem, told)
  BY DEF MemoryInv
<1>2. told' = told
  BY DEF MemoryElapse
<1>3. ASSUME NEW e \in mem.entries, mem' = [mem EXCEPT !.entries = (@ \ {e}) \cup {[e EXCEPT !.expires = "past"]}]
      PROVE  StoreGood(mem', told)
  <2>1. mem' = [mem EXCEPT !.entries = (mem.entries \ {e}) \cup {[e EXCEPT !.expires = "past"]}]
    BY <1>3
  <2>. QED
    BY <1>1, <2>1, EntryPasses, Zenon
<1>4. ASSUME NEW i \in DOMAIN mem.snaps, mem' = [mem EXCEPT !.snaps[i].old = TRUE]
      PROVE  StoreGood(mem', told)
  BY <1>1, <1>4, SnapPasses, Zenon
<1>5. ASSUME NEW c \in MemoryConsumers, mem' = [mem EXCEPT !.cur[c].old = TRUE]
      PROVE  StoreGood(mem', told)
  BY <1>1, <1>5, CursorPasses, Zenon
<1>6. StoreGood(mem', told)
  BY <1>3, <1>4, <1>5, Zenon DEF MemoryElapse
<1>. QED
  BY <1>2, <1>6 DEF MemoryInv

LEMMA MemoryStarts ==
    ASSUME MemoryInit
    PROVE  MemoryInv
<1>1. /\ mem.head = 0 /\ mem.floor = 0 /\ mem.entries = {} /\ mem.snaps = <<>>
      /\ mem.cur = [c \in MemoryConsumers |-> NoCursor]
      /\ mem = [head |-> mem.head, floor |-> mem.floor, entries |-> mem.entries, snaps |-> mem.snaps, cur |-> mem.cur]
  BY DEF MemoryInit
<1>2. told = [c \in MemoryConsumers |-> NothingTold]
  BY DEF MemoryInit
<1>3. IsSeq(mem.snaps) /\ Len(mem.snaps) = 0 /\ DOMAIN mem.snaps = {}
  BY <1>1 DEF IsSeq
<1>4. CursorShape(NoCursor) /\ ~ByDelta(NoCursor)
  BY DEF CursorShape, NoCursor, ByDelta
<1>5. ToldShape(NothingTold) /\ NothingTold.sid = 0 /\ ~NothingTold.done
  BY DEF ToldShape, NothingTold
<1>6. StoreShape(mem)
  BY <1>1, <1>3, <1>4 DEF StoreShape
<1>7. EntriesGood(mem)
  BY <1>1 DEF EntriesGood
<1>8. SnapsGood(mem)
  BY <1>3 DEF SnapsGood
<1>9. ConsumersGood(mem, told)
  BY <1>1, <1>2, <1>3, <1>4, <1>5 DEF ConsumersGood, PlaceGood, PagesGood
<1>. QED
  BY <1>2, <1>6, <1>7, <1>8, <1>9 DEF MemoryInv, StoreGood

\* Every state of the store and of its readers is good.
LEMMA MemoryHolds == MemorySpec => []MemoryInv
<1>1. MemoryInit => MemoryInv
  BY MemoryStarts
<1>2. MemoryInv /\ [MemoryNext]_memVars => MemoryInv'
  <2>1. SUFFICES ASSUME MemoryInv, [MemoryNext]_memVars PROVE MemoryInv'
    OBVIOUS
  <2>2. CASE UNCHANGED memVars
    BY <2>1, <2>2 DEF memVars, MemoryInv
  <2>3. CASE MemoryElapse
    BY <2>1, <2>3, ElapseStep
  <2>4. ASSUME NEW c \in MemoryConsumers, NEW late \in BOOLEAN, MemorySync(c, late) PROVE MemoryInv'
    BY <2>1, <2>4, SyncStep
  <2>5. ASSUME NEW c \in MemoryConsumers, NEW late \in BOOLEAN, MemoryAck(c, late) PROVE MemoryInv'
    BY <2>1, <2>5, AckStep
  <2>6. ASSUME NEW t \in {"note", "status"}, NEW target \in 0 .. MaxHead, NEW x \in {"never", "ahead"},
               NEW late \in BOOLEAN, MemoryRecord(t, target, x, late)
        PROVE  MemoryInv'
    BY <2>1, <2>6, RecordStep
  <2>. QED
    BY <2>1, <2>2, <2>3, <2>4, <2>5, <2>6, Zenon DEF MemoryNext
<1>. QED
  BY <1>1, <1>2, PTL DEF MemorySpec

(* A consumer whose next sync would be an empty delta has the store's      *)
(* current memory (the delta branch of memorySync, memory.go): nothing it  *)
(* was told is replaced or revoked, and every live note was told to it.    *)
THEOREM CaughtUpIsCurrentThm == MemorySpec => []CaughtUpIsCurrent
<1>1. MemoryInv => CaughtUpIsCurrent
  <2>1. SUFFICES ASSUME MemoryInv, NEW c \in MemoryConsumers,
                        ~NeedsSnapshot(mem, c), After(mem, mem.cur[c].seq) = {}
                 PROVE  /\ \A e \in mem.entries : e.seq \in told[c].view => e \in Live(mem) \/ e.expires = "past"
                        /\ \A e \in Live(mem) : e.type = "note" => e.seq \in told[c].view
    BY Zenon DEF CaughtUpIsCurrent
  <2>2. StoreShape(mem) /\ EntriesGood(mem) /\ PlaceGood(mem, mem.cur[c], told[c])
    BY <2>1 DEF MemoryInv, StoreGood, ConsumersGood
  <2>. DEFINE k == mem.cur[c].seq
  <2>3. ByDelta(mem.cur[c]) /\ mem.floor <= k
    <3>1. k \in Nat /\ mem.floor \in Nat
      BY <2>2 DEF StoreShape, CursorShape
    <3>2. ByDelta(mem.cur[c]) /\ ~(k < mem.floor)
      BY <2>1, Zenon DEF NeedsSnapshot, ByDelta
    <3>. QED
      BY <3>1, <3>2
  <2>4. Shown(mem, told[c].view, k)
    BY <2>2, <2>3 DEF PlaceGood
  <2>5. \A e \in mem.entries : ~(e.seq > k)
    BY <2>1 DEF After
  <2>6. k \in Nat /\ mem.floor \in Nat /\ mem.head \in Nat /\ mem.entries \subseteq EntryType
    BY <2>2 DEF StoreShape, CursorShape
  <2>. HIDE DEF k
  <2>7. ASSUME NEW e \in mem.entries PROVE e.by = 0 \/ ~(k < e.by)
    <3>1. SUFFICES ASSUME e.by # 0, k < e.by PROVE FALSE
      OBVIOUS
    <3>2. e.by \in Nat /\ e.by <= mem.head
      BY <2>2, <2>6, <3>1 DEF EntriesGood, EntryType
    <3>3. e.by \in 1 .. mem.head /\ mem.floor < e.by
      BY <2>3, <2>6, <3>1, <3>2
    <3>4. \E f \in mem.entries : f.seq = e.by
      BY <2>2, <3>3 DEF EntriesGood
    <3>. QED
      BY <2>5, <2>6, <3>1, <3>2, <3>4
  <2>8. \A e \in mem.entries : e.seq <= k
    BY <2>5, <2>6 DEF EntryType
  <2>. QED
    BY <2>4, <2>7, <2>8 DEF Shown, Live
<1>. QED
  BY <1>1, MemoryHolds, PTL

=============================================================================
