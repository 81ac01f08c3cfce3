-------------------------------- MODULE Login --------------------------------
(***************************************************************************)
(* The maintainer's logins (internal/core/dashboard_auth.go and            *)
(* maintainer_secret.go): one-time links, the maintainer secret with its   *)
(* gate and its wait after failed checks, and the logins in memory that a  *)
(* change of the secret ends.                                              *)
(*                                                                         *)
(* Browsers and maintainer tokens check the secret while the host's user   *)
(* changes it; deriving a key takes long, so a check and a change are      *)
(* several steps.  A secret is the number of the change that set it; 0 is  *)
(* none, and also stands for every wrong secret that a client gives.       *)
(***************************************************************************)
EXTENDS Naturals, Sequences

CONSTANTS
    LoginClients,       \* requests that give a secret or a link
    MaxLogins,          \* maxDashboardLogin
    MaxLinks,           \* maxLoginLinks
    FreeFailures,       \* secretFreeFailures
    MaxSecrets,         \* bound: changes of the secret
    MaxIssued           \* bound: links issued

ASSUME LoginAssumption ==
    /\ MaxLogins \in Nat \ {0} /\ MaxLinks \in Nat \ {0}
    /\ FreeFailures \in Nat /\ MaxSecrets \in Nat /\ MaxIssued \in Nat
    /\ LoginClients \cap {"free", "change"} = {}

VARIABLES
    secret,     \* maintainer_secret: the stored key
    changed,    \* changes so far
    gate,       \* who holds the secret gate
    loginFailures, backoff,  \* failed checks in a row; retry lies in the future
    links,      \* outstanding links, the one that expires first at the head
    issued,
    logins,     \* logins, the oldest at the head: by what each was started
    request,    \* per client: step and what it gave
    change      \* step of the change under way

loginVars == <<secret, changed, gate, loginFailures, backoff, links, issued, logins, request, change>>

Secret(n) == [kind |-> "secret", n |-> n]
Link(n) == [kind |-> "link", n |-> n]
NoRequest == [step |-> "idle", with |-> Secret(0)]

Has(seq, x) == \E i \in DOMAIN seq : seq[i] = x
WithoutAt(seq, i) == SubSeq(seq, 1, i - 1) \o SubSeq(seq, i + 1, Len(seq))

\* No link is issued twice, so a sequence holds it at most once.
WithoutItem(seq, x) ==
    IF Has(seq, x) THEN WithoutAt(seq, CHOOSE i \in DOMAIN seq : seq[i] = x) ELSE seq

\* The oldest goes while there is no room.
Room(seq, limit) == IF Len(seq) >= limit THEN Tail(seq) ELSE seq

At2(c, step) == request[c].step = step
Goes(c, step) == request' = [request EXCEPT ![c].step = step]
Ends(c) == request' = [request EXCEPT ![c] = NoRequest]

-----------------------------------------------------------------------------
(* Links *)

IssueLink ==
    /\ issued < MaxIssued
    /\ issued' = issued + 1
    /\ links' = Append(Room(links, MaxLinks), Link(issued + 1))
    /\ UNCHANGED <<secret, changed, gate, loginFailures, backoff, logins, request, change>>

LinkExpires ==
    /\ links # <<>> /\ links' = Tail(links)
    /\ UNCHANGED <<secret, changed, gate, loginFailures, backoff, issued, logins, request, change>>

\* A link is consumed under the lock; the login starts after it.
Consumed(link) == WithoutItem(links, link)

LinkLogin(c) ==
    /\ At2(c, "idle")
    /\ \E n \in 1..issued :
        /\ links' = Consumed(Link(n))
        /\ request' = IF Has(links, Link(n))
                      THEN [request EXCEPT ![c] = [step |-> "start", with |-> Link(n)]]
                      ELSE request
    /\ UNCHANGED <<secret, changed, gate, loginFailures, backoff, issued, logins, change>>

-----------------------------------------------------------------------------
(* passwordLogin *)

GiveSecret(c) ==
    /\ At2(c, "idle")
    /\ \E n \in 0..changed :
        request' = [request EXCEPT ![c] = [step |-> "gate", with |-> Secret(n)]]
    /\ UNCHANGED <<secret, changed, gate, loginFailures, backoff, links, issued, logins, change>>

\* A check during the wait computes no key and leaves the wait as it is.
EnterGate(c) ==
    /\ At2(c, "gate") /\ gate = "free"
    /\ IF backoff THEN Ends(c) /\ UNCHANGED gate
       ELSE Goes(c, "match") /\ gate' = c
    /\ UNCHANGED <<secret, changed, loginFailures, backoff, links, issued, logins, change>>

\* The request's context ends while it waits for the gate.
GiveUp(c) ==
    /\ At2(c, "gate") /\ Ends(c)
    /\ UNCHANGED <<secret, changed, gate, loginFailures, backoff, links, issued, logins, change>>

\* Without the gate while the login starts.
MatchUngated(c) ==
    /\ At2(c, "match")
    /\ gate' = "free"
    /\ IF secret # 0 /\ request[c].with = Secret(secret) THEN Goes(c, "start") ELSE Ends(c)
    /\ UNCHANGED <<secret, changed, loginFailures, backoff, links, issued, logins, change>>

\* matchMaintainerSecret: with no secret set nothing counts as a failure.
Match(c) ==
    /\ At2(c, "match")
    /\ IF secret = 0 THEN Ends(c) /\ gate' = "free" /\ UNCHANGED <<loginFailures, backoff>>
       ELSE IF request[c].with # Secret(secret)
       THEN /\ Ends(c) /\ gate' = "free"
            /\ loginFailures' = IF loginFailures > FreeFailures THEN loginFailures ELSE loginFailures + 1
            /\ backoff' = (loginFailures' > FreeFailures)
       ELSE /\ Goes(c, "start") /\ loginFailures' = 0 /\ backoff' = FALSE
            /\ UNCHANGED gate
    /\ UNCHANGED <<secret, changed, links, issued, logins, change>>

\* The audit record of the login may be refused; then no login starts.
StartLogin(c) ==
    /\ At2(c, "start") /\ Ends(c)
    /\ gate' = IF gate = c THEN "free" ELSE gate
    /\ \/ logins' = Append(Room(logins, MaxLogins), request[c].with)
       \/ request[c].with.kind = "secret" /\ UNCHANGED logins
    /\ UNCHANGED <<secret, changed, loginFailures, backoff, links, issued, change>>

WaitEnds ==
    /\ backoff /\ backoff' = FALSE
    /\ UNCHANGED <<secret, changed, gate, loginFailures, links, issued, logins, request, change>>

-----------------------------------------------------------------------------
(* changeSecret *)

ChangeBegins ==
    /\ change = "idle" /\ changed < MaxSecrets /\ gate = "free"
    /\ gate' = "change" /\ change' = "store"
    /\ UNCHANGED <<secret, changed, loginFailures, backoff, links, issued, logins, request>>

\* set or generate, or clear; an error releases the gate and ends no login.
StoreSecret ==
    /\ change = "store"
    /\ \/ /\ changed' = changed + 1 /\ secret' \in {changed + 1, 0} /\ secret' # secret
          /\ change' = "end" /\ UNCHANGED gate
       \/ change' = "idle" /\ gate' = "free" /\ UNCHANGED <<secret, changed>>
    /\ UNCHANGED <<loginFailures, backoff, links, issued, logins, request>>

EndAll ==
    /\ change = "end"
    /\ logins' = <<>>
    /\ change' = "idle" /\ gate' = "free"
    /\ UNCHANGED <<secret, changed, loginFailures, backoff, links, issued, request>>

-----------------------------------------------------------------------------
(* The end of a login, and a restart *)

\* Unused for sessionIdle, older than sessionAbsolute, or logged out.
LoginEnds ==
    /\ \E i \in DOMAIN logins : logins' = WithoutAt(logins, i)
    /\ UNCHANGED <<secret, changed, gate, loginFailures, backoff, links, issued, request, change>>

\* Only the stored key survives the daemon.
LoginRestart ==
    /\ gate' = "free" /\ loginFailures' = 0 /\ backoff' = FALSE /\ change' = "idle"
    /\ links' = <<>> /\ logins' = <<>> /\ request' = [c \in LoginClients |-> NoRequest]
    /\ UNCHANGED <<secret, changed, issued>>

-----------------------------------------------------------------------------
LoginInit ==
    /\ secret = 0 /\ changed = 0
    /\ gate = "free" /\ loginFailures = 0 /\ backoff = FALSE
    /\ links = <<>> /\ issued = 0 /\ logins = <<>>
    /\ request = [c \in LoginClients |-> NoRequest]
    /\ change = "idle"

LoginNext ==
    \/ IssueLink \/ LinkExpires \/ WaitEnds \/ ChangeBegins \/ StoreSecret \/ EndAll
    \/ LoginEnds \/ LoginRestart
    \/ \E c \in LoginClients :
        LinkLogin(c) \/ GiveSecret(c) \/ EnterGate(c) \/ GiveUp(c) \/ Match(c) \/ StartLogin(c)

LoginSpec == LoginInit /\ [][LoginNext]_loginVars

-----------------------------------------------------------------------------
\* Once a change of the secret has answered, every login that is left was started by the
\* stored secret or by a link, and no link started two.  (secretGate: "a check against a
\* replaced key never starts a login after the change ended every login"; login: a link
\* token is consumed.)
LoginsAreCurrent ==
    change = "idle" =>
        \A i \in DOMAIN logins :
            IF logins[i].kind = "secret" THEN logins[i].n = secret
            ELSE \A j \in DOMAIN logins : logins[j] = logins[i] => j = i

=============================================================================
