---- MODULE MCPreview ----
(* Two pages; the URLs of a preview of the second with and without an override, an escape, and one of before owners. *)
EXTENDS Preview

CONSTANTS p1, p2, q1, q2, t1

U(scope, owner, primary, override) == [scope |-> scope, owner |-> owner, primary |-> primary, override |-> override, path |-> <<"a">>]
MCUrls == {U(TRUE, p1, 80, None), U(TRUE, p2, 80, 81), U(FALSE, None, 80, None), U(TRUE, Digits, 80, None)}

MCLines == {<<>>, <<[name |-> "s", path |-> <<>>, live |-> TRUE]>>,
            <<[name |-> "s", path |-> <<>>, live |-> FALSE], [name |-> "t", path |-> <<"a">>, live |-> TRUE]>>}

MCContexts == {None, U(TRUE, p2, 80, None)}

\* Bound: requests, sockets and handshakes beside an update are looked at apart; a second request is made to the port of
\* the first once that was dispatched; messages go one way.
Apart ==
    LET fetching == req[q1].sw # "idle"
        socket == tun[t1].page # None
        updating == update # "none"
    IN  /\ tun[t1].sent = 0 \/ tun[t1].made = 0
        /\ ~(fetching /\ socket) /\ ~(updating /\ (fetching \/ socket)) /\ (socket => boot = (p1 :> "choose" @@ p2 :> "off"))
        /\ fetching => gen[p1] = 1 /\ p1 \notin gone /\ \A p \in Page : boot[p] \in {"off", "choose", "done"}
        /\ req[q2].sw # "idle" => req[q1].gen # 0 /\ req[q1].bridge # "dispatch" /\ req[q2].url = req[q1].url

----
MCNext ==
    \/ (Updated /\ Apart')
    \/ \E p \in Page : (Boot(p) /\ Apart') \/ (Handshake(p) /\ Apart') \/ (Leave(p) /\ Apart') \/ (Retarget(p) /\ Apart')
    \/ \E r \in Req :
        \/ (Worker(r) /\ Apart') \/ (DispatchFails(r) /\ Apart')
        \/ \E u \in Urls : (FetchInScope(r, u) /\ Apart') \/ \E context \in Contexts : (FetchOutside(r, u, context) /\ Apart')
        \/ (DispatchEnds(r, <<>>, "open") /\ Apart') \/ \E cookies \in Lines : (DispatchEnds(r, cookies, "none") /\ Apart')
    \/ \E t \in Tunnel :
        \/ (Pump(t) /\ Apart') \/ (Upgraded(t) /\ Apart') \/ (GuestSends(t) /\ Apart') \/ (GuestCloses(t) /\ Apart')
        \/ (Handle(t) /\ Apart') \/ (Decoded(t) /\ Apart')
        \/ \E p \in Page : (OpenSocket(t, p) /\ Apart')
        \/ \E post \in {"frame", "blob", "close", "bad"} : (ShimPosts(t, post) /\ Apart')

MCSpec == Init /\ [][MCNext]_vars /\ Fairness
====
