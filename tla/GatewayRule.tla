----------------------------- MODULE GatewayRule -----------------------------
(***************************************************************************)
(* What the diagnosis says of Gateways and HTTPRoutes                      *)
(* (internal/rules/gateway_api.go).  A hostname is the sequence of its     *)
(* labels, a path the sequence of its segments; a pattern that starts with *)
(* the label "*" is a wildcard.  No hostname is <<>>.                      *)
(***************************************************************************)
EXTENDS SnapshotScope

Wildcard(host) == host # <<>> /\ host[1] = "*"

\* wildcardHostnameMatches: the wildcard stands for exactly one label.
WildcardMatches(pattern, host) == host # <<>> /\ Tail(pattern) = Tail(host)

\* hostnameIntersects.
HostnamesMeet(a, b) ==
    \/ a = b
    \/ Wildcard(a) /\ ~Wildcard(b) /\ WildcardMatches(a, b)
    \/ Wildcard(b) /\ ~Wildcard(a) /\ WildcardMatches(b, a)

\* routeHostnameMatchesGateway: a route without hostnames fits every listener.
FitsListener(route, gateway, section) ==
    \/ route.hostnames = {}
    \/ \E l \in gateway.listeners :
           /\ section \in {"", l.name}
           /\ l.hostname = <<>> \/ \E h \in route.hostnames : HostnamesMeet(l.hostname, h)

\* routePathAccepts: a prefix is compared segment by segment.
PathAccepts(match, path) ==
    IF match.exact THEN path = match.path ELSE IsPrefix(match.path, path)

\* A namespace that was not collected proves nothing.
InScope(s, namespace) == s.ns \in {"", namespace}

ParentFindings(s, route) ==
    LET found(p) == {g \in s.gateways : NameOf(g) = p.gateway}
    IN  {Finding("Issue", "PARENT_NOT_FOUND", NameOf(route), p.gateway) :
            p \in {q \in route.parents : found(q) = {} /\ InScope(s, q.gateway[1])}}
        \union
        {Finding("Warning", "HOSTNAME_MISMATCH", NameOf(route), p.gateway) :
            p \in {q \in route.parents :
                      \E g \in found(q) : ~FitsListener(route, g, q.section)}}

\* missingRouteBackends.
BackendFindings(s, route) ==
    {Finding("Issue", "BACKEND_NOT_FOUND", NameOf(route), b) :
        b \in {c \in UNION {r.backends : r \in route.rules} :
                  c \notin {NameOf(v) : v \in Services(s)} /\ InScope(s, c[1])}}

\* routeBackendPathFindings: the paths the Pods behind the backend serve, against
\* the matches of a rule.  A rule that rewrites the path or matches a regular
\* expression is left alone; one without matches accepts every path.
ServedPaths(s, backend) ==
    UNION {UNION {pod.paths : pod \in {q \in s.pods : SelectsPod(v, q)}} :
              v \in {w \in Services(s) : NameOf(w) = backend}}

PathFindings(s, route) ==
    LET accepts(r, path) ==
            r.matches = {} \/ \E m \in r.matches : PathAccepts(m, path)
        mismatched(r, b) ==
            /\ ~r.rewrites /\ ~r.regular
            /\ InScope(s, b[1])
            /\ ServedPaths(s, b) # {}
            /\ \A path \in ServedPaths(s, b) : ~accepts(r, path)
    IN  UNION {{Finding("Candidate", "PATH_BACKEND_MISMATCH", NameOf(route), b) :
                   b \in {c \in r.backends : mismatched(r, c)}} : r \in route.rules}

ClassFindings(s) ==
    {Finding("Issue", "GATEWAY_CLASS_NOT_FOUND", NameOf(g), g.class) :
        g \in {h \in s.gateways : /\ AvailableOrUntracked(s, "gatewayclasses")
                                  /\ h.class # "" /\ h.class \notin s.gatewayclasses}}

\* Conditions that are False: Accepted and Programmed of a Gateway, Accepted and
\* ResolvedRefs of a route.
ConditionFindings(s) ==
    {Finding("Warning", "GATEWAY_CONDITION", NameOf(g), "") :
        g \in {h \in s.gateways : h.failing # {}}}
    \union
    {Finding("Warning", "ROUTE_CONDITION", NameOf(r), "") :
        r \in {h \in s.routes : h.failing # {}}}

\* GatewayAPIRule.Evaluate.
GatewayFindings(s) ==
    LET backendsKnown == AvailableOrUntracked(s, "services")
        podsKnown == AvailableOrUntracked(s, "pods")
        of(route) ==
            ParentFindings(s, route)
                \union (IF backendsKnown THEN BackendFindings(s, route) ELSE {})
                \union (IF backendsKnown /\ podsKnown THEN PathFindings(s, route) ELSE {})
    IN  ClassFindings(s) \union ConditionFindings(s) \union UNION {of(r) : r \in s.routes}
=============================================================================
