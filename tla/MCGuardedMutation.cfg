\* Three concurrent calls on two processes, and single calls under every policy.
SPECIFICATION Spec
CONSTANTS
    Calls = {c1, c2, c3}
    Processes = {p1, p2}
    Tokens = {t1, t2}
    Namespaces = {"prod", "dev"}
    Default = "dev"
    Omitted = Omitted
    Star = Star
    Names = {"wf"}
    Arguments = {"a1", "a2"}
    Blank = Blank
    NoToken = NoToken
    NoGrant = NoGrant
    Scopes <- MCScopes
    Deployments <- MCDeployments
    TTL = 2
    MaxTime = 2
SYMMETRY Symmetry
INVARIANTS
    TypeOK
    OneRequestPerGrant
    PreviewedFirst
    HonestOutcome
    InsidePolicy
\* The bounded set of calls ends.
CHECK_DEADLOCK FALSE
